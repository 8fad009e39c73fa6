--------------------------- MODULE AlarmZoneProofs ---------------------------
(***************************************************************************)
(* Theorems about the zone machine, for every configuration, every set of   *)
(* sensors and modes and every bound.  The proofs follow the module: one    *)
(* lemma per handler operator, stated on the engine record, and one step    *)
(* per action in the theorems.                                              *)
(***************************************************************************)
EXTENDS AlarmZone, TLAPS, SequenceTheorems, WellFoundedInduction

-----------------------------------------------------------------------------
\* Choices from ordered sets.

\* A set of naturals that is not empty has a least element.
LEMMA LeastNat ==
    ASSUME NEW T, T \subseteq Nat, T # {}
    PROVE  \E x \in T : \A y \in T : x <= y
<1>1. PICK x \in T : \A y \in T : ~(<<y, x>> \in OpToRel(<, Nat))
    BY NatLessThanWellFounded, WFMin, Zenon
<1>2. ASSUME NEW y \in T PROVE x <= y
    <2> DEFINE p == <<y, x>>
    <2>1. p \in Nat \X Nat /\ p[1] = y /\ p[2] = x
        OBVIOUS
    <2>2. y < x => p \in OpToRel(<, Nat)
        BY <2>1, Zenon DEF OpToRel
    <2>3. ~(y < x)
        BY <1>1, <2>2, Zenon
    <2> QED BY <2>3
<1> QED BY <1>2

\* reEvaluateAfterRestore takes the first opened sensor: it is one of them.
LEMMA FirstOfMember ==
    ASSUME NEW S \in SUBSET Sensors, S # {}
    PROVE  FirstOf(S) \in S
<1> DEFINE T == {IdOrder[s] : s \in S}
<1>1. T \subseteq Nat /\ T # {}
    BY ConfigAssumption
<1>2. PICK x \in T : \A y \in T : x <= y
    <2> HIDE DEF T
    <2> QED BY <1>1, LeastNat
<1>3. \E s \in S : \A t \in S : IdOrder[s] <= IdOrder[t]
    BY <1>2
<1> QED BY <1>3 DEF FirstOf

\* GetOpenByZone returns an open row.
LEMMA NewestMember ==
    ASSUME NEW d \in Seq(IncidentRows), OpenRows(d) # {}
    PROVE  Newest(OpenRows(d)) \in OpenRows(d)
<1> DEFINE T == {Len(d) - i : i \in OpenRows(d)}
<1>1. OpenRows(d) \subseteq 1..Len(d) /\ Len(d) \in Nat
    BY DEF OpenRows
<1>2. T \subseteq Nat /\ T # {}
    BY <1>1
<1>3. PICK x \in T : \A y \in T : x <= y
    <2> HIDE DEF T
    <2> QED BY <1>2, LeastNat
<1>4. PICK i \in OpenRows(d) : x = Len(d) - i
    OBVIOUS
<1>5. \A j \in OpenRows(d) : j <= i
    <2> SUFFICES ASSUME NEW j \in OpenRows(d) PROVE j <= i
        OBVIOUS
    <2>1. Len(d) - i <= Len(d) - j
        BY <1>3, <1>4
    <2> QED BY <2>1, <1>1
<1> QED BY <1>5 DEF Newest

-----------------------------------------------------------------------------
\* Types of the handlers.  Typed(e) is what TypeOK says of the engine record.

Engines ==
    [z : Zones, cfg : Configs, view : Views, row : Rows, db : Seq(IncidentRows),
     horn : BOOLEAN, fired : [Ids -> Nat]]

Typed(e) ==
    /\ e \in Engines
    /\ e.z.incident # None => e.z.incident.id <= Len(e.db)

\* A handler that only replaces the zone, by one of the right shape that keeps
\* its incident, leaves a typed engine.
LEMMA WithTyped ==
    ASSUME NEW e, Typed(e), NEW z \in Zones, z.incident = e.z.incident
    PROVE  Typed(With(e, z)) /\ With(e, z).z = z /\ With(e, z).cfg = e.cfg
           /\ With(e, z).view = e.view /\ With(e, z).row = e.row /\ With(e, z).db = e.db
BY DEF Typed, Engines, With

LEMMA RowOfTyped ==
    ASSUME NEW z \in Zones
    PROVE  RowOf(z) \in Rows
BY DEF RowOf, Zones, Rows, Incidents

LEMMA PersistTyped ==
    ASSUME NEW e, Typed(e), NEW f
    PROVE  Typed(Persist(e, f)) /\ Persist(e, f).z = e.z /\ Persist(e, f).cfg = e.cfg
           /\ Persist(e, f).view = e.view /\ Persist(e, f).db = e.db
<1>1. e.z \in Zones
    BY DEF Typed, Engines
<1> QED BY <1>1, RowOfTyped DEF Typed, Engines, Persist

LEMMA StopAllTyped ==
    ASSUME NEW e, Typed(e)
    PROVE  Typed(StopAll(e)) /\ StopAll(e).z = e.z /\ StopAll(e).cfg = e.cfg
BY DEF Typed, Engines, StopAll

LEMMA FireCycleTyped ==
    ASSUME NEW e, Typed(e), NEW loud \in BOOLEAN
    PROVE  Typed(FireCycle(e, loud)) /\ FireCycle(e, loud).z = e.z
           /\ FireCycle(e, loud).db = e.db
<1> DEFINE h == loud \/ e.horn
           g == [e.fired EXCEPT ![e.z.incident.id] = @ + 1]
<1>1. h \in BOOLEAN
    OBVIOUS
<1>2. g \in [Ids -> Nat]
    <2>1. e.fired \in [Ids -> Nat]
        BY DEF Typed, Engines
    <2>2. \A j \in Ids : g[j] \in Nat
        BY <2>1
    <2> QED BY <2>1, <2>2
<1>3. FireCycle(e, loud) = [e EXCEPT !.horn = h, !.fired = g]
    BY DEF FireCycle
<1> HIDE DEF h, g
<1> QED BY <1>1, <1>2, <1>3 DEF Typed, Engines

\* Updates of a row of the incident table keep its shape.
LEMMA RowUpdateTyped ==
    ASSUME NEW d \in Seq(IncidentRows), NEW i \in 1..Len(d)
    PROVE  /\ [d EXCEPT ![i].open = FALSE] \in Seq(IncidentRows)
           /\ Len([d EXCEPT ![i].open = FALSE]) = Len(d)
           /\ [d EXCEPT ![i].silenced = TRUE] \in Seq(IncidentRows)
           /\ Len([d EXCEPT ![i].silenced = TRUE]) = Len(d)
           /\ [d EXCEPT ![i].cycles = @ + 1] \in Seq(IncidentRows)
           /\ Len([d EXCEPT ![i].cycles = @ + 1]) = Len(d)
           /\ [d EXCEPT ![i].refires = @ + 1] \in Seq(IncidentRows)
           /\ Len([d EXCEPT ![i].refires = @ + 1]) = Len(d)
<1>1. d[i] \in IncidentRows
    OBVIOUS
<1>2. /\ [d[i] EXCEPT !.open = FALSE] \in IncidentRows
      /\ [d[i] EXCEPT !.silenced = TRUE] \in IncidentRows
      /\ [d[i] EXCEPT !.cycles = @ + 1] \in IncidentRows
      /\ [d[i] EXCEPT !.refires = @ + 1] \in IncidentRows
    <2>1. ASSUME NEW r \in IncidentRows
          PROVE  /\ [r EXCEPT !.open = FALSE] \in IncidentRows
                 /\ [r EXCEPT !.silenced = TRUE] \in IncidentRows
                 /\ [r EXCEPT !.cycles = @ + 1] \in IncidentRows
                 /\ [r EXCEPT !.refires = @ + 1] \in IncidentRows
        <3>1. [r EXCEPT !.open = FALSE] \in IncidentRows
            BY DEF IncidentRows
        <3>2. [r EXCEPT !.silenced = TRUE] \in IncidentRows
            BY DEF IncidentRows
        <3>3. [r EXCEPT !.cycles = @ + 1] \in IncidentRows
            BY DEF IncidentRows
        <3>4. [r EXCEPT !.refires = @ + 1] \in IncidentRows
            <4> DEFINE n == r.refires + 1
            <4>1. n \in Nat
                BY DEF IncidentRows
            <4> HIDE DEF n
            <4>2. [r EXCEPT !.refires = n] \in IncidentRows
                BY <4>1 DEF IncidentRows
            <4> QED BY <4>2 DEF n
        <3> QED BY <3>1, <3>2, <3>3, <3>4
    <2> QED BY <1>1, <2>1, Zenon
<1>3. ASSUME NEW r \in IncidentRows
      PROVE  [d EXCEPT ![i] = r] \in Seq(IncidentRows) /\ Len([d EXCEPT ![i] = r]) = Len(d)
    BY ExceptSeq
<1>4. /\ [d EXCEPT ![i].open = FALSE] = [d EXCEPT ![i] = [d[i] EXCEPT !.open = FALSE]]
      /\ [d EXCEPT ![i].silenced = TRUE] = [d EXCEPT ![i] = [d[i] EXCEPT !.silenced = TRUE]]
      /\ [d EXCEPT ![i].cycles = @ + 1] = [d EXCEPT ![i] = [d[i] EXCEPT !.cycles = @ + 1]]
      /\ [d EXCEPT ![i].refires = @ + 1] = [d EXCEPT ![i] = [d[i] EXCEPT !.refires = @ + 1]]
    OBVIOUS
<1> QED BY <1>2, <1>3, <1>4, Zenon

LEMMA OpenIncidentTyped ==
    ASSUME NEW e, Typed(e), NEW cause \in Sensors \cup {None}, NEW f
    PROVE  Typed(OpenIncident(e, cause, f))
<1> DEFINE id == IF "inc" \in f THEN 0 ELSE Len(e.db) + 1
           inc == [id |-> id, cause |-> cause, silenced |-> FALSE, cycles |-> 0, refires |-> 0]
           new == [open |-> TRUE, cause |-> cause, silenced |-> FALSE, cycles |-> 0,
                   refires |-> 0]
           z == [e.z EXCEPT !.incident = inc]
           d == IF id = 0 THEN e.db ELSE Append(e.db, new)
           g == [e.fired EXCEPT ![id] = 0]
<1>1. id \in Nat /\ inc \in Incidents /\ inc.id = id
    BY DEF Typed, Engines, Incidents
<1>2. z \in Zones /\ z.incident = inc
    <2> HIDE DEF inc
    <2> QED BY <1>1 DEF Typed, Engines, Zones
<1>3. d \in Seq(IncidentRows) /\ id <= Len(d)
    <2>1. e.db \in Seq(IncidentRows) /\ new \in IncidentRows
        BY DEF Typed, Engines, IncidentRows
    <2> HIDE DEF new
    <2> QED BY <2>1
<1>4. g \in [Ids -> Nat]
    <2>1. e.fired \in [Ids -> Nat]
        BY DEF Typed, Engines
    <2> QED BY <2>1
<1>5. OpenIncident(e, cause, f) = [e EXCEPT !.z = z, !.db = d, !.fired = g]
    BY DEF OpenIncident, Typed, Engines
<1> HIDE DEF z, d, g, inc, id
<1> QED BY <1>1, <1>2, <1>3, <1>4, <1>5 DEF Typed, Engines

\* An incident with a row names it.
LEMMA IncidentIndex ==
    ASSUME NEW e, Typed(e), e.z.incident # None
    PROVE  /\ e.z.incident \in Incidents
           /\ e.z.incident.id # 0 => e.z.incident.id \in 1..Len(e.db)
BY DEF Typed, Engines, Zones, Incidents

LEMMA CloseIncidentTyped ==
    ASSUME NEW e, Typed(e), NEW f
    PROVE  Typed(CloseIncident(e, f))
<1>1. CASE e.z.incident = None
    BY <1>1 DEF CloseIncident
<1>2. CASE e.z.incident # None
    <2> DEFINE z == [e.z EXCEPT !.incident = None, !.silencedID = 0]
               d == IF e.z.incident.id = 0 \/ "close" \in f THEN e.db
                    ELSE [e.db EXCEPT ![e.z.incident.id].open = FALSE]
    <2>1. z \in Zones /\ z.incident = None
        BY DEF Typed, Engines, Zones
    <2>2. d \in Seq(IncidentRows) /\ Len(d) = Len(e.db)
        BY <1>2, IncidentIndex, RowUpdateTyped DEF Typed, Engines
    <2>3. CloseIncident(e, f) = [e EXCEPT !.z = z, !.db = d]
        BY <1>2 DEF CloseIncident
    <2> HIDE DEF z, d
    <2> QED BY <2>1, <2>2, <2>3 DEF Typed, Engines
<1> QED BY <1>1, <1>2

-----------------------------------------------------------------------------
\* The control invariant, on the engine record.

\* IncidentIffTriggered and TimerDiscipline of a zone.
Linked(z) == z.state = "triggered" <=> z.incident # None

Clocked(z) ==
    /\ z.state = "arming" <=> z.timer = "exit_delay"
    /\ z.state = "pending" <=> z.timer = "entry_delay"
    /\ z.state = "triggered" <=> z.timer \in {"trigger_time", "pre_alarm"}
    /\ z.timer = "pre_alarm" => z.preAlarm

\* What makes them inductive over a restart: the stored row of a zone that is
\* not triggered names no incident, so restoreZone finds none.
Unlinked(r) == r.state # "triggered" => r.incident = 0

\* Between the steps of a handler, and at its end.
Stored(e) == Typed(e) /\ Unlinked(e.row)

Sane(e) == Stored(e) /\ Linked(e.z)

LEMMA WithStored ==
    ASSUME NEW e, Stored(e), NEW z \in Zones, z.incident = e.z.incident
    PROVE  Stored(With(e, z)) /\ With(e, z).z = z /\ With(e, z).cfg = e.cfg
           /\ With(e, z).row = e.row
BY WithTyped DEF Stored

LEMMA PersistSane ==
    ASSUME NEW e, Sane(e), NEW f
    PROVE  Sane(Persist(e, f)) /\ Persist(e, f).z = e.z /\ Persist(e, f).cfg = e.cfg
<1>1. Typed(Persist(e, f)) /\ Persist(e, f).z = e.z /\ Persist(e, f).cfg = e.cfg
    BY PersistTyped DEF Sane, Stored
<1>2. Unlinked(Persist(e, f).row)
    <2>1. CASE "row" \in f
        BY <2>1 DEF Persist, Sane, Stored
    <2>2. CASE "row" \notin f
        <3>1. Persist(e, f).row = RowOf(e.z)
            BY <2>2 DEF Persist, Sane, Stored, Typed, Engines
        <3>2. Unlinked(RowOf(e.z))
            BY DEF Unlinked, RowOf, Sane, Linked
        <3> QED BY <3>1, <3>2
    <2> QED BY <2>1, <2>2
<1> QED BY <1>1, <1>2 DEF Sane, Stored

LEMMA StopAllStored ==
    ASSUME NEW e, Stored(e)
    PROVE  Stored(StopAll(e)) /\ StopAll(e).z = e.z /\ StopAll(e).cfg = e.cfg
BY StopAllTyped DEF Stored, StopAll, Typed, Engines

LEMMA FireCycleSane ==
    ASSUME NEW e, Sane(e), NEW loud \in BOOLEAN
    PROVE  Sane(FireCycle(e, loud)) /\ FireCycle(e, loud).z = e.z
<1>1. Typed(FireCycle(e, loud)) /\ FireCycle(e, loud).z = e.z
    BY FireCycleTyped DEF Sane, Stored
<1>2. FireCycle(e, loud).row = e.row
    BY DEF FireCycle, Sane, Stored, Typed, Engines
<1> QED BY <1>1, <1>2 DEF Sane, Stored

LEMMA OpenIncidentStored ==
    ASSUME NEW e, Stored(e), NEW cause \in Sensors \cup {None}, NEW f
    PROVE  LET o == OpenIncident(e, cause, f)
           IN /\ Stored(o)
              /\ o.z.incident # None
              /\ o.cfg = e.cfg
<1> DEFINE o == OpenIncident(e, cause, f)
<1>1. Typed(o)
    BY OpenIncidentTyped DEF Stored
<1>2. o.row = e.row /\ o.cfg = e.cfg
    BY DEF OpenIncident, Stored, Typed, Engines
<1>3. o.z.incident # None
    <2>1. o.z.incident = [id |-> IF "inc" \in f THEN 0 ELSE Len(e.db) + 1, cause |-> cause,
                          silenced |-> FALSE, cycles |-> 0, refires |-> 0]
        BY DEF OpenIncident, Stored, Typed, Engines, Zones
    <2>2. Len(e.db) \in Nat
        BY DEF Stored, Typed, Engines
    <2>3. o.z.incident \in Incidents
        BY <2>1, <2>2 DEF Incidents
    <2> QED BY <2>3, NoneAssumption
<1> QED BY <1>1, <1>2, <1>3 DEF Stored

LEMMA CloseIncidentStored ==
    ASSUME NEW e, Stored(e), NEW f
    PROVE  LET c == CloseIncident(e, f)
           IN /\ Stored(c)
              /\ c.z.incident = None
              /\ c.cfg = e.cfg
              /\ c.z \in {e.z, [e.z EXCEPT !.incident = None, !.silencedID = 0]}
<1>1. Typed(CloseIncident(e, f))
    BY CloseIncidentTyped DEF Stored
<1>2. CloseIncident(e, f).row = e.row /\ CloseIncident(e, f).cfg = e.cfg
    BY DEF CloseIncident, Stored, Typed, Engines
<1>3. CASE e.z.incident = None
    BY <1>1, <1>2, <1>3 DEF CloseIncident, Stored
<1>4. CASE e.z.incident # None
    <2>1. CloseIncident(e, f).z = [e.z EXCEPT !.incident = None, !.silencedID = 0]
        BY <1>4 DEF CloseIncident, Stored, Typed, Engines
    <2> QED BY <2>1, <1>1, <1>2 DEF Stored, Typed, Engines, Zones
<1> QED BY <1>3, <1>4

\* The zone helpers of zone.go.
LEMMA CancelTimersZone ==
    ASSUME NEW z \in Zones
    PROVE  /\ CancelTimers(z) \in Zones
           /\ CancelTimers(z).state = z.state /\ CancelTimers(z).incident = z.incident
           /\ CancelTimers(z).timer = "none"
BY DEF CancelTimers, Zones, TimerKinds

LEMMA ResetToDisarmedZone ==
    ASSUME NEW z \in Zones
    PROVE  /\ ResetToDisarmed(z) \in Zones
           /\ ResetToDisarmed(z).state = "disarmed"
           /\ ResetToDisarmed(z).incident = z.incident
           /\ ResetToDisarmed(z).timer = z.timer
<1> DEFINE z1 == [z EXCEPT !.state = "disarmed", !.mode = Off, !.bypassed = {}, !.openAtArm = {}]
<1>1. /\ z1 \in Zones /\ z1.state = "disarmed" /\ z1.incident = z.incident
      /\ z1.timer = z.timer
    BY DEF Zones, States
<1>2. ResetToDisarmed(z) = [z1 EXCEPT !.pendingCause = None, !.preState = None,
                                      !.preMode = None, !.preAlarm = FALSE]
    BY DEF ResetToDisarmed, Zones
<1> HIDE DEF z1
<1> QED BY <1>1, <1>2 DEF Zones

\* silenceIncident marks the incident and stops the outputs; it stays open.
LEMMA SilenceIncidentStored ==
    ASSUME NEW e, Stored(e), e.z.incident # None, NEW f
    PROVE  LET c == SilenceIncident(e, f)
           IN /\ Stored(c)
              /\ c.z.incident # None
              /\ c.cfg = e.cfg
              /\ c.z.state = e.z.state /\ c.z.timer = e.z.timer /\ c.z.preAlarm = e.z.preAlarm
<1>1. CASE e.z.incident.silenced
    BY <1>1, StopAllStored DEF SilenceIncident
<1>2. CASE ~e.z.incident.silenced
    <2> DEFINE inc == e.z.incident
               z == [e.z EXCEPT !.incident.silenced = TRUE, !.silencedID = inc.id]
               d == IF inc.id = 0 \/ "inc" \in f THEN e.db
                    ELSE [e.db EXCEPT ![inc.id].silenced = TRUE]
               c == [e EXCEPT !.z = z, !.db = d]
    <2>1. inc \in Incidents /\ (inc.id # 0 => inc.id \in 1..Len(e.db)) /\ inc.id <= Len(e.db)
        BY IncidentIndex DEF Stored, Typed
    <2>2. d \in Seq(IncidentRows) /\ Len(d) = Len(e.db)
        BY <2>1, RowUpdateTyped DEF Stored, Typed, Engines
    <2>3. [inc EXCEPT !.silenced = TRUE] \in Incidents /\ [inc EXCEPT !.silenced = TRUE].id = inc.id
        <3> HIDE DEF inc
        <3> QED BY <2>1 DEF Incidents
    <2>4. /\ z \in Zones /\ z.incident = [inc EXCEPT !.silenced = TRUE]
          /\ z.state = e.z.state /\ z.timer = e.z.timer /\ z.preAlarm = e.z.preAlarm
        <3> DEFINE i2 == [inc EXCEPT !.silenced = TRUE]
        <3>1. z = [e.z EXCEPT !.incident = i2, !.silencedID = inc.id]
            BY DEF Stored, Typed, Engines, Zones
        <3>2. i2 \in Incidents /\ inc.id \in Nat
            BY <2>1, <2>3 DEF Incidents
        <3> HIDE DEF i2, z, inc
        <3> QED BY <3>1, <3>2 DEF Stored, Typed, Engines, Zones, i2
    <2>5. Stored(c) /\ c.z = z /\ c.cfg = e.cfg
        <3> HIDE DEF z, d, inc
        <3> QED BY <2>1, <2>2, <2>3, <2>4 DEF Stored, Typed, Engines
    <2>6. SilenceIncident(e, f) = StopAll(c)
        BY <1>2 DEF SilenceIncident
    <2>7. z.incident # None
        BY <2>3, <2>4, NoneAssumption
    <2> HIDE DEF c, z
    <2> QED BY <2>4, <2>5, <2>6, <2>7, StopAllStored
<1> QED BY <1>1, <1>2

\* refreshSensorValues and recaptureOpenBaseline touch neither state nor incident.
LEMMA RefreshStored ==
    ASSUME NEW e, Stored(e), NEW r, NEW w
    PROVE  LET c == RefreshSensorValues(e, r, w)
           IN Stored(c) /\ c.z = e.z /\ c.cfg = e.cfg /\ c.row = e.row
<1> DEFINE v == [s \in Sensors |-> IF s \in e.cfg.sensors THEN Observed(w[s]) ELSE e.view[s]]
<1>1. v \in Views
    BY DEF Views, Observed, Stored, Typed, Engines
<1>2. RefreshSensorValues(e, r, w) \in {e, [e EXCEPT !.view = v]}
    BY DEF RefreshSensorValues
<1> HIDE DEF v
<1> QED BY <1>1, <1>2 DEF Stored, Typed, Engines

LEMMA RecaptureStored ==
    ASSUME NEW e, Stored(e)
    PROVE  LET c == RecaptureOpenBaseline(e)
           IN /\ Stored(c)
              /\ c.z.state = e.z.state /\ c.z.timer = e.z.timer
              /\ c.z.incident = e.z.incident /\ c.z.preAlarm = e.z.preAlarm
              /\ c.cfg = e.cfg
<1> DEFINE B == {s \in e.cfg.sensors : /\ InMode(s, e.z.mode)
                                       /\ s \notin e.z.bypassed
                                       /\ e.view[s] = "active"}
           z == [e.z EXCEPT !.openAtArm = B]
<1>1. B \in SUBSET Sensors
    BY DEF Stored, Typed, Engines, Configs
<1> HIDE DEF B
<1>2. /\ z \in Zones
      /\ z.state = e.z.state /\ z.timer = e.z.timer
      /\ z.incident = e.z.incident /\ z.preAlarm = e.z.preAlarm
    BY <1>1 DEF Stored, Typed, Engines, Zones
<1>3. RecaptureOpenBaseline(e) = With(e, z)
    BY DEF RecaptureOpenBaseline, B
<1> HIDE DEF z
<1> QED BY <1>2, <1>3, WithStored

LEMMA CompleteArmSane ==
    ASSUME NEW e, Stored(e), e.z.incident = None, NEW f
    PROVE  LET c == CompleteArm(e, f)
           IN Sane(c) /\ Clocked(c.z) /\ c.z.state = "armed" /\ c.cfg = e.cfg
<1> DEFINE z == [CancelTimers(e.z) EXCEPT !.state = "armed"]
<1>1. z \in Zones /\ z.incident = None /\ z.state = "armed" /\ z.timer = "none"
    <2>1. e.z \in Zones
        BY DEF Stored, Typed, Engines
    <2> DEFINE c == CancelTimers(e.z)
    <2>2. c \in Zones /\ c.incident = None /\ c.timer = "none"
        BY <2>1, CancelTimersZone
    <2> HIDE DEF c
    <2>3. [c EXCEPT !.state = "armed"] = z
        BY DEF c
    <2> QED BY <2>2, <2>3 DEF Zones, States
<1> HIDE DEF z
<1>2. Stored(With(e, z)) /\ With(e, z).z = z /\ With(e, z).cfg = e.cfg
    BY <1>1, WithStored
<1> DEFINE b == RecaptureOpenBaseline(With(e, z))
<1>3. /\ Stored(b) /\ b.z.state = "armed" /\ b.z.timer = "none"
      /\ b.z.incident = None /\ b.cfg = e.cfg
    BY <1>1, <1>2, RecaptureStored
<1>4. Sane(b) /\ Clocked(b.z)
    BY <1>3 DEF Sane, Linked, Clocked
<1>5. CompleteArm(e, f) = Persist(b, f)
    BY DEF CompleteArm, z
<1> HIDE DEF b
<1> QED BY <1>3, <1>4, <1>5, PersistSane

LEMMA DisarmLockedSane ==
    ASSUME NEW e, Sane(e), NEW f
    PROVE  LET c == DisarmLocked(e, f)
           IN Sane(c) /\ Clocked(c.z) /\ c.z.state = "disarmed" /\ c.cfg = e.cfg
<1> DEFINE z == CancelAutoRearm(CancelTimers(e.z))
           e1 == With(e, z)
           e2 == IF e1.z.incident = None THEN e1
                 ELSE CloseIncident(SilenceIncident(e1, f), f)
           z3 == ResetToDisarmed(e2.z)
           e3 == With(e2, z3)
<1>1. z \in Zones /\ z.incident = e.z.incident /\ z.timer = "none"
    BY DEF Sane, Stored, Typed, Engines, Zones, CancelTimers, CancelAutoRearm, TimerKinds
<1>2. Stored(e1) /\ e1.cfg = e.cfg /\ e1.z = z
    BY <1>1, WithStored DEF Sane
<1> HIDE DEF z, e1
<1>3. Stored(e2) /\ e2.z.incident = None /\ e2.cfg = e.cfg /\ e2.z.timer = "none"
    <2>1. CASE e1.z.incident = None
        BY <2>1, <1>1, <1>2
    <2>2. CASE e1.z.incident # None
        <3> DEFINE s == SilenceIncident(e1, f)
        <3>1. Stored(s) /\ s.cfg = e.cfg /\ s.z.timer = "none"
            BY <2>2, <1>1, <1>2, SilenceIncidentStored
        <3>2. e2 = CloseIncident(s, f)
            BY <2>2
        <3> HIDE DEF s, e2
        <3>3. /\ Stored(e2) /\ e2.z.incident = None /\ e2.cfg = s.cfg
              /\ e2.z \in {s.z, [s.z EXCEPT !.incident = None, !.silencedID = 0]}
            BY <3>1, <3>2, CloseIncidentStored
        <3> QED BY <3>1, <3>3 DEF Stored, Typed, Engines, Zones
    <2> QED BY <2>1, <2>2
<1> HIDE DEF e2
<1>4. z3 \in Zones /\ z3.incident = None /\ z3.timer = "none" /\ z3.state = "disarmed"
    BY <1>3, ResetToDisarmedZone DEF Stored, Typed, Engines
<1> HIDE DEF z3
<1>5. Sane(e3) /\ e3.cfg = e.cfg /\ e3.z = z3
    BY <1>3, <1>4, WithStored DEF Sane, Linked
<1> HIDE DEF e3
<1>6. DisarmLocked(e, f) = Persist(e3, f)
    BY DEF DisarmLocked, z, e1, e2, z3, e3
<1>7. Clocked(z3)
    BY <1>4 DEF Clocked
<1> QED BY <1>4, <1>5, <1>6, <1>7, PersistSane

-----------------------------------------------------------------------------
\* The handlers.  Each takes a sane engine to a sane one, and leaves the timer
\* the state calls for if it found it so.

LEMMA BeginArmSane ==
    ASSUME NEW e, Sane(e), e.z.state # "triggered", NEW m \in Modes, NEW bypass,
           NEW force, NEW skip, NEW r, NEW w, NEW tr, NEW f
    PROVE  LET c == BeginArm(e, m, bypass, force, skip, r, w, tr, f)
           IN Sane(c) /\ (Clocked(e.z) => Clocked(c.z))
<1> DEFINE z1 == [CancelAutoRearm(e.z) EXCEPT !.walk = FALSE]
           e1 == RefreshSensorValues(With(e, z1), r, w)
           blocking == Blocking(e1, tr, m)
           excluded == (bypass \cap e.cfg.sensors) \cup AutoBypass(blocking)
           remaining == blocking \ excluded
           bp == excluded \cup remaining
           z2 == [CancelTimers(e1.z) EXCEPT !.bypassed = bp, !.mode = m, !.pendingCause = None,
                                            !.openAtArm = {}]
           z3 == [z2 EXCEPT !.state = "arming", !.timer = "exit_delay"]
<1>1. /\ z1 \in Zones /\ z1.incident = e.z.incident /\ z1.state = e.z.state
      /\ z1.timer = e.z.timer /\ z1.preAlarm = e.z.preAlarm
    BY DEF Sane, Stored, Typed, Engines, Zones, CancelAutoRearm
<1> HIDE DEF z1
<1>2. Stored(e1) /\ e1.z = z1 /\ e1.cfg = e.cfg
    BY <1>1, WithStored, RefreshStored DEF Sane
<1>3. Sane(e1) /\ e1.z.incident = None /\ (Clocked(e.z) => Clocked(e1.z))
    BY <1>1, <1>2 DEF Sane, Linked, Clocked
<1>4. bp \in SUBSET Sensors
    BY <1>2 DEF Sane, Stored, Typed, Engines, Configs, Blocking, AutoBypass
<1> HIDE DEF e1, bp
<1>5. z2 \in Zones /\ z2.incident = None
    <2> DEFINE y == CancelTimers(e1.z)
    <2>1. y \in Zones /\ y.incident = None
        BY <1>1, <1>2, <1>3, CancelTimersZone
    <2> HIDE DEF y
    <2>2. z2 = [y EXCEPT !.bypassed = bp, !.mode = m, !.pendingCause = None, !.openAtArm = {}]
        BY DEF y
    <2> HIDE DEF z2
    <2> QED BY <2>1, <2>2, <1>4 DEF Zones
<1> HIDE DEF z2
<1>6. z3 \in Zones /\ z3.incident = None /\ z3.state = "arming" /\ z3.timer = "exit_delay"
    BY <1>5 DEF Zones, States, TimerKinds
<1> HIDE DEF z3
<1>7. Sane(With(e1, z3)) /\ With(e1, z3).z = z3
    BY <1>2, <1>3, <1>6, WithStored DEF Sane, Linked
<1>8. Clocked(z3)
    BY <1>6 DEF Clocked
<1>9. /\ Sane(Persist(With(e1, z3), f))
      /\ Clocked(Persist(With(e1, z3), f).z)
    BY <1>7, <1>8, PersistSane
<1>10. Stored(With(e1, z2)) /\ With(e1, z2).z.incident = None
    BY <1>2, <1>3, <1>5, WithStored
<1>11. /\ Sane(CompleteArm(With(e1, z2), f))
       /\ Clocked(CompleteArm(With(e1, z2), f).z)
    BY <1>10, CompleteArmSane
<1>12. BeginArm(e, m, bypass, force, skip, r, w, tr, f) \in
          {e1, Persist(With(e1, z3), f), CompleteArm(With(e1, z2), f)}
    BY DEF BeginArm, z1, e1, z2, z3, bp
<1> QED BY <1>3, <1>9, <1>11, <1>12

LEMMA OnAutoRearmElapsedSane ==
    ASSUME NEW e, Sane(e), NEW r, NEW w, NEW tr, NEW f
    PROVE  LET c == OnAutoRearmElapsed(e, r, w, tr, f)
           IN Sane(c) /\ (Clocked(e.z) => Clocked(c.z))
<1> DEFINE z1 == [e.z EXCEPT !.rearm = FALSE, !.rearmMode = None]
           e1 == With(e, z1)
           m == e.z.rearmMode
           b == BeginArm(e1, m, {}, FALSE, FALSE, r, w, tr, f)
<1>1. /\ z1 \in Zones /\ z1.incident = e.z.incident /\ z1.state = e.z.state
      /\ z1.timer = e.z.timer /\ z1.preAlarm = e.z.preAlarm
    BY DEF Sane, Stored, Typed, Engines, Zones
<1> HIDE DEF z1
<1>2. Sane(e1) /\ e1.z = z1 /\ e1.cfg = e.cfg
    BY <1>1, WithStored DEF Sane, Linked
<1>3. Clocked(e.z) => Clocked(e1.z)
    BY <1>1, <1>2 DEF Clocked
<1> HIDE DEF e1
<1>4. CASE e.z.state # "disarmed" \/ m \notin e.cfg.modes
    <2>1. OnAutoRearmElapsed(e, r, w, tr, f) = Persist(e1, f)
        BY <1>4 DEF OnAutoRearmElapsed, e1, z1
    <2> QED BY <2>1, <1>2, <1>3, PersistSane
<1>5. CASE ~(e.z.state # "disarmed" \/ m \notin e.cfg.modes)
    <2>1. m \in Modes
        BY <1>5 DEF Sane, Stored, Typed, Engines, Configs
    <2>2. e1.z.state # "triggered"
        BY <1>1, <1>2, <1>5
    <2> HIDE DEF m
    <2>3. Sane(b) /\ (Clocked(e1.z) => Clocked(b.z))
        BY <1>2, <2>1, <2>2, BeginArmSane
    <2>4. OnAutoRearmElapsed(e, r, w, tr, f) = Persist(b, f)
        BY <1>5 DEF OnAutoRearmElapsed, e1, z1, m
    <2> HIDE DEF b
    <2> QED BY <1>3, <2>3, <2>4, PersistSane
<1> QED BY <1>4, <1>5

\* trigger opens the incident before it enters triggered.
LEMMA TriggerSane ==
    ASSUME NEW e, Sane(e), NEW cause \in Sensors \cup {None}, NEW restored \in BOOLEAN, NEW f
    PROVE  LET c == Trigger(e, cause, restored, f)
           IN Sane(c) /\ (e.z.state = "triggered" => c = e)
              /\ (e.z.state # "triggered" => Clocked(c.z))
<1>1. CASE e.z.state = "triggered"
    BY <1>1 DEF Trigger
<1>2. CASE e.z.state # "triggered"
    <2> DEFINE e1 == OpenIncident(e, cause, f)
               pre == ~restored /\ e.z.mode \in ZoneConfig.preAlarm \cap e.cfg.modes
               t == IF pre THEN "pre_alarm" ELSE "trigger_time"
               z2 == [e1.z EXCEPT !.state = "triggered", !.pendingCause = None,
                                  !.preAlarm = pre, !.timer = t]
               e2 == With(e1, z2)
    <2>1. e.z.incident = None
        BY <1>2 DEF Sane, Linked
    <2>2. Stored(e1) /\ e1.z.incident # None
        BY OpenIncidentStored DEF Sane
    <2>3. /\ pre \in BOOLEAN /\ t \in TimerKinds /\ t \in {"pre_alarm", "trigger_time"}
          /\ t = "pre_alarm" => pre
        BY DEF TimerKinds
    <2> HIDE DEF e1, pre, t
    <2>4. /\ z2 \in Zones /\ z2.incident = e1.z.incident /\ z2.state = "triggered"
          /\ z2.timer = t /\ z2.preAlarm = pre
        BY <2>2, <2>3 DEF Stored, Typed, Engines, Zones, States
    <2> HIDE DEF z2
    <2>5. Sane(e2) /\ e2.z = z2
        BY <2>2, <2>4, WithStored DEF Sane, Linked
    <2>6. Clocked(z2)
        BY <2>3, <2>4 DEF Clocked
    <2> HIDE DEF e2
    <2>7. Trigger(e, cause, restored, f) = FireCycle(Persist(e2, f), TRUE)
        BY <1>2, <2>1 DEF Trigger, e1, pre, t, z2, e2
    <2>8. Sane(Persist(e2, f)) /\ Persist(e2, f).z = z2
        BY <2>5, PersistSane
    <2>9. Sane(FireCycle(Persist(e2, f), TRUE)) /\ FireCycle(Persist(e2, f), TRUE).z = z2
        BY <2>8, FireCycleSane
    <2> QED BY <1>2, <2>6, <2>7, <2>9
<1> QED BY <1>1, <1>2

\* What every handler keeps.
Keeps(e, c) == Sane(c) /\ (Clocked(e.z) => Clocked(c.z))

LEMMA RouteActivationSane ==
    ASSUME NEW e, Sane(e), e.z.state # "triggered", NEW s \in Sensors, NEW f
    PROVE  Sane(RouteActivation(e, s, f)) /\ Clocked(RouteActivation(e, s, f).z)
<1> DEFINE z == [e.z EXCEPT !.state = "pending", !.pendingCause = s, !.timer = "entry_delay"]
<1>1. /\ z \in Zones /\ z.incident = None /\ z.state = "pending"
      /\ z.timer = "entry_delay"
    BY DEF Sane, Linked, Stored, Typed, Engines, Zones, States, TimerKinds
<1>2. e.z.incident = None
    BY DEF Sane, Linked
<1> HIDE DEF z
<1>3. Sane(With(e, z)) /\ With(e, z).z = z /\ Clocked(z)
    BY <1>1, <1>2, WithStored DEF Sane, Linked, Clocked
<1>4. Sane(Persist(With(e, z), f)) /\ Clocked(Persist(With(e, z), f).z)
    BY <1>3, PersistSane
<1>5. Sane(Trigger(e, s, FALSE, f)) /\ Clocked(Trigger(e, s, FALSE, f).z)
    BY TriggerSane
<1>6. RouteActivation(e, s, f) \in {Persist(With(e, z), f), Trigger(e, s, FALSE, f)}
    BY DEF RouteActivation, z
<1> QED BY <1>4, <1>5, <1>6

LEMMA DispatchSane ==
    ASSUME NEW e, Sane(e), NEW s \in Sensors, NEW f
    PROVE  Keeps(e, DispatchSensorActivation(e, s, f))
<1>1. CASE e.z.state = "armed"
    <2>1. DispatchSensorActivation(e, s, f) = RouteActivation(e, s, f)
        BY <1>1 DEF DispatchSensorActivation
    <2>2. Sane(RouteActivation(e, s, f)) /\ Clocked(RouteActivation(e, s, f).z)
        BY <1>1, RouteActivationSane
    <2> QED BY <2>1, <2>2 DEF Keeps
<1>2. CASE e.z.state # "armed"
    <2>1. DispatchSensorActivation(e, s, f) \in {e, Trigger(e, s, FALSE, f)}
        BY <1>2 DEF DispatchSensorActivation
    <2>2. /\ Sane(Trigger(e, s, FALSE, f))
          /\ e.z.state = "triggered" => Trigger(e, s, FALSE, f) = e
          /\ e.z.state # "triggered" => Clocked(Trigger(e, s, FALSE, f).z)
        BY TriggerSane
    <2> QED BY <2>1, <2>2 DEF Keeps
<1> QED BY <1>1, <1>2

LEMMA GateCrossZoneSane ==
    ASSUME NEW e, Sane(e), NEW s \in Sensors, NEW keep, NEW f
    PROVE  Keeps(e, GateCrossZone(e, s, keep, f))
<1>1. ASSUME NEW H \in SUBSET Sensors
      PROVE  Keeps(e, With(e, [e.z EXCEPT !.hits = H]))
    <2> DEFINE z == [e.z EXCEPT !.hits = H]
    <2>1. /\ z \in Zones /\ z.incident = e.z.incident /\ z.state = e.z.state
          /\ z.timer = e.z.timer /\ z.preAlarm = e.z.preAlarm
        BY DEF Sane, Stored, Typed, Engines, Zones
    <2> HIDE DEF z
    <2>2. Sane(With(e, z)) /\ With(e, z).z = z
        BY <2>1, WithStored DEF Sane, Linked
    <2>3. Clocked(e.z) => Clocked(z)
        BY <2>1 DEF Clocked
    <2>4. Keeps(e, With(e, z))
        BY <2>2, <2>3 DEF Keeps
    <2> QED BY <2>4 DEF z
<1> DEFINE e1 == With(e, [e.z EXCEPT !.hits = {}])
           e2 == With(e, [e.z EXCEPT !.hits = {s}])
<1>2. Keeps(e, e1) /\ Keeps(e, e2)
    BY <1>1
<1>3. GateCrossZone(e, s, keep, f) \in
          {DispatchSensorActivation(e, s, f), DispatchSensorActivation(e1, s, f), e2}
    BY DEF GateCrossZone
<1> HIDE DEF e1, e2
<1>4. Keeps(e, DispatchSensorActivation(e, s, f))
    BY DispatchSane
<1>5. Keeps(e1, DispatchSensorActivation(e1, s, f))
    BY <1>2, DispatchSane DEF Keeps
<1> QED BY <1>2, <1>3, <1>4, <1>5 DEF Keeps

\* The ends of an alarm close the incident and leave triggered.
LEMMA DisarmAfterTriggerSane ==
    ASSUME NEW e, Stored(e), e.z.incident = None, NEW f
    PROVE  Sane(DisarmAfterTrigger(e, f)) /\ Clocked(DisarmAfterTrigger(e, f).z)
<1> DEFINE z0 == CancelTimers(e.z)
           z1 == ResetToDisarmed(z0)
           z2 == IF ZoneConfig.autoRearm /\ e.z.mode \in e.cfg.modes
                 THEN ScheduleAutoRearm(z1, e.z.mode) ELSE z1
<1>1. e.z \in Zones /\ e.cfg \in Configs
    BY DEF Stored, Typed, Engines
<1>2. z0 \in Zones /\ z0.incident = None /\ z0.timer = "none"
    BY <1>1, CancelTimersZone
<1> HIDE DEF z0
<1>3. z1 \in Zones /\ z1.incident = None /\ z1.timer = "none" /\ z1.state = "disarmed"
    BY <1>2, ResetToDisarmedZone
<1> HIDE DEF z1
<1>4. z2 \in Zones /\ z2.incident = None /\ z2.timer = "none" /\ z2.state = "disarmed"
    <2>1. CASE ZoneConfig.autoRearm /\ e.z.mode \in e.cfg.modes
        <3>1. e.z.mode \in Modes
            BY <1>1, <2>1 DEF Configs
        <3>2. z2 = [z1 EXCEPT !.rearm = TRUE, !.rearmMode = e.z.mode]
            BY <2>1 DEF ScheduleAutoRearm
        <3> HIDE DEF z2
        <3> QED BY <1>3, <3>1, <3>2 DEF Zones
    <2>2. CASE ~(ZoneConfig.autoRearm /\ e.z.mode \in e.cfg.modes)
        BY <1>3, <2>2
    <2> QED BY <2>1, <2>2
<1> HIDE DEF z2
<1>5. Sane(With(e, z2)) /\ With(e, z2).z = z2 /\ Clocked(z2)
    BY <1>4, WithStored DEF Sane, Linked, Clocked
<1>6. DisarmAfterTrigger(e, f) = Persist(With(e, z2), f)
    BY DEF DisarmAfterTrigger, z2, z1, z0
<1> QED BY <1>5, <1>6, PersistSane

LEMMA FinishTriggeredSane ==
    ASSUME NEW e, Stored(e), NEW f
    PROVE  Sane(FinishTriggered(e, f)) /\ Clocked(FinishTriggered(e, f).z)
<1> DEFINE e1 == CloseIncident(StopAll(e), f)
<1>1. Stored(e1) /\ e1.z.incident = None
    BY StopAllStored, CloseIncidentStored
<1>2. FinishTriggered(e, f) \in {DisarmAfterTrigger(e1, f), CompleteArm(e1, f)}
    BY DEF FinishTriggered
<1> HIDE DEF e1
<1> QED BY <1>1, <1>2, DisarmAfterTriggerSane, CompleteArmSane

LEMMA ClearPreTriggerZone ==
    ASSUME NEW z \in Zones
    PROVE  LET y == [z EXCEPT !.preState = None, !.preMode = None]
           IN /\ y \in Zones
              /\ y.incident = z.incident /\ y.timer = z.timer /\ y.state = z.state
<1> DEFINE x == [z EXCEPT !.preState = None]
           y == [x EXCEPT !.preMode = None]
<1>1. x \in Zones /\ x.incident = z.incident /\ x.timer = z.timer /\ x.state = z.state
    BY DEF Zones
<1>2. y = [z EXCEPT !.preState = None, !.preMode = None]
    BY DEF Zones
<1> HIDE DEF x
<1>3. y \in Zones /\ y.incident = x.incident /\ y.timer = x.timer /\ y.state = x.state
    BY <1>1 DEF Zones
<1> HIDE DEF y
<1> QED BY <1>1, <1>2, <1>3

LEMMA FinishAlwaysOnSane ==
    ASSUME NEW e, Stored(e), NEW f
    PROVE  Sane(FinishAlwaysOn(e, f)) /\ Clocked(FinishAlwaysOn(e, f).z)
<1> DEFINE e1 == CloseIncident(StopAll(e), f)
           z1 == CancelTimers(e1.z)
           z2 == [z1 EXCEPT !.preState = None, !.preMode = None]
           z3 == [z2 EXCEPT !.state = "armed", !.mode = e.z.preMode]
           b == RecaptureOpenBaseline(With(e1, z3))
           z4 == ResetToDisarmed(z2)
<1>1. Stored(e1) /\ e1.z.incident = None
    BY StopAllStored, CloseIncidentStored
<1> HIDE DEF e1
<1>2. z1 \in Zones /\ z1.incident = None /\ z1.timer = "none"
    BY <1>1, CancelTimersZone DEF Stored, Typed, Engines
<1> HIDE DEF z1
<1>3. z2 \in Zones /\ z2.incident = None /\ z2.timer = "none"
    BY <1>2, ClearPreTriggerZone
<1> HIDE DEF z2
<1>4. CASE e.z.preMode \in Modes
    <2>1. z3 \in Zones /\ z3.incident = None /\ z3.timer = "none" /\ z3.state = "armed"
        BY <1>3, <1>4 DEF Zones, States
    <2> HIDE DEF z3
    <2>2. Stored(With(e1, z3)) /\ With(e1, z3).z = z3
        BY <1>1, <2>1, WithStored
    <2>3. Stored(b) /\ b.z.state = "armed" /\ b.z.timer = "none" /\ b.z.incident = None
        BY <2>1, <2>2, RecaptureStored
    <2>4. FinishAlwaysOn(e, f) = Persist(b, f)
        BY <1>4 DEF FinishAlwaysOn, e1, z1, z2, z3
    <2> HIDE DEF b
    <2>5. Sane(b) /\ Clocked(b.z)
        BY <2>3 DEF Sane, Linked, Clocked
    <2> QED BY <2>4, <2>5, PersistSane
<1>5. CASE e.z.preMode \notin Modes
    <2>1. z4 \in Zones /\ z4.incident = None /\ z4.timer = "none" /\ z4.state = "disarmed"
        BY <1>3, ResetToDisarmedZone
    <2>2. FinishAlwaysOn(e, f) = Persist(With(e1, z4), f)
        BY <1>5 DEF FinishAlwaysOn, e1, z1, z2
    <2> HIDE DEF z4
    <2>3. Sane(With(e1, z4)) /\ With(e1, z4).z = z4 /\ Clocked(z4)
        BY <1>1, <2>1, WithStored DEF Sane, Linked, Clocked
    <2> QED BY <2>2, <2>3, PersistSane
<1> QED BY <1>4, <1>5

LEMMA AlwaysOnFireSane ==
    ASSUME NEW e, Sane(e), NEW cause \in Sensors \cup {None}, NEW loud \in BOOLEAN, NEW f
    PROVE  Keeps(e, AlwaysOnFire(e, cause, loud, f))
<1>1. CASE e.z.state # "triggered"
    <2> DEFINE z1 == [e.z EXCEPT !.preState = e.z.state, !.preMode = e.z.mode]
               e0 == With(e, z1)
               e1 == OpenIncident(e0, cause, f)
               z2 == [e1.z EXCEPT !.state = "triggered", !.timer = "trigger_time"]
               e2 == With(e1, z2)
    <2>1. e.z.incident = None
        BY <1>1 DEF Sane, Linked
    <2>2. z1 \in Zones /\ z1.incident = e.z.incident
        BY DEF Sane, Stored, Typed, Engines, Zones
    <2> HIDE DEF z1
    <2>3. Stored(e0)
        BY <2>2, WithStored DEF Sane
    <2> HIDE DEF e0
    <2>4. Stored(e1) /\ e1.z.incident # None
        BY <2>3, OpenIncidentStored
    <2> HIDE DEF e1
    <2>5. /\ z2 \in Zones /\ z2.incident = e1.z.incident /\ z2.state = "triggered"
          /\ z2.timer = "trigger_time"
        BY <2>4 DEF Stored, Typed, Engines, Zones, States, TimerKinds
    <2> HIDE DEF z2
    <2>6. Sane(e2) /\ e2.z = z2 /\ Clocked(z2)
        BY <2>4, <2>5, WithStored DEF Sane, Linked, Clocked
    <2> HIDE DEF e2
    <2>7. Sane(Persist(e2, f)) /\ Persist(e2, f).z = z2
        BY <2>6, PersistSane
    <2>8. Sane(FireCycle(Persist(e2, f), loud)) /\ FireCycle(Persist(e2, f), loud).z = z2
        BY <2>7, FireCycleSane
    <2>9. AlwaysOnFire(e, cause, loud, f) = FireCycle(Persist(e2, f), loud)
        BY <1>1, <2>1 DEF AlwaysOnFire, z1, e0, e1, z2, e2
    <2> QED BY <2>6, <2>8, <2>9 DEF Keeps
<1>2. CASE e.z.state = "triggered"
    <2> DEFINE h == loud \/ e.horn
    <2>1. h \in BOOLEAN
        OBVIOUS
    <2>2. AlwaysOnFire(e, cause, loud, f) \in {e, [e EXCEPT !.horn = h]}
        BY <1>2 DEF AlwaysOnFire
    <2> HIDE DEF h
    <2>3. Sane([e EXCEPT !.horn = h]) /\ [e EXCEPT !.horn = h].z = e.z
        BY <2>1 DEF Sane, Stored, Typed, Engines
    <2> QED BY <2>2, <2>3 DEF Keeps
<1> QED BY <1>1, <1>2

\* A trigger time that starts, or starts again, on a triggered zone.
LEMMA TriggerTimeSane ==
    ASSUME NEW e, Sane(e), e.z.state = "triggered", NEW f
    PROVE  LET c == FireCycle(Persist(With(e, [e.z EXCEPT !.timer = "trigger_time"]), f), TRUE)
           IN Sane(c) /\ Clocked(c.z)
<1> DEFINE z == [e.z EXCEPT !.timer = "trigger_time"]
<1>1. /\ z \in Zones /\ z.incident = e.z.incident /\ z.state = "triggered"
      /\ z.timer = "trigger_time"
    BY DEF Sane, Stored, Typed, Engines, Zones, TimerKinds
<1> HIDE DEF z
<1>2. Sane(With(e, z)) /\ With(e, z).z = z /\ Clocked(z)
    BY <1>1, WithStored DEF Sane, Linked, Clocked
<1>3. Sane(Persist(With(e, z), f)) /\ Persist(With(e, z), f).z = z
    BY <1>2, PersistSane
<1>4. /\ Sane(FireCycle(Persist(With(e, z), f), TRUE))
      /\ FireCycle(Persist(With(e, z), f), TRUE).z = z
    BY <1>3, FireCycleSane
<1> QED BY <1>2, <1>4 DEF z

LEMMA OnPreAlarmElapsedSane ==
    ASSUME NEW e, Sane(e), e.z.state = "triggered", NEW f
    PROVE  Sane(OnPreAlarmElapsed(e, f)) /\ Clocked(OnPreAlarmElapsed(e, f).z)
<1> DEFINE z == [e.z EXCEPT !.preAlarm = FALSE]
           e1 == With(e, z)
           c == FireCycle(Persist(With(e1, [e1.z EXCEPT !.timer = "trigger_time"]), f), TRUE)
<1>1. z \in Zones /\ z.incident = e.z.incident /\ z.state = "triggered"
    BY DEF Sane, Stored, Typed, Engines, Zones
<1> HIDE DEF z
<1>2. Sane(e1) /\ e1.z.state = "triggered"
    BY <1>1, WithStored DEF Sane, Linked
<1> HIDE DEF e1
<1>3. Sane(c) /\ Clocked(c.z)
    BY <1>2, TriggerTimeSane
<1>4. Sane(FinishTriggered(e1, f)) /\ Clocked(FinishTriggered(e1, f).z)
    BY <1>2, FinishTriggeredSane DEF Sane
<1>5. OnPreAlarmElapsed(e, f) \in {c, FinishTriggered(e1, f)}
    BY DEF OnPreAlarmElapsed, e1, z
<1> HIDE DEF c
<1> QED BY <1>3, <1>4, <1>5

LEMMA RetriggerCycleSane ==
    ASSUME NEW e, Sane(e), e.z.state = "triggered", NEW f
    PROVE  Sane(RetriggerCycle(e, f)) /\ Clocked(RetriggerCycle(e, f).z)
<1> DEFINE inc == e.z.incident
           i2 == [inc EXCEPT !.cycles = @ + 1]
           z == [e.z EXCEPT !.incident = i2, !.timer = "trigger_time"]
           d == IF inc.id = 0 THEN e.db ELSE [e.db EXCEPT ![inc.id].cycles = @ + 1]
           c == [e EXCEPT !.z = z, !.db = d]
<1>1. /\ inc \in Incidents
      /\ inc.id # 0 => inc.id \in 1..Len(e.db)
      /\ inc.id <= Len(e.db)
    BY IncidentIndex DEF Sane, Linked, Stored, Typed
<1>2. d \in Seq(IncidentRows) /\ Len(d) = Len(e.db)
    BY <1>1, RowUpdateTyped DEF Sane, Stored, Typed, Engines
<1>3. i2 \in Incidents /\ i2.id = inc.id
    <2> HIDE DEF inc
    <2> QED BY <1>1 DEF Incidents
<1>4. i2 # None
    BY <1>3, NoneAssumption
<1> HIDE DEF i2
<1>5. z \in Zones /\ z.incident = i2 /\ z.state = "triggered" /\ z.timer = "trigger_time"
    BY <1>3 DEF Sane, Stored, Typed, Engines, Zones, TimerKinds
<1>6. [e.z EXCEPT !.incident.cycles = @ + 1, !.timer = "trigger_time"] = z
    BY DEF Sane, Stored, Typed, Engines, Zones, i2
<1>7. RetriggerCycle(e, f) = FireCycle(Persist(c, f), TRUE)
    <2> HIDE DEF z
    <2> QED BY <1>6 DEF RetriggerCycle
<1> HIDE DEF z, d, inc
<1>8. Stored(c) /\ c.z = z
    BY <1>1, <1>2, <1>3, <1>5 DEF Sane, Stored, Typed, Engines
<1> HIDE DEF c
<1>9. Sane(c) /\ Clocked(c.z)
    BY <1>4, <1>5, <1>8 DEF Sane, Linked, Clocked
<1>10. Sane(Persist(c, f)) /\ Persist(c, f).z = c.z
    BY <1>9, PersistSane
<1>11. Sane(FireCycle(Persist(c, f), TRUE)) /\ FireCycle(Persist(c, f), TRUE).z = c.z
    BY <1>10, FireCycleSane
<1> QED BY <1>7, <1>9, <1>11

LEMMA OnTriggerElapsedSane ==
    ASSUME NEW e, Sane(e), e.z.state = "triggered", NEW f
    PROVE  Sane(OnTriggerElapsed(e, f)) /\ Clocked(OnTriggerElapsed(e, f).z)
<1>1. OnTriggerElapsed(e, f) \in
        {FinishAlwaysOn(e, f), RetriggerCycle(e, f), FinishTriggered(e, f)}
    BY DEF OnTriggerElapsed
<1>2. Stored(e)
    BY DEF Sane
<1> QED BY <1>1, <1>2, FinishAlwaysOnSane, RetriggerCycleSane, FinishTriggeredSane

\* onStateTimerFired: under the timer discipline one of the four cases applies.
LEMMA OnStateTimerFiredSane ==
    ASSUME NEW e, Sane(e), e.z.timer # "none", NEW f
    PROVE  Keeps(e, OnStateTimerFired(e, f))
<1> DEFINE z == [e.z EXCEPT !.timer = "none"]
           e1 == With(e, z)
           c == OnStateTimerFired(e, f)
<1>1. z \in Zones /\ z.incident = e.z.incident /\ z.state = e.z.state
    BY DEF Sane, Stored, Typed, Engines, Zones, TimerKinds
<1> HIDE DEF z
<1>2. Sane(e1) /\ Stored(e1) /\ e1.z.state = e.z.state /\ e1.z.incident = e.z.incident
    BY <1>1, WithStored DEF Sane, Linked
<1>3. e.z.pendingCause \in Sensors \cup {None} /\ e.z.timer \in TimerKinds
    BY DEF Sane, Stored, Typed, Engines, Zones
<1> HIDE DEF e1
<1>4. CASE e.z.timer = "exit_delay" /\ e.z.state = "arming"
    <2>1. c = CompleteArm(e1, f)
        BY <1>4 DEF OnStateTimerFired, e1, z
    <2>2. e1.z.incident = None
        BY <1>2, <1>4 DEF Sane, Linked
    <2> QED BY <1>2, <2>1, <2>2, CompleteArmSane DEF Keeps
<1>5. CASE e.z.timer = "entry_delay" /\ e.z.state = "pending"
    <2>1. c = Trigger(e1, e.z.pendingCause, FALSE, f)
        BY <1>5 DEF OnStateTimerFired, e1, z
    <2>2. e1.z.state # "triggered"
        BY <1>2, <1>5
    <2> QED BY <1>2, <1>3, <2>1, <2>2, TriggerSane DEF Keeps
<1>6. CASE e.z.timer = "pre_alarm" /\ e.z.state = "triggered" /\ e.z.preAlarm
    <2>1. c = OnPreAlarmElapsed(e1, f)
        BY <1>6 DEF OnStateTimerFired, e1, z
    <2> QED BY <1>2, <1>6, <2>1, OnPreAlarmElapsedSane DEF Keeps
<1>7. CASE e.z.timer = "trigger_time" /\ e.z.state = "triggered"
    <2>1. c = OnTriggerElapsed(e1, f)
        BY <1>7 DEF OnStateTimerFired, e1, z
    <2> QED BY <1>2, <1>7, <2>1, OnTriggerElapsedSane DEF Keeps
<1>8. CASE /\ ~(e.z.timer = "exit_delay" /\ e.z.state = "arming")
           /\ ~(e.z.timer = "entry_delay" /\ e.z.state = "pending")
           /\ ~(e.z.timer = "pre_alarm" /\ e.z.state = "triggered" /\ e.z.preAlarm)
           /\ ~(e.z.timer = "trigger_time" /\ e.z.state = "triggered")
    <2>1. c = e1
        BY <1>8 DEF OnStateTimerFired, e1, z
    <2>2. ~Clocked(e.z)
        BY <1>3, <1>8 DEF Clocked, TimerKinds
    <2> QED BY <1>2, <2>1, <2>2 DEF Keeps
<1> QED BY <1>4, <1>5, <1>6, <1>7, <1>8

-----------------------------------------------------------------------------
\* Restore.

LEMMA ReEvaluateSane ==
    ASSUME NEW e, Sane(e), NEW r, NEW w, NEW f
    PROVE  Keeps(e, ReEvaluate(e, r, w, f))
<1>1. CASE ~r \/ e.z.state # "armed"
    BY <1>1 DEF ReEvaluate, Keeps
<1>2. CASE r /\ e.z.state = "armed"
    <2> DEFINE e1 == RefreshSensorValues(e, r, w)
               gone == {s \in e.z.openAtArm \cap e.cfg.sensors : ~w[s]}
               z == [e1.z EXCEPT !.openAtArm = @ \ gone]
               e2 == IF gone = {} THEN e1 ELSE Persist(With(e1, z), f)
               opened == {s \in e.cfg.sensors : /\ w[s]
                                                /\ InMode(s, e.z.mode)
                                                /\ s \notin e.z.bypassed \cup e.z.openAtArm}
    <2>1. Stored(e1) /\ e1.z = e.z
        BY RefreshStored DEF Sane
    <2>2. opened \in SUBSET Sensors
        BY DEF Sane, Stored, Typed, Engines, Configs
    <2>3. ReEvaluate(e, r, w, f) = IF opened = {} THEN e2
                                   ELSE RouteActivation(e2, FirstOf(opened), f)
        BY <1>2 DEF ReEvaluate
    <2> HIDE DEF e1, gone, opened
    <2>4. /\ z \in Zones /\ z.incident = e.z.incident /\ z.state = e.z.state
          /\ z.timer = e.z.timer /\ z.preAlarm = e.z.preAlarm
        BY <2>1 DEF Stored, Typed, Engines, Zones
    <2> HIDE DEF z
    <2>5. Sane(e1) /\ Sane(With(e1, z)) /\ With(e1, z).z = z
        BY <2>1, <2>4, WithStored DEF Sane, Linked
    <2>6. Sane(e2) /\ (e2.z = e.z \/ e2.z = z)
        BY <2>1, <2>5, PersistSane
    <2> HIDE DEF e2
    <2>7. e2.z.state = "armed" /\ (Clocked(e.z) => Clocked(e2.z))
        BY <1>2, <2>4, <2>6 DEF Clocked
    <2>8. CASE opened = {}
        BY <2>3, <2>6, <2>7, <2>8 DEF Keeps
    <2>9. CASE opened # {}
        <3>1. FirstOf(opened) \in Sensors
            BY <2>2, <2>9, FirstOfMember
        <3> QED BY <2>3, <2>6, <2>7, <2>9, <3>1, RouteActivationSane DEF Keeps
    <2> QED BY <2>8, <2>9
<1> QED BY <1>1, <1>2

LEMMA OnAutoRearmRestoreSane ==
    ASSUME NEW e, Sane(e), NEW plausible, NEW elapsed, NEW r, NEW w, NEW tr, NEW f
    PROVE  Keeps(e, OnAutoRearmRestore(e, plausible, elapsed, r, w, tr, f))
<1> DEFINE z1 == [e.z EXCEPT !.rearmMode = None]
           z2 == ScheduleAutoRearm(e.z, e.z.rearmMode)
<1>1. /\ z1 \in Zones /\ z1.incident = e.z.incident /\ z1.state = e.z.state
      /\ z1.timer = e.z.timer /\ z1.preAlarm = e.z.preAlarm
    BY DEF Sane, Stored, Typed, Engines, Zones
<1>2. /\ z2 \in Zones /\ z2.incident = e.z.incident /\ z2.state = e.z.state
      /\ z2.timer = e.z.timer /\ z2.preAlarm = e.z.preAlarm
    BY DEF Sane, Stored, Typed, Engines, Zones, ScheduleAutoRearm
<1>3. OnAutoRearmRestore(e, plausible, elapsed, r, w, tr, f) \in
        {With(e, z1), OnAutoRearmElapsed(e, r, w, tr, f), With(e, z2)}
    BY DEF OnAutoRearmRestore
<1> HIDE DEF z1, z2
<1>4. Keeps(e, With(e, z1))
    BY <1>1, WithStored DEF Keeps, Sane, Linked, Clocked
<1>5. Keeps(e, With(e, z2))
    BY <1>2, WithStored DEF Keeps, Sane, Linked, Clocked
<1>6. Keeps(e, OnAutoRearmElapsed(e, r, w, tr, f))
    BY OnAutoRearmElapsedSane DEF Keeps
<1> QED BY <1>3, <1>4, <1>5, <1>6

LEMMA RestoreDisarmedSane ==
    ASSUME NEW e, Stored(e), e.z.incident = None, e.z.timer = "none", NEW plausible,
           NEW elapsed, NEW r, NEW w, NEW tr, NEW f
    PROVE  LET c == RestoreDisarmed(e, plausible, elapsed, r, w, tr, f)
           IN Sane(c) /\ Clocked(c.z)
<1> DEFINE x == [e.z EXCEPT !.state = "disarmed", !.mode = Off, !.preAlarm = FALSE]
           z == [x EXCEPT !.preState = None, !.preMode = None]
           y == [e.z EXCEPT !.state = "disarmed", !.mode = Off, !.preState = None,
                            !.preMode = None, !.preAlarm = FALSE]
           a == OnAutoRearmRestore(With(e, y), plausible, elapsed, r, w, tr, f)
<1>0. e.z \in Zones
    BY DEF Stored, Typed, Engines
<1>1. x \in Zones /\ x.incident = None /\ x.state = "disarmed" /\ x.timer = "none"
    BY <1>0 DEF Zones, States
<1>2. y = z
    BY DEF Stored, Typed, Engines, Zones
<1> HIDE DEF x, y
<1>3. z \in Zones /\ z.incident = None /\ z.state = "disarmed" /\ z.timer = "none"
    BY <1>1, ClearPreTriggerZone
<1> HIDE DEF z
<1>4. Sane(With(e, y)) /\ Clocked(With(e, y).z)
    BY <1>2, <1>3, WithStored DEF Sane, Linked, Clocked
<1>5. Sane(a) /\ Clocked(a.z)
    BY <1>4, OnAutoRearmRestoreSane DEF Keeps
<1>6. RestoreDisarmed(e, plausible, elapsed, r, w, tr, f) = Persist(a, f)
    BY DEF RestoreDisarmed, y
<1> HIDE DEF a
<1> QED BY <1>5, <1>6, PersistSane

LEMMA RestoreArmingSane ==
    ASSUME NEW e, Stored(e), e.z.incident = None, e.z.timer = "none", NEW plausible,
           NEW elapsed, NEW r, NEW w, NEW tr, NEW f
    PROVE  LET c == RestoreArming(e, plausible, elapsed, r, w, tr, f)
           IN Sane(c) /\ Clocked(c.z)
<1> DEFINE z1 == [e.z EXCEPT !.state = "arming"]
           e1 == RefreshSensorValues(With(e, z1), r, w)
           blocking == Blocking(e1, tr, z1.mode)
           bp == z1.bypassed \cup AutoBypass(blocking)
           z2 == [z1 EXCEPT !.bypassed = bp]
           e2 == With(e1, z2)
           z3 == [z1 EXCEPT !.timer = "exit_delay"]
           y == CancelTimers(e2.z)
           z4 == [y EXCEPT !.state = "disarmed", !.mode = Off, !.bypassed = {}]
           ca == CompleteArm(e2, f)
<1>1. z1 \in Zones /\ z1.incident = None /\ z1.state = "arming"
    BY DEF Stored, Typed, Engines, Zones, States
<1>2. RestoreArming(e, plausible, elapsed, r, w, tr, f) \in
        {Persist(With(e, z3), f), ReEvaluate(ca, r, w, f), Persist(With(e2, z4), f)}
    BY DEF RestoreArming
<1> HIDE DEF z1
<1>3. Stored(e1) /\ e1.z = z1
    BY <1>1, WithStored, RefreshStored
<1>4. bp \in SUBSET Sensors
    BY <1>1, <1>3 DEF Stored, Typed, Engines, Zones, Configs, Blocking, AutoBypass
<1> HIDE DEF e1, bp
<1>5. z2 \in Zones /\ z2.incident = None
    BY <1>1, <1>4 DEF Zones
<1> HIDE DEF z2
<1>6. Stored(e2) /\ e2.z = z2
    BY <1>1, <1>3, <1>5, WithStored
<1>7. Sane(Persist(With(e, z3), f)) /\ Clocked(Persist(With(e, z3), f).z)
    <2>1. z3 \in Zones /\ z3.incident = None /\ z3.state = "arming" /\ z3.timer = "exit_delay"
        BY <1>1 DEF Zones, TimerKinds
    <2> HIDE DEF z3
    <2>2. Sane(With(e, z3)) /\ With(e, z3).z = z3 /\ Clocked(z3)
        BY <2>1, WithStored DEF Sane, Linked, Clocked
    <2> QED BY <2>2, PersistSane
<1> HIDE DEF e2
<1>8. Sane(ReEvaluate(ca, r, w, f)) /\ Clocked(ReEvaluate(ca, r, w, f).z)
    <2>1. Sane(ca) /\ Clocked(ca.z)
        BY <1>5, <1>6, CompleteArmSane
    <2> HIDE DEF ca
    <2> QED BY <2>1, ReEvaluateSane DEF Keeps
<1>9. Sane(Persist(With(e2, z4), f)) /\ Clocked(Persist(With(e2, z4), f).z)
    <2>1. y \in Zones /\ y.incident = None /\ y.timer = "none"
        BY <1>5, <1>6, CancelTimersZone
    <2> HIDE DEF y
    <2>2. z4 \in Zones /\ z4.incident = None /\ z4.state = "disarmed" /\ z4.timer = "none"
        BY <2>1 DEF Zones, States
    <2> HIDE DEF z4
    <2>3. Sane(With(e2, z4)) /\ With(e2, z4).z = z4 /\ Clocked(z4)
        BY <1>5, <1>6, <2>2, WithStored DEF Sane, Linked, Clocked
    <2> QED BY <2>3, PersistSane
<1> HIDE DEF z3, z4, ca
<1> QED BY <1>2, <1>7, <1>8, <1>9

LEMMA RestorePendingSane ==
    ASSUME NEW e, Stored(e), e.z.incident = None, e.z.timer = "none", NEW plausible,
           NEW elapsed, NEW r, NEW w, NEW f
    PROVE  LET c == RestorePending(e, plausible, elapsed, r, w, f)
           IN Sane(c) /\ Clocked(c.z)
<1> DEFINE z1 == [e.z EXCEPT !.state = "armed", !.pendingCause = None]
           z2 == [e.z EXCEPT !.state = "armed"]
           z3 == [e.z EXCEPT !.state = "pending", !.timer = "entry_delay"]
           e1 == Persist(With(e, z1), f)
<1>0. e.z \in Zones
    BY DEF Stored, Typed, Engines
<1>2. z2 \in Zones /\ z2.incident = None /\ z2.state = "armed" /\ z2.timer = "none"
    BY <1>0 DEF Zones, States
<1>1. z1 \in Zones /\ z1.incident = None /\ z1.state = "armed" /\ z1.timer = "none"
    <2>1. z1 = [z2 EXCEPT !.pendingCause = None]
        BY <1>0 DEF Zones
    <2> HIDE DEF z1, z2
    <2> QED BY <1>2, <2>1 DEF Zones
<1>3. z3 \in Zones /\ z3.incident = None /\ z3.state = "pending" /\ z3.timer = "entry_delay"
    BY <1>0 DEF Zones, States, TimerKinds
<1>4. RestorePending(e, plausible, elapsed, r, w, f) \in
        {ReEvaluate(e1, r, w, f), Trigger(With(e, z2), e.z.pendingCause, TRUE, f),
         Persist(With(e, z3), f)}
    BY DEF RestorePending
<1> HIDE DEF z1, z2, z3
<1>5. Sane(With(e, z1)) /\ With(e, z1).z = z1 /\ Clocked(z1)
    BY <1>1, WithStored DEF Sane, Linked, Clocked
<1>6. Sane(e1) /\ Clocked(e1.z)
    BY <1>5, PersistSane
<1> HIDE DEF e1
<1>7. Sane(ReEvaluate(e1, r, w, f)) /\ Clocked(ReEvaluate(e1, r, w, f).z)
    BY <1>6, ReEvaluateSane DEF Keeps
<1>8. LET t == Trigger(With(e, z2), e.z.pendingCause, TRUE, f) IN Sane(t) /\ Clocked(t.z)
    <2>1. e.z.pendingCause \in Sensors \cup {None}
        BY DEF Stored, Typed, Engines, Zones
    <2>2. Sane(With(e, z2)) /\ With(e, z2).z.state # "triggered"
        BY <1>2, WithStored DEF Sane, Linked
    <2> QED BY <2>1, <2>2, TriggerSane
<1>9. Sane(With(e, z3)) /\ With(e, z3).z = z3 /\ Clocked(z3)
    BY <1>3, WithStored DEF Sane, Linked, Clocked
<1>10. Sane(Persist(With(e, z3), f)) /\ Clocked(Persist(With(e, z3), f).z)
    BY <1>9, PersistSane
<1> QED BY <1>4, <1>7, <1>8, <1>10

LEMMA FinishTriggeredOnRestoreSane ==
    ASSUME NEW e, Stored(e), NEW r, NEW w, NEW f
    PROVE  LET c == FinishTriggeredOnRestore(e, r, w, f) IN Sane(c) /\ Clocked(c.z)
<1> DEFINE e1 == CloseIncident(StopAll(e), f)
           z == [e1.z EXCEPT !.preState = None, !.preMode = None]
           e2 == With(e1, z)
           ca == CompleteArm(e2, f)
<1>1. Stored(e1) /\ e1.z.incident = None
    BY StopAllStored, CloseIncidentStored
<1>2. FinishTriggeredOnRestore(e, r, w, f) \in
        {DisarmAfterTrigger(e2, f), ReEvaluate(ca, r, w, f)}
    BY DEF FinishTriggeredOnRestore
<1> HIDE DEF e1
<1>3. z \in Zones /\ z.incident = None
    BY <1>1, ClearPreTriggerZone DEF Stored, Typed, Engines
<1> HIDE DEF z
<1>4. Stored(e2) /\ e2.z.incident = None
    BY <1>1, <1>3, WithStored
<1> HIDE DEF e2
<1>5. Sane(ca) /\ Clocked(ca.z)
    BY <1>4, CompleteArmSane
<1>6. Sane(DisarmAfterTrigger(e2, f)) /\ Clocked(DisarmAfterTrigger(e2, f).z)
    BY <1>4, DisarmAfterTriggerSane
<1> HIDE DEF ca
<1> QED BY <1>2, <1>5, <1>6, ReEvaluateSane DEF Keeps

LEMMA RefireOnRestoreSane ==
    ASSUME NEW e, Sane(e), e.z.state = "triggered", e.z.incident.id # 0, NEW f
    PROVE  Keeps(e, RefireOnRestore(e, f))
<1> DEFINE inc == e.z.incident
           i2 == [inc EXCEPT !.refires = @ + 1]
           z == [e.z EXCEPT !.incident = i2]
           d == [e.db EXCEPT ![inc.id].refires = @ + 1]
           c == [e EXCEPT !.z = z, !.db = d]
<1>1. inc \in Incidents /\ inc.id \in 1..Len(e.db) /\ inc.id <= Len(e.db)
    BY IncidentIndex DEF Sane, Linked, Stored, Typed
<1>2. d \in Seq(IncidentRows) /\ Len(d) = Len(e.db)
    BY <1>1, RowUpdateTyped DEF Sane, Stored, Typed, Engines
<1>3. i2 \in Incidents /\ i2.id = inc.id
    <2> DEFINE n == inc.refires + 1
    <2>1. n \in Nat
        BY <1>1 DEF Incidents
    <2> HIDE DEF n, inc
    <2>2. [inc EXCEPT !.refires = n] \in Incidents /\ [inc EXCEPT !.refires = n].id = inc.id
        BY <1>1, <2>1 DEF Incidents
    <2> QED BY <2>2 DEF n
<1>4. i2 # None
    BY <1>3, NoneAssumption
<1>5. [e EXCEPT !.z.incident.refires = @ + 1, !.db[inc.id].refires = @ + 1] = c
    BY DEF Sane, Stored, Typed, Engines, Zones
<1>6. RefireOnRestore(e, f) \in {e, c, FireCycle(c, TRUE)}
    <2> HIDE DEF c
    <2> QED BY <1>5 DEF RefireOnRestore
<1> HIDE DEF i2
<1>7. /\ z \in Zones /\ z.incident = i2 /\ z.state = e.z.state
      /\ z.timer = e.z.timer /\ z.preAlarm = e.z.preAlarm
    BY <1>3 DEF Sane, Stored, Typed, Engines, Zones
<1> HIDE DEF z, d, inc
<1>8. Stored(c) /\ c.z = z
    BY <1>1, <1>2, <1>3, <1>7 DEF Sane, Stored, Typed, Engines
<1> HIDE DEF c
<1>9. Sane(c)
    BY <1>4, <1>7, <1>8 DEF Sane, Linked
<1>10. Clocked(e.z) => Clocked(c.z)
    BY <1>7, <1>8 DEF Clocked
<1>11. Sane(FireCycle(c, TRUE)) /\ FireCycle(c, TRUE).z = c.z
    BY <1>9, FireCycleSane
<1> QED BY <1>6, <1>9, <1>10, <1>11 DEF Keeps

LEMMA RestoreTriggeredSane ==
    ASSUME NEW e, Stored(e), e.z.incident # None => e.z.incident.id # 0, NEW plausible,
           NEW elapsed, NEW r, NEW w, NEW f
    PROVE  LET c == RestoreTriggered(e, plausible, elapsed, r, w, f)
           IN Sane(c) /\ Clocked(c.z)
<1> DEFINE z1 == [e.z EXCEPT !.state = "triggered"]
           z2 == [z1 EXCEPT !.preAlarm = FALSE]
           z3 == [z2 EXCEPT !.timer = "trigger_time"]
           e3 == Persist(With(e, z3), f)
<1>1. z1 \in Zones /\ z1.incident = e.z.incident
    BY DEF Stored, Typed, Engines, Zones, States
<1>2. CASE e.z.incident = None
    <2>1. RestoreTriggered(e, plausible, elapsed, r, w, f)
            = FinishTriggeredOnRestore(With(e, z1), r, w, f)
        BY <1>2 DEF RestoreTriggered
    <2> HIDE DEF z1
    <2>2. Stored(With(e, z1))
        BY <1>1, WithStored
    <2> QED BY <2>1, <2>2, FinishTriggeredOnRestoreSane
<1>3. CASE e.z.incident # None
    <2>1. RestoreTriggered(e, plausible, elapsed, r, w, f) \in
            {FinishAlwaysOn(With(e, z2), f), FinishTriggeredOnRestore(With(e, z2), r, w, f),
             StopAll(e3), RefireOnRestore(e3, f), e3}
        BY <1>3 DEF RestoreTriggered
    <2>2. z1.state = "triggered"
        BY DEF Stored, Typed, Engines, Zones
    <2> HIDE DEF z1
    <2>3. z2 \in Zones /\ z2.incident = e.z.incident /\ z2.state = "triggered"
        BY <1>1, <2>2 DEF Zones
    <2> HIDE DEF z2
    <2>4. z3 \in Zones /\ z3.incident = e.z.incident /\ z3.state = "triggered"
          /\ z3.timer = "trigger_time"
        BY <2>3 DEF Zones, TimerKinds
    <2> HIDE DEF z3
    <2>5. Stored(With(e, z2))
        BY <2>3, WithStored
    <2>6. Sane(With(e, z3)) /\ With(e, z3).z = z3 /\ Clocked(z3)
        BY <1>3, <2>4, WithStored DEF Sane, Linked, Clocked
    <2>7. Sane(e3) /\ e3.z = z3 /\ Clocked(e3.z)
        BY <2>6, PersistSane
    <2> HIDE DEF e3
    <2>8. Sane(StopAll(e3)) /\ Clocked(StopAll(e3).z)
        BY <2>7, StopAllStored DEF Sane
    <2>9. Sane(RefireOnRestore(e3, f)) /\ Clocked(RefireOnRestore(e3, f).z)
        BY <1>3, <2>4, <2>7, RefireOnRestoreSane DEF Keeps
    <2> QED BY <2>1, <2>5, <2>7, <2>8, <2>9, FinishAlwaysOnSane, FinishTriggeredOnRestoreSane
<1> QED BY <1>2, <1>3

\* restoreZone reads the row back: no timer runs yet, and a zone that was not
\* triggered comes back without an incident.
LEMMA LoadRowStored ==
    ASSUME NEW e, Stored(e), NEW readable, NEW f
    PROVE  LET c == LoadRow(e, readable, f)
           IN /\ Stored(c) /\ c.cfg = e.cfg /\ c.row = e.row
              /\ c.z.timer = "none"
              /\ c.z.incident # None => c.z.incident.id # 0
              /\ e.row.state # "triggered" => c.z.incident = None
<1> DEFINE R == e.row
           byRow == readable /\ R.incident \in OpenRows(e.db)
           orphan == readable /\ ~byRow /\ OpenRows(e.db) # {}
           adopt == orphan /\ R.state = "triggered"
           last == Newest(OpenRows(e.db))
           id == IF byRow THEN R.incident ELSE IF adopt THEN last ELSE 0
           marked == id # 0 /\ R.silencedID = id
           rec == e.db[id]
           sil == rec.silenced \/ marked
           inc == [id |-> id, cause |-> rec.cause, silenced |-> sil,
                   cycles |-> rec.cycles, refires |-> rec.refires]
           sid == IF marked THEN id ELSE 0
           i2 == IF id = 0 THEN None ELSE inc
           x == ZoneOf(R)
           y == [x EXCEPT !.silencedID = sid, !.incident = i2]
           d == IF orphan /\ ~adopt /\ "close" \notin f THEN [e.db EXCEPT ![last].open = FALSE]
                ELSE IF marked /\ "inc" \notin f THEN [e.db EXCEPT ![id].silenced = TRUE]
                ELSE e.db
           c == LoadRow(e, readable, f)
<1>1. e.db \in Seq(IncidentRows) /\ R \in Rows /\ OpenRows(e.db) \subseteq 1..Len(e.db)
      /\ Len(e.db) \in Nat
    BY DEF Stored, Typed, Engines, OpenRows
<1>2. orphan => last \in OpenRows(e.db)
    BY <1>1, NewestMember
<1>3. id = 0 \/ id \in 1..Len(e.db)
    BY <1>1, <1>2
<1>4. R.state # "triggered" => id = 0
    <2>1. ASSUME R.state # "triggered" PROVE R.incident \notin OpenRows(e.db)
        <3>1. R.incident = 0
            BY <2>1 DEF Stored, Unlinked
        <3> QED BY <1>1, <3>1
    <2> QED BY <2>1
<1>5. c = [e EXCEPT !.z = y, !.db = d]
    BY DEF LoadRow
<1>6. d \in Seq(IncidentRows) /\ Len(d) = Len(e.db)
    BY <1>1, <1>2, <1>3, RowUpdateTyped
<1>7. id # 0 => inc \in Incidents
    <2>1. SUFFICES ASSUME id \in 1..Len(e.db) PROVE inc \in Incidents
        BY <1>3
    <2>2. rec \in IncidentRows
        BY <1>1, <2>1
    <2>3. sil \in BOOLEAN
        OBVIOUS
    <2> HIDE DEF rec, sil, id
    <2> QED BY <1>1, <2>1, <2>2, <2>3 DEF Incidents, IncidentRows
<1>8. i2 \in Incidents \cup {None} /\ (i2 # None => id # 0 /\ i2.id = id) /\ sid \in Nat
    <2>1. inc.id = id /\ id \in Nat
        BY <1>1, <1>3
    <2> HIDE DEF inc, id
    <2> QED BY <1>7, <2>1
<1>9. R.state # "triggered" => i2 = None
    BY <1>4
<1> HIDE DEF i2, sid, d, id
<1>10. y \in Zones /\ y.timer = "none" /\ y.incident = i2
    <2>1. x \in Zones /\ x.timer = "none"
        <3> HIDE DEF R
        <3> QED BY <1>1 DEF ZoneOf, Zones, Rows, States, TimerKinds
    <2> HIDE DEF x
    <2> QED BY <1>8, <2>1 DEF Zones
<1> HIDE DEF x, y
<1>11. y.incident # None => y.incident.id <= Len(d)
    BY <1>1, <1>3, <1>6, <1>8, <1>10
<1>12. Stored(c) /\ c.z = y /\ c.cfg = e.cfg /\ c.row = e.row
    <2> HIDE DEF c
    <2> QED BY <1>5, <1>6, <1>10, <1>11 DEF Stored, Typed, Engines
<1> HIDE DEF c
<1> QED BY <1>8, <1>9, <1>10, <1>12 DEF c

LEMMA RestoreZoneSane ==
    ASSUME NEW e, Stored(e), NEW readable, NEW plausible, NEW elapsed, NEW r, NEW w,
           NEW tr, NEW f
    PROVE  LET c == RestoreZone(e, readable, plausible, elapsed, r, w, tr, f)
           IN Sane(c) /\ Clocked(c.z)
<1> DEFINE e1 == LoadRow(e, readable, f)
           z == [e1.z EXCEPT !.state = "armed"]
           p == Persist(With(e1, z), f)
           c == RestoreZone(e, readable, plausible, elapsed, r, w, tr, f)
<1>1. /\ Stored(e1) /\ e1.z.timer = "none"
      /\ e1.z.incident # None => e1.z.incident.id # 0
      /\ e.row.state # "triggered" => e1.z.incident = None
    BY LoadRowStored
<1>2. e.row.state \in States
    BY DEF Stored, Typed, Engines, Rows
<1>3. CASE e.row.state = "disarmed"
    <2>1. c = RestoreDisarmed(e1, plausible, elapsed, r, w, tr, f)
        BY <1>3 DEF RestoreZone
    <2> HIDE DEF e1, c
    <2>2. e1.z.incident = None
        BY <1>1, <1>3
    <2> QED BY <1>1, <2>1, <2>2, RestoreDisarmedSane DEF c
<1>4. CASE e.row.state = "armed"
    <2>1. c = ReEvaluate(p, r, w, f)
        BY <1>4 DEF RestoreZone
    <2> HIDE DEF e1, c
    <2>2. z \in Zones /\ z.incident = None /\ z.state = "armed" /\ z.timer = "none"
        <3>1. e1.z \in Zones
            BY <1>1 DEF Stored, Typed, Engines
        <3> QED BY <1>1, <1>4, <3>1 DEF Zones, States
    <2>3. e1.z.incident = None
        BY <1>1, <1>4
    <2> HIDE DEF z
    <2>4. Sane(With(e1, z)) /\ With(e1, z).z = z /\ Clocked(z)
        BY <1>1, <2>2, <2>3, WithStored DEF Sane, Linked, Clocked
    <2>5. Sane(p) /\ Clocked(p.z)
        BY <2>4, PersistSane
    <2> HIDE DEF p
    <2> QED BY <2>1, <2>5, ReEvaluateSane DEF Keeps, c
<1>5. CASE e.row.state = "arming"
    <2>1. c = RestoreArming(e1, plausible, elapsed, r, w, tr, f)
        BY <1>5 DEF RestoreZone
    <2> HIDE DEF e1, c
    <2>2. e1.z.incident = None
        BY <1>1, <1>5
    <2> QED BY <1>1, <2>1, <2>2, RestoreArmingSane DEF c
<1>6. CASE e.row.state = "pending"
    <2>1. c = RestorePending(e1, plausible, elapsed, r, w, f)
        BY <1>6 DEF RestoreZone
    <2> HIDE DEF e1, c
    <2>2. e1.z.incident = None
        BY <1>1, <1>6
    <2> QED BY <1>1, <2>1, <2>2, RestorePendingSane DEF c
<1>7. CASE e.row.state = "triggered"
    <2>1. c = RestoreTriggered(e1, plausible, elapsed, r, w, f)
        BY <1>7 DEF RestoreZone
    <2> HIDE DEF e1, c
    <2> QED BY <1>1, <2>1, RestoreTriggeredSane DEF c
<1> QED BY <1>2, <1>3, <1>4, <1>5, <1>6, <1>7 DEF States

-----------------------------------------------------------------------------
\* The inductive invariant: the three properties and, for the restart, the
\* stored row of a zone that is not triggered.

ControlInv == TypeOK /\ IncidentIffTriggered /\ TimerDiscipline /\ Unlinked(row)

\* Its two halves: what Becomes installs, and the variables around the engine.
EngineOK ==
    /\ zone \in Zones
    /\ zone.incident # None => zone.incident.id <= Len(db)
    /\ cfg \in Configs /\ view \in Views /\ row \in Rows
    /\ db \in Seq(IncidentRows) /\ Len(db) <= MaxIncidents
    /\ horn \in BOOLEAN /\ fired \in [Ids -> Nat]
    /\ hushed \subseteq 1..MaxIncidents
    /\ Linked(zone) /\ Unlinked(row)

AroundOK ==
    /\ life \in {"down", "up", "stopped"}
    /\ stored \in Configs
    /\ trouble \in [Sensors -> SUBSET Troubles]
    /\ hold \subseteq Sensors
    /\ world \in [Sensors -> BOOLEAN]
    /\ events \subseteq Sensors
    /\ ready \in BOOLEAN
    /\ restarts \in Nat /\ faults \in Nat /\ writes \in Nat

LEMMA ControlInvParts ==
    ControlInv <=> EngineOK /\ AroundOK /\ (life = "up" => Clocked(zone))
BY DEF ControlInv, EngineOK, AroundOK, TypeOK, IncidentIffTriggered, TimerDiscipline,
       Linked, Clocked

LEMMA EngSane ==
    ASSUME EngineOK
    PROVE  Sane(eng) /\ eng.z = zone /\ eng.cfg = cfg /\ eng.view = view
<1>1. /\ eng.z = zone /\ eng.cfg = cfg /\ eng.view = view /\ eng.row = row /\ eng.db = db
      /\ eng.horn = horn /\ eng.fired = fired
    BY DEF eng
<1>2. eng \in Engines
    BY DEF eng, Engines, EngineOK
<1> QED BY <1>1, <1>2 DEF EngineOK, Sane, Stored, Typed

LEMMA BecomesOK ==
    ASSUME EngineOK, NEW e, Sane(e), Becomes(e)
    PROVE  EngineOK' /\ zone' = e.z
<1>1. /\ zone' = e.z /\ cfg' = e.cfg /\ view' = e.view /\ row' = e.row
      /\ db' = e.db /\ horn' = e.horn /\ fired' = e.fired /\ Len(e.db) <= MaxIncidents
      /\ hushed' = hushed \cup {i \in 1..Len(e.db) : e.db[i].silenced \/ e.row.silencedID = i}
    BY DEF Becomes
<1>2. /\ e.z \in Zones /\ e.cfg \in Configs /\ e.view \in Views /\ e.row \in Rows
      /\ e.db \in Seq(IncidentRows) /\ e.horn \in BOOLEAN /\ e.fired \in [Ids -> Nat]
      /\ e.z.incident # None => e.z.incident.id <= Len(e.db)
      /\ Linked(e.z) /\ Unlinked(e.row)
    BY DEF Sane, Stored, Typed, Engines
<1>3. hushed' \subseteq 1..MaxIncidents
    <2>1. Len(e.db) \in Nat /\ MaxIncidents \in Nat
        BY <1>2, BoundAssumption
    <2>2. 1..Len(e.db) \subseteq 1..MaxIncidents
        BY <1>1, <2>1
    <2> QED BY <1>1, <2>2 DEF EngineOK
<1> QED BY <1>1, <1>2, <1>3 DEF EngineOK

\* A step that installs a sane engine.
LEMMA EngineStep ==
    ASSUME ControlInv, NEW e, Sane(e), Becomes(e), AroundOK', life' = "up" => Clocked(e.z)
    PROVE  ControlInv'
<1>1. EngineOK' /\ zone' = e.z
    BY ControlInvParts, BecomesOK
<1>2. EngineOK' /\ AroundOK' /\ (life' = "up" => Clocked(zone'))
    BY <1>1
<1> QED BY <1>2 DEF ControlInv, EngineOK, AroundOK, TypeOK, IncidentIffTriggered,
                     TimerDiscipline, Linked, Clocked

\* A step of a handler that keeps the engine sane, in a process that lives on.
LEMMA HandlerStep ==
    ASSUME ControlInv, NEW e, Keeps(eng, e), Becomes(e), AroundOK', life' = life
    PROVE  ControlInv'
<1>1. EngineOK /\ (life = "up" => Clocked(zone))
    BY ControlInvParts
<1>2. Sane(e) /\ (Clocked(zone) => Clocked(e.z))
    BY <1>1, EngSane DEF Keeps
<1> QED BY <1>1, <1>2, EngineStep

\* A change of the zone that concerns neither state, timer nor incident.
LEMMA TweakKeeps ==
    ASSUME NEW e, Sane(e), NEW z \in Zones, z.incident = e.z.incident, z.state = e.z.state,
           z.timer = e.z.timer, z.preAlarm = e.z.preAlarm
    PROVE  Keeps(e, With(e, z)) /\ With(e, z).z = z
BY WithStored DEF Keeps, Sane, Linked, Clocked

LEMMA PersistKeeps ==
    ASSUME NEW e, NEW c, Keeps(e, c), NEW f
    PROVE  Keeps(e, Persist(c, f))
BY PersistSane DEF Keeps

LEMMA SelfKeeps ==
    ASSUME NEW e, Sane(e)
    PROVE  Keeps(e, e)
BY DEF Keeps

LEMMA SeenSane ==
    ASSUME EngineOK, world \in [Sensors -> BOOLEAN], NEW s \in Sensors
    PROVE  Keeps(eng, Seen(s)) /\ Seen(s).z = zone /\ Sane(Seen(s))
<1> DEFINE v == [eng.view EXCEPT ![s] = Observed(world[s])]
<1>1. Sane(eng) /\ eng.z = zone
    BY EngSane
<1>2. v \in Views
    BY <1>1 DEF Sane, Stored, Typed, Engines, Views, Observed
<1>3. Seen(s) = [eng EXCEPT !.view = v]
    BY DEF Seen
<1> HIDE DEF v
<1>4. Sane(Seen(s)) /\ Seen(s).z = eng.z
    BY <1>1, <1>2, <1>3 DEF Sane, Stored, Typed, Engines
<1> QED BY <1>1, <1>4 DEF Keeps

LEMMA WritingNat ==
    ASSUME faults \in Nat, NEW f, Writing(f)
    PROVE  faults' \in Nat
BY DEF Writing

-----------------------------------------------------------------------------
\* One lemma per action: it preserves the inductive invariant.

LEMMA ArmStep ==
    ASSUME ControlInv, NEW m \in Modes, NEW bypass, NEW force, NEW skip,
           Arm(m, bypass, force, skip)
    PROVE  ControlInv'
<1>1. EngineOK /\ AroundOK
    BY ControlInvParts
<1>2. PICK f \in Faults :
        /\ Writing(f)
        /\ Becomes(BeginArm(eng, m, bypass, force, skip, ready, world, trouble, f))
    BY DEF Arm
<1> DEFINE c == BeginArm(eng, m, bypass, force, skip, ready, world, trouble, f)
<1>3. Sane(eng) /\ eng.z.state # "triggered"
    BY <1>1, EngSane DEF Arm
<1>4. Keeps(eng, c)
    BY <1>3, BeginArmSane DEF Keeps
<1>5. AroundOK' /\ life' = life
    BY <1>1, <1>2, WritingNat DEF AroundOK, Arm, sensorVars, envVars
<1> HIDE DEF c
<1> QED BY <1>2, <1>4, <1>5, HandlerStep DEF c

LEMMA DisarmStep ==
    ASSUME ControlInv, Disarm
    PROVE  ControlInv'
<1>1. EngineOK /\ AroundOK /\ Sane(eng) /\ eng.z = zone
    BY ControlInvParts, EngSane
<1> DEFINE c(f) == IF zone.state # "disarmed" THEN DisarmLocked(eng, f)
                   ELSE IF zone.rearm THEN Persist(With(eng, CancelAutoRearm(zone)), f)
                   ELSE eng
<1>2. PICK f \in Faults : Writing(f) /\ Becomes(c(f))
    BY DEF Disarm
<1>3. Keeps(eng, DisarmLocked(eng, f))
    BY <1>1, DisarmLockedSane DEF Keeps
<1>4. Keeps(eng, Persist(With(eng, CancelAutoRearm(zone)), f))
    <2> DEFINE z == CancelAutoRearm(zone)
    <2>1. /\ z \in Zones /\ z.incident = zone.incident /\ z.state = zone.state
          /\ z.timer = zone.timer /\ z.preAlarm = zone.preAlarm
        BY <1>1 DEF EngineOK, Zones, CancelAutoRearm
    <2> HIDE DEF z
    <2>2. Keeps(eng, With(eng, z))
        BY <1>1, <2>1, TweakKeeps
    <2>3. Keeps(eng, Persist(With(eng, z), f))
        BY <2>2, PersistKeeps
    <2> QED BY <2>3 DEF z
<1>5. Keeps(eng, c(f))
    BY <1>1, <1>3, <1>4, SelfKeeps
<1>6. AroundOK' /\ life' = life
    BY <1>1, <1>2, WritingNat DEF AroundOK, Disarm, sensorVars, envVars
<1> HIDE DEF c
<1> QED BY <1>2, <1>5, <1>6, HandlerStep

LEMMA SilenceStep ==
    ASSUME ControlInv, Silence
    PROVE  ControlInv'
<1>1. EngineOK /\ AroundOK /\ Sane(eng) /\ Stored(eng) /\ eng.z = zone
    BY ControlInvParts, EngSane DEF Sane
<1> DEFINE c(f) == IF zone.incident = None THEN StopAll(eng)
                   ELSE Persist(SilenceIncident(eng, f), f)
<1>2. PICK f \in Faults : Writing(f) /\ Becomes(c(f))
    BY DEF Silence
<1>3. Keeps(eng, c(f))
    <2>1. CASE zone.incident = None
        BY <1>1, <2>1, StopAllStored DEF Keeps, Sane
    <2>2. CASE zone.incident # None
        <3> DEFINE b == SilenceIncident(eng, f)
        <3>1. /\ Stored(b) /\ b.z.incident # None /\ b.z.state = zone.state
              /\ b.z.timer = zone.timer /\ b.z.preAlarm = zone.preAlarm
            BY <1>1, <2>2, SilenceIncidentStored
        <3> HIDE DEF b
        <3>2. Keeps(eng, b)
            BY <1>1, <2>2, <3>1 DEF Keeps, Sane, Linked, Clocked
        <3>3. c(f) = Persist(b, f)
            BY <2>2 DEF b
        <3> QED BY <3>2, <3>3, PersistKeeps
    <2> QED BY <2>1, <2>2
<1>4. AroundOK' /\ life' = life
    BY <1>1, <1>2, WritingNat DEF AroundOK, Silence, sensorVars, envVars
<1> HIDE DEF c
<1> QED BY <1>2, <1>3, <1>4, HandlerStep

LEMMA PanicTriggerStep ==
    ASSUME ControlInv, NEW silent \in BOOLEAN, PanicTrigger(silent)
    PROVE  ControlInv'
<1>1. EngineOK /\ AroundOK /\ Sane(eng)
    BY ControlInvParts, EngSane
<1>2. PICK f \in Faults : Writing(f) /\ Becomes(AlwaysOnFire(eng, None, ~silent, f))
    BY DEF PanicTrigger
<1>3. Keeps(eng, AlwaysOnFire(eng, None, ~silent, f))
    BY <1>1, AlwaysOnFireSane
<1>4. AroundOK' /\ life' = life
    BY <1>1, <1>2, WritingNat DEF AroundOK, PanicTrigger, sensorVars, envVars
<1> QED BY <1>2, <1>3, <1>4, HandlerStep

LEMMA WalkTestStep ==
    ASSUME ControlInv, WalkTestStart \/ WalkTestStop
    PROVE  ControlInv'
<1>1. EngineOK /\ AroundOK /\ Sane(eng) /\ eng.z = zone
    BY ControlInvParts, EngSane
<1>2. PICK b \in BOOLEAN : Becomes(With(eng, [zone EXCEPT !.walk = b]))
    BY DEF WalkTestStart, WalkTestStop
<1> DEFINE z == [zone EXCEPT !.walk = b]
<1>3. /\ z \in Zones /\ z.incident = zone.incident /\ z.state = zone.state
      /\ z.timer = zone.timer /\ z.preAlarm = zone.preAlarm
    BY <1>1 DEF EngineOK, Zones
<1>4. AroundOK' /\ life' = life
    BY <1>1 DEF AroundOK, WalkTestStart, WalkTestStop, sensorVars, envVars, countVars
<1>5. Becomes(With(eng, z))
    BY <1>2
<1> HIDE DEF z
<1>6. Keeps(eng, With(eng, z))
    BY <1>1, <1>3, TweakKeeps
<1> QED BY <1>4, <1>5, <1>6, HandlerStep

LEMMA AlwaysOnEventStep ==
    ASSUME ControlInv, NEW s \in Sensors, AlwaysOnEvent(s)
    PROVE  ControlInv'
<1>1. EngineOK /\ AroundOK
    BY ControlInvParts
<1>2. PICK f \in Faults :
        /\ Writing(f)
        /\ Becomes(AlwaysOnFire(Seen(s), s, ~SensorConfig[s].panicSilent, f))
    BY DEF AlwaysOnEvent
<1> DEFINE loud == ~SensorConfig[s].panicSilent
           c == AlwaysOnFire(Seen(s), s, loud, f)
<1>3. loud \in BOOLEAN
    OBVIOUS
<1>4. Keeps(eng, Seen(s)) /\ Sane(Seen(s))
    BY <1>1, SeenSane DEF AroundOK
<1>5. Becomes(c)
    BY <1>2
<1> HIDE DEF loud
<1>6. Keeps(Seen(s), c)
    BY <1>3, <1>4, AlwaysOnFireSane
<1> HIDE DEF c
<1>7. Keeps(eng, c)
    BY <1>4, <1>6 DEF Keeps
<1>8. AroundOK' /\ life' = life
    BY <1>1, <1>2, WritingNat DEF AroundOK, AlwaysOnEvent, Delivered
<1> QED BY <1>5, <1>7, <1>8, HandlerStep

LEMMA ClearEventStep ==
    ASSUME ControlInv, NEW s \in Sensors, ClearEvent(s)
    PROVE  ControlInv'
<1>1. EngineOK /\ AroundOK
    BY ControlInvParts
<1> DEFINE e1 == Seen(s)
           z1 == [zone EXCEPT !.openAtArm = @ \ {s}]
           e2(f) == IF s \in zone.openAtArm THEN Persist(With(e1, z1), f) ELSE e1
           settle == /\ zone.state = "arming"
                     /\ SensorConfig[s].armAfterClosing
                     /\ InMode(s, zone.mode)
           c(f) == IF settle THEN With(e2(f), [e2(f).z EXCEPT !.debounce = s]) ELSE e2(f)
<1>2. PICK f \in Faults : Writing(f) /\ Becomes(c(f))
    BY DEF ClearEvent
<1>3. AroundOK' /\ life' = life
    BY <1>1, <1>2, WritingNat DEF AroundOK, ClearEvent, Delivered
<1>4. Keeps(eng, e1) /\ Sane(e1) /\ e1.z = zone
    BY <1>1, SeenSane DEF AroundOK
<1>5. /\ z1 \in Zones /\ z1.incident = zone.incident /\ z1.state = zone.state
      /\ z1.timer = zone.timer /\ z1.preAlarm = zone.preAlarm
    BY <1>1 DEF EngineOK, Zones
<1> HIDE DEF e1, z1
<1>6. Keeps(e1, With(e1, z1))
    BY <1>4, <1>5, TweakKeeps
<1> DEFINE e3 == e2(f)
           z3 == [e3.z EXCEPT !.debounce = s]
<1>7. Keeps(e1, e3)
    BY <1>4, <1>6, PersistKeeps, SelfKeeps
<1>8. c(f) \in {e3, With(e3, z3)}
    OBVIOUS
<1> HIDE DEF e2, e3
<1>9. /\ z3 \in Zones /\ z3.incident = e3.z.incident /\ z3.state = e3.z.state
      /\ z3.timer = e3.z.timer /\ z3.preAlarm = e3.z.preAlarm
    BY <1>7 DEF Keeps, Sane, Stored, Typed, Engines, Zones
<1> HIDE DEF z3, c
<1>10. Keeps(e3, With(e3, z3))
    BY <1>7, <1>9, TweakKeeps DEF Keeps
<1>11. Keeps(eng, c(f))
    BY <1>4, <1>7, <1>8, <1>10 DEF Keeps
<1> QED BY <1>2, <1>3, <1>11, HandlerStep

LEMMA ActivityWhileDisarmedStep ==
    ASSUME ControlInv, NEW s \in Sensors, ActivityWhileDisarmed(s)
    PROVE  ControlInv'
<1>1. EngineOK /\ AroundOK
    BY ControlInvParts
<1>2. PICK f \in Faults : Writing(f) /\ Becomes(Persist(Seen(s), f))
    BY DEF ActivityWhileDisarmed
<1>3. Keeps(eng, Persist(Seen(s), f))
    BY <1>1, SeenSane, PersistKeeps DEF AroundOK
<1>4. AroundOK' /\ life' = life
    BY <1>1, <1>2, WritingNat DEF AroundOK, ActivityWhileDisarmed, Delivered
<1> QED BY <1>2, <1>3, <1>4, HandlerStep

LEMMA ActivationEventStep ==
    ASSUME ControlInv, NEW s \in Sensors, ActivationEvent(s)
    PROVE  ControlInv'
<1>1. EngineOK /\ AroundOK
    BY ControlInvParts
<1>2. Keeps(eng, Seen(s)) /\ Sane(Seen(s))
    BY <1>1, SeenSane DEF AroundOK
<1>3. CASE SensorConfig[s].holdTime
    <2>1. Becomes(Seen(s)) /\ hold' = hold \cup {s} /\ faults' = faults
        BY <1>3 DEF ActivationEvent
    <2>2. AroundOK' /\ life' = life
        BY <1>1, <2>1 DEF AroundOK, ActivationEvent, Delivered
    <2> QED BY <1>2, <2>1, <2>2, HandlerStep
<1>4. CASE ~SensorConfig[s].holdTime
    <2>1. hold' = hold
        BY <1>4 DEF ActivationEvent
    <2>2. PICK f \in Faults, keep \in SUBSET zone.hits :
            Writing(f) /\ Becomes(GateCrossZone(Seen(s), s, keep, f))
        BY <1>4 DEF ActivationEvent
    <2>3. Keeps(Seen(s), GateCrossZone(Seen(s), s, keep, f))
        BY <1>2, GateCrossZoneSane
    <2>4. Keeps(eng, GateCrossZone(Seen(s), s, keep, f))
        BY <1>2, <2>3 DEF Keeps
    <2>5. AroundOK' /\ life' = life
        BY <1>1, <2>1, <2>2, WritingNat DEF AroundOK, ActivationEvent, Delivered
    <2> QED BY <2>2, <2>4, <2>5, HandlerStep
<1> QED BY <1>3, <1>4

LEMMA IgnoredEventStep ==
    ASSUME ControlInv, NEW s \in Sensors, IgnoredEvent(s)
    PROVE  ControlInv'
<1>1. EngineOK /\ AroundOK
    BY ControlInvParts
<1>2. Keeps(eng, Seen(s)) /\ Keeps(eng, eng)
    BY <1>1, SeenSane, EngSane, SelfKeeps DEF AroundOK
<1>3. Becomes(eng) \/ Becomes(Seen(s))
    BY DEF IgnoredEvent
<1>4. AroundOK' /\ life' = life
    BY <1>1 DEF AroundOK, IgnoredEvent, Delivered
<1> QED BY <1>2, <1>3, <1>4, HandlerStep

LEMMA HoldElapsedStep ==
    ASSUME ControlInv, NEW s \in Sensors, HoldElapsed(s)
    PROVE  ControlInv'
<1>1. EngineOK /\ AroundOK /\ Sane(eng)
    BY ControlInvParts, EngSane
<1>2. AroundOK' /\ life' = life
    BY <1>1, WritingNat DEF AroundOK, HoldElapsed, envVars
<1>3. \/ Becomes(eng)
      \/ \E f \in Faults, keep \in SUBSET zone.hits : Becomes(GateCrossZone(eng, s, keep, f))
    BY DEF HoldElapsed
<1>4. ASSUME NEW f, NEW keep PROVE Keeps(eng, GateCrossZone(eng, s, keep, f))
    BY <1>1, GateCrossZoneSane
<1> QED BY <1>1, <1>2, <1>3, <1>4, HandlerStep, SelfKeeps

LEMMA AvailabilityStep ==
    ASSUME ControlInv, NEW s \in Sensors, NEW available \in BOOLEAN,
           SetSensorAvailability(s, available)
    PROVE  ControlInv'
<1>1. EngineOK /\ AroundOK /\ Sane(eng) /\ eng.z = zone
    BY ControlInvParts, EngSane
<1>2. trouble' \in [Sensors -> SUBSET Troubles]
    BY <1>1 DEF AroundOK, SetSensorAvailability, Troubles
<1>3. AroundOK' /\ life' = life
    BY <1>1, <1>2, WritingNat DEF AroundOK, SetSensorAvailability, envVars
<1>4. \/ Becomes(eng)
      \/ zone.state = "armed" /\ \E f \in Faults : Becomes(RouteActivation(eng, s, f))
    BY DEF SetSensorAvailability
<1>5. ASSUME zone.state = "armed", NEW f PROVE Keeps(eng, RouteActivation(eng, s, f))
    <2>1. eng.z.state # "triggered"
        BY <1>1, <1>5
    <2> QED BY <1>1, <2>1, RouteActivationSane DEF Keeps
<1> QED BY <1>1, <1>3, <1>4, <1>5, HandlerStep, SelfKeeps

LEMMA CentralLostStep ==
    ASSUME ControlInv, CentralLost
    PROVE  ControlInv'
<1>1. EngineOK /\ AroundOK /\ Sane(eng) /\ eng.z = zone
    BY ControlInvParts, EngSane
<1>2. trouble' \in [Sensors -> SUBSET Troubles]
    BY <1>1 DEF AroundOK, CentralLost, Troubles
<1>3. AroundOK' /\ life' = life
    BY <1>1, <1>2, WritingNat DEF AroundOK, CentralLost, envVars
<1>4. \/ Becomes(eng)
      \/ ArmedSide(zone.state) /\ \E f \in Faults : Becomes(Trigger(eng, None, FALSE, f))
    BY DEF CentralLost
<1>5. ASSUME ArmedSide(zone.state), NEW f PROVE Keeps(eng, Trigger(eng, None, FALSE, f))
    <2>1. eng.z.state # "triggered"
        BY <1>1, <1>5 DEF ArmedSide
    <2> QED BY <1>1, <2>1, TriggerSane DEF Keeps
<1> QED BY <1>1, <1>3, <1>4, <1>5, HandlerStep, SelfKeeps

LEMMA ReevaluateSensorsStep ==
    ASSUME ControlInv, ReevaluateSensors
    PROVE  ControlInv'
<1>1. EngineOK /\ AroundOK /\ Sane(eng)
    BY ControlInvParts, EngSane
<1>2. PICK f \in Faults : Writing(f) /\ Becomes(ReEvaluate(eng, ready, world, f))
    BY DEF ReevaluateSensors
<1>3. AroundOK' /\ life' = life
    BY <1>1, <1>2, WritingNat DEF AroundOK, ReevaluateSensors, sensorVars, envVars
<1>4. Keeps(eng, ReEvaluate(eng, ready, world, f))
    BY <1>1, ReEvaluateSane
<1> QED BY <1>2, <1>3, <1>4, HandlerStep

LEMMA StateTimerStep ==
    ASSUME ControlInv, StateTimerFires
    PROVE  ControlInv'
<1>1. EngineOK /\ AroundOK /\ Sane(eng) /\ eng.z = zone
    BY ControlInvParts, EngSane
<1>2. PICK f \in Faults : Writing(f) /\ Becomes(OnStateTimerFired(eng, f))
    BY DEF StateTimerFires
<1>3. AroundOK' /\ life' = life
    BY <1>1, <1>2, WritingNat DEF AroundOK, StateTimerFires, sensorVars, envVars
<1>4. eng.z.timer # "none"
    BY <1>1 DEF StateTimerFires
<1>5. Keeps(eng, OnStateTimerFired(eng, f))
    BY <1>1, <1>4, OnStateTimerFiredSane
<1> QED BY <1>2, <1>3, <1>5, HandlerStep

LEMMA DebounceStep ==
    ASSUME ControlInv, DebounceElapsed
    PROVE  ControlInv'
<1> DEFINE z == [zone EXCEPT !.debounce = None]
           e1 == With(eng, z)
<1>1. EngineOK /\ AroundOK /\ Sane(eng) /\ eng.z = zone
    BY ControlInvParts, EngSane
<1>2. /\ z \in Zones /\ z.incident = zone.incident /\ z.state = zone.state
      /\ z.timer = zone.timer /\ z.preAlarm = zone.preAlarm
    BY <1>1 DEF EngineOK, Zones
<1>3. \/ Becomes(e1) /\ faults' = faults
      \/ /\ zone.state = "arming"
         /\ \E f \in Faults : Writing(f) /\ Becomes(CompleteArm(e1, f))
    BY DEF DebounceElapsed
<1> HIDE DEF z
<1>4. Keeps(eng, e1) /\ e1.z = z
    BY <1>1, <1>2, TweakKeeps
<1> HIDE DEF e1
<1>5. AroundOK' /\ life' = life
    BY <1>1, <1>3, WritingNat DEF AroundOK, DebounceElapsed, sensorVars, envVars
<1>6. ASSUME zone.state = "arming", NEW f PROVE Keeps(eng, CompleteArm(e1, f))
    <2>1. Stored(e1) /\ e1.z.incident = None
        BY <1>1, <1>2, <1>4, <1>6 DEF Keeps, Sane, Linked
    <2> QED BY <2>1, CompleteArmSane DEF Keeps
<1> QED BY <1>3, <1>4, <1>5, <1>6, HandlerStep

LEMMA AutoRearmStep ==
    ASSUME ControlInv, AutoRearmFires
    PROVE  ControlInv'
<1>1. EngineOK /\ AroundOK /\ Sane(eng)
    BY ControlInvParts, EngSane
<1>2. PICK f \in Faults :
        Writing(f) /\ Becomes(OnAutoRearmElapsed(eng, ready, world, trouble, f))
    BY DEF AutoRearmFires
<1>3. AroundOK' /\ life' = life
    BY <1>1, <1>2, WritingNat DEF AroundOK, AutoRearmFires, sensorVars, envVars
<1>4. Keeps(eng, OnAutoRearmElapsed(eng, ready, world, trouble, f))
    BY <1>1, OnAutoRearmElapsedSane DEF Keeps
<1> QED BY <1>2, <1>3, <1>4, HandlerStep

\* Reload: the disarm of a vanished mode, then the pruning.
LEMMA ReloadConfigSane ==
    ASSUME NEW e, Sane(e), NEW k \in Configs, NEW r, NEW w, NEW f
    PROVE  Keeps(e, ReloadConfig(e, k, r, w, f))
<1> DEFINE e1 == [e EXCEPT !.cfg = k]
           e2 == IF e.z.mode \in Modes \ k.modes THEN DisarmLocked(e1, f) ELSE e1
           kept == e.cfg.sensors \cap k.sensors
           z == PruneSensors(e2.z, k.sensors)
           v == [s \in Sensors |-> IF s \in kept THEN e2.view[s] ELSE "unknown"]
           e3 == [e2 EXCEPT !.z = z, !.view = v]
           e4 == RefreshSensorValues(e3, r, w)
<1>1. Sane(e1) /\ e1.z = e.z
    BY DEF Sane, Stored, Typed, Engines
<1>2. ReloadConfig(e, k, r, w, f) = Persist(e4, f)
    BY DEF ReloadConfig
<1> HIDE DEF e1
<1>3. Sane(e2) /\ (Clocked(e.z) => Clocked(e2.z))
    BY <1>1, DisarmLockedSane
<1> HIDE DEF e2
<1>4. e2.z \in Zones /\ k.sensors \subseteq Sensors
    BY <1>3 DEF Sane, Stored, Typed, Engines, Configs
<1>5. /\ z \in Zones /\ z.incident = e2.z.incident /\ z.state = e2.z.state
      /\ z.timer = e2.z.timer /\ z.preAlarm = e2.z.preAlarm
    <2> DEFINE x == [e2.z EXCEPT !.bypassed = @ \cap k.sensors, !.openAtArm = @ \cap k.sensors]
               p == IF e2.z.pendingCause \in k.sensors THEN e2.z.pendingCause ELSE None
    <2>1. /\ x \in Zones /\ x.incident = e2.z.incident /\ x.state = e2.z.state
          /\ x.timer = e2.z.timer /\ x.preAlarm = e2.z.preAlarm
        BY <1>4 DEF Zones
    <2>2. p \in Sensors \cup {None}
        BY <1>4 DEF Zones
    <2>3. z = [x EXCEPT !.pendingCause = p]
        BY <1>4 DEF PruneSensors, Zones
    <2> HIDE DEF x, p, z
    <2> QED BY <2>1, <2>2, <2>3 DEF Zones
<1>6. v \in Views
    BY <1>3 DEF Views, Sane, Stored, Typed, Engines
<1> HIDE DEF z, v
<1>7. Sane(e3) /\ e3.z = z
    BY <1>3, <1>5, <1>6 DEF Sane, Stored, Typed, Engines, Linked
<1>8. Clocked(e2.z) => Clocked(e3.z)
    BY <1>5, <1>7 DEF Clocked
<1> HIDE DEF e3
<1>9. Stored(e4) /\ e4.z = e3.z
    BY <1>7, RefreshStored DEF Sane
<1> HIDE DEF e4
<1>10. Keeps(e, e4)
    BY <1>3, <1>7, <1>8, <1>9 DEF Keeps, Sane
<1> QED BY <1>2, <1>10, PersistKeeps

LEMMA ReloadStep ==
    ASSUME ControlInv, Reload
    PROVE  ControlInv'
<1>1. EngineOK /\ AroundOK /\ Sane(eng)
    BY ControlInvParts, EngSane
<1>2. PICK f \in Faults : Writing(f) /\ Becomes(ReloadConfig(eng, stored, ready, world, f))
    BY DEF Reload
<1>3. trouble' \in [Sensors -> SUBSET Troubles] /\ hold' \subseteq Sensors
    BY <1>1 DEF AroundOK, Reload
<1>4. AroundOK' /\ life' = life
    BY <1>1, <1>2, <1>3, WritingNat DEF AroundOK, Reload, envVars
<1>5. Keeps(eng, ReloadConfig(eng, stored, ready, world, f))
    BY <1>1, ReloadConfigSane DEF AroundOK
<1> QED BY <1>2, <1>4, <1>5, HandlerStep

LEMMA StopStep ==
    ASSUME ControlInv, Stop
    PROVE  ControlInv'
<1>1. EngineOK /\ AroundOK /\ Sane(eng)
    BY ControlInvParts, EngSane
<1>2. PICK f \in Faults : Writing(f) /\ Becomes(StopZone(eng, f))
    BY DEF Stop
<1> DEFINE e1 == Persist(eng, f)
           y == CancelTimers(e1.z)
           z == CancelAutoRearm(y)
<1>3. Sane(e1) /\ e1.z \in Zones
    BY <1>1, PersistSane DEF Sane, Stored, Typed, Engines
<1> HIDE DEF e1
<1>4. y \in Zones /\ y.incident = e1.z.incident /\ y.state = e1.z.state
    BY <1>3, CancelTimersZone
<1> HIDE DEF y
<1>5. z \in Zones /\ z.incident = e1.z.incident /\ z.state = e1.z.state
    BY <1>4 DEF Zones, CancelAutoRearm
<1> HIDE DEF z
<1>6. Sane(With(e1, z))
    BY <1>3, <1>5, WithStored DEF Sane, Linked
<1>7. StopZone(eng, f) = With(e1, z)
    BY DEF StopZone, z, y, e1
<1>8. AroundOK' /\ life' = "stopped"
    BY <1>1, <1>2, WritingNat DEF AroundOK, Stop, sensorVars
<1> QED BY <1>2, <1>6, <1>7, <1>8, EngineStep

\* The end of the process: a fresh zone, and a row that names no incident it
\* should not.
LEMMA FreshZoneOK ==
    /\ FreshZone \in Zones /\ FreshZone.incident = None /\ FreshZone.state = "disarmed"
    /\ FreshZone.timer = "none" /\ Linked(FreshZone) /\ Clocked(FreshZone)
    /\ Unlinked(RowOf(FreshZone)) /\ RowOf(FreshZone) \in Rows
<1>1. /\ FreshZone \in Zones /\ FreshZone.incident = None /\ FreshZone.state = "disarmed"
      /\ FreshZone.timer = "none"
    BY DEF FreshZone, Zones, States, TimerKinds
<1> QED BY <1>1, RowOfTyped DEF Linked, Clocked, Unlinked, RowOf

LEMMA ExitStep ==
    ASSUME ControlInv, Exit \/ CrashInSilence
    PROVE  ControlInv'
<1>1. EngineOK /\ AroundOK
    BY ControlInvParts
<1>2. /\ Memoryless
      /\ UNCHANGED <<cfg, row, horn, fired, world, stored, faults, writes>>
    BY DEF Exit, CrashInSilence
<1>3. AroundOK' /\ life' = "down"
    <2>1. trouble' \in [Sensors -> SUBSET Troubles] /\ restarts' \in Nat
        BY <1>1, <1>2 DEF AroundOK, Memoryless
    <2>2. life' = "down" /\ hold' = {} /\ events' = {} /\ ready' = FALSE
        BY <1>2 DEF Memoryless
    <2> QED BY <1>1, <1>2, <2>1, <2>2 DEF AroundOK
<1>4. /\ db' \in Seq(IncidentRows) /\ Len(db') = Len(db)
      /\ hushed' \subseteq 1..MaxIncidents
    <2>1. CASE Exit
        BY <1>1, <2>1 DEF Exit, EngineOK
    <2>2. CASE CrashInSilence
        <3>1. zone.incident # None /\ zone.incident.id # 0
            BY <2>2 DEF CrashInSilence
        <3>2. zone.incident.id \in 1..Len(db)
            BY <1>1, <3>1 DEF EngineOK, Zones, Incidents
        <3>3. db \in Seq(IncidentRows) /\ Len(db) <= MaxIncidents
            BY <1>1 DEF EngineOK
        <3>4. db' = [db EXCEPT ![zone.incident.id].silenced = TRUE]
            BY <2>2 DEF CrashInSilence
        <3>5. hushed' = hushed \cup {zone.incident.id}
            BY <2>2 DEF CrashInSilence
        <3>6. zone.incident.id \in 1..MaxIncidents
            BY <3>2, <3>3, BoundAssumption
        <3> QED BY <1>1, <3>2, <3>3, <3>4, <3>5, <3>6, RowUpdateTyped DEF EngineOK
    <2> QED BY <1>2, <2>1, <2>2
<1>5. EngineOK'
    <2>1. zone' = FreshZone /\ view' \in Views
        BY <1>2 DEF Memoryless, Views
    <2>2. Len(db') <= MaxIncidents
        BY <1>1, <1>4 DEF EngineOK
    <2> QED BY <1>1, <1>2, <1>4, <2>1, <2>2, FreshZoneOK DEF EngineOK
<1> QED BY <1>3, <1>5 DEF ControlInv, EngineOK, AroundOK, TypeOK, IncidentIffTriggered,
                          TimerDiscipline, Linked

LEMMA StartStep ==
    ASSUME ControlInv, Start
    PROVE  ControlInv'
<1>1. EngineOK /\ AroundOK /\ Sane(eng)
    BY ControlInvParts, EngSane
<1>2. PICK readable \in BOOLEAN, plausible \in BOOLEAN, elapsed \in BOOLEAN, rdy \in BOOLEAN,
           f \in Faults :
        /\ Writing(f) /\ ready' = rdy
        /\ Becomes(StartZone(eng, readable, plausible, elapsed, rdy, f))
    BY DEF Start
<1> DEFINE e1 == [eng EXCEPT !.cfg = stored]
           e2 == RefreshSensorValues(e1, rdy, world)
           c == RestoreZone(e2, readable, plausible, elapsed, rdy, world,
                            [s \in Sensors |-> {}], f)
<1>3. Stored(e1)
    BY <1>1 DEF AroundOK, Sane, Stored, Typed, Engines
<1>4. StartZone(eng, readable, plausible, elapsed, rdy, f) = c
    BY DEF StartZone
<1> HIDE DEF e1
<1>5. Stored(e2)
    BY <1>3, RefreshStored
<1> HIDE DEF e2
<1>6. Sane(c) /\ Clocked(c.z)
    BY <1>5, RestoreZoneSane
<1>7. AroundOK'
    BY <1>1, <1>2, WritingNat DEF AroundOK, Start, sensorVars
<1> HIDE DEF c
<1> QED BY <1>2, <1>4, <1>6, <1>7, EngineStep

\* Steps that leave the engine alone.
LEMMA QuietStep ==
    ASSUME ControlInv, AroundOK', UNCHANGED <<life, zone, cfg, view, row, db, fired, hushed>>,
           horn' \in BOOLEAN
    PROVE  ControlInv'
<1>1. EngineOK /\ (life = "up" => Clocked(zone))
    BY ControlInvParts
<1>2. EngineOK'
    BY <1>1 DEF EngineOK
<1> QED BY <1>1, <1>2 DEF ControlInv, EngineOK, AroundOK, TypeOK, IncidentIffTriggered,
                          TimerDiscipline, Linked, Clocked

LEMMA SensorHealthStep ==
    ASSUME ControlInv, NEW s \in Sensors, NEW flags \in SUBSET (Conditions \ {"unreachable"}),
           SetSensorHealth(s, flags)
    PROVE  ControlInv'
<1>1. EngineOK /\ AroundOK
    BY ControlInvParts
<1>2. trouble' \in [Sensors -> SUBSET Troubles]
    BY <1>1, BoundAssumption DEF AroundOK, SetSensorHealth
<1>3. UNCHANGED <<life, engVars, hold, envVars, stored, countVars>>
    BY DEF SetSensorHealth
<1>4. AroundOK'
    BY <1>1, <1>2, <1>3 DEF AroundOK, envVars, countVars
<1> QED BY <1>1, <1>3, <1>4, QuietStep DEF engVars, EngineOK

LEMMA CentralRestoredStep ==
    ASSUME ControlInv, CentralRestored
    PROVE  ControlInv'
<1>1. EngineOK /\ AroundOK
    BY ControlInvParts
<1>2. trouble' \in [Sensors -> SUBSET Troubles]
    BY <1>1 DEF AroundOK, CentralRestored
<1>3. AroundOK'
    BY <1>1, <1>2 DEF AroundOK, CentralRestored, envVars, countVars
<1> QED BY <1>1, <1>3, QuietStep DEF CentralRestored, engVars, EngineOK

LEMMA EnvironmentStep ==
    ASSUME ControlInv, Environment
    PROVE  ControlInv'
<1>1. EngineOK /\ AroundOK
    BY ControlInvParts
<1>2. ASSUME NEW s \in Sensors, SensorChanges(s) PROVE ControlInv'
    <2>1. world' \in [Sensors -> BOOLEAN] /\ events' \subseteq Sensors
        BY <1>1, <1>2 DEF AroundOK, SensorChanges
    <2>2. AroundOK'
        BY <1>1, <1>2, <2>1 DEF AroundOK, SensorChanges, sensorVars, countVars
    <2> QED BY <1>1, <1>2, <2>2, QuietStep DEF SensorChanges, engVars, EngineOK
<1>3. CASE ModelPopulated
    <2>1. AroundOK'
        BY <1>1, <1>3 DEF AroundOK, ModelPopulated, sensorVars, countVars
    <2> QED BY <1>1, <1>3, <2>1, QuietStep DEF ModelPopulated, engVars, EngineOK
<1>4. CASE HornTimesOut
    <2>1. AroundOK'
        BY <1>1, <1>4 DEF AroundOK, HornTimesOut, sensorVars, envVars, countVars
    <2> QED BY <1>1, <1>4, <2>1, QuietStep DEF HornTimesOut
<1>5. ASSUME NEW k \in Configs, WriteConfig(k) PROVE ControlInv'
    <2>1. AroundOK'
        BY <1>1, <1>5 DEF AroundOK, WriteConfig, sensorVars, envVars
    <2> QED BY <1>1, <1>5, <2>1, QuietStep DEF WriteConfig, engVars, EngineOK
<1> QED BY <1>2, <1>3, <1>4, <1>5 DEF Environment

LEMMA NextStep ==
    ASSUME ControlInv, Next
    PROVE  ControlInv'
<1>1. CASE ArmVerb
    BY <1>1, ArmStep DEF ArmVerb
<1>2. CASE Disarm
    BY <1>2, DisarmStep
<1>3. CASE OtherVerb
    BY <1>3, SilenceStep, PanicTriggerStep, WalkTestStep DEF OtherVerb
<1>4. ASSUME NEW s \in Sensors, SensorEvent(s) PROVE ControlInv'
    BY <1>4, AlwaysOnEventStep, ClearEventStep, ActivityWhileDisarmedStep,
       ActivationEventStep, IgnoredEventStep DEF SensorEvent
<1>5. CASE SensorStatus
    BY <1>5, AvailabilityStep, SensorHealthStep, CentralLostStep, CentralRestoredStep,
       ReevaluateSensorsStep DEF SensorStatus
<1>6. CASE Timer
    BY <1>6, StateTimerStep, DebounceStep, AutoRearmStep, HoldElapsedStep DEF Timer
<1>7. CASE Process
    BY <1>7, ReloadStep, StopStep, ExitStep, StartStep DEF Process
<1>8. CASE Environment
    BY <1>8, EnvironmentStep
<1> QED BY <1>1, <1>2, <1>3, <1>4, <1>5, <1>6, <1>7, <1>8 DEF Next

LEMMA InitControlInv ==
    ASSUME Init
    PROVE  ControlInv
<1>1. /\ zone = FreshZone /\ row = RowOf(FreshZone) /\ db = <<>> /\ hushed = {}
      /\ life = "down" /\ horn = FALSE
    BY DEF Init
<1>2. stored \in Configs /\ cfg \in Configs /\ view \in Views /\ fired \in [Ids -> Nat]
    BY DEF Init, Configs, Views
<1>3. AroundOK
    BY <1>1, <1>2 DEF Init, AroundOK
<1>4. db \in Seq(IncidentRows) /\ Len(db) = 0 /\ Len(db) <= MaxIncidents
    BY <1>1, BoundAssumption
<1>5. EngineOK
    BY <1>1, <1>2, <1>4, FreshZoneOK DEF EngineOK
<1> QED BY <1>1, <1>3, <1>5, ControlInvParts

\* The zone machine keeps its control invariant: for every configuration, every
\* interleaving of verbs, events, timers, reloads, failing writes and restarts.
THEOREM ControlInvariant == Spec => []ControlInv
<1>1. Init => ControlInv
    BY InitControlInv
<1>2. ControlInv /\ [Next]_vars => ControlInv'
    <2>1. ASSUME ControlInv, UNCHANGED vars PROVE ControlInv'
        BY <2>1 DEF ControlInv, TypeOK, IncidentIffTriggered, TimerDiscipline, Unlinked,
                    vars, engVars, sensorVars, envVars, countVars
    <2> QED BY <2>1, NextStep
<1> QED BY <1>1, <1>2, PTL DEF Spec

\* Every variable keeps its shape, and a zone's incident names a row that exists
\* (openIncident, restoreZone).
THEOREM TypeCorrect == Spec => []TypeOK
<1>1. ControlInv => TypeOK
    BY DEF ControlInv
<1> QED BY <1>1, ControlInvariant, PTL

\* A zone is triggered exactly while it holds an incident, also over restarts and
\* with failing store writes (trigger, alwaysOnFire, closeIncident, restoreZone).
THEOREM IncidentLifecycle == Spec => []IncidentIffTriggered
<1>1. ControlInv => IncidentIffTriggered
    BY DEF ControlInv
<1> QED BY <1>1, ControlInvariant, PTL

\* In a running engine the state timer is the one the state calls for, so no
\* state that must end is left without its countdown (scheduleStateTimer).
THEOREM TimersMatch == Spec => []TimerDiscipline
<1>1. ControlInv => TimerDiscipline
    BY DEF ControlInv
<1> QED BY <1>1, ControlInvariant, PTL

=============================================================================
