--------------------------- MODULE AlarmZoneModes ---------------------------
(***************************************************************************)
(* The arm-state machine behind the handlers of AlarmZone, and what follows *)
(* from it: every handler makes one of eight moves on the zone and leaves    *)
(* the state row either as it was or as the zone now is.  The properties of  *)
(* mode, pre-trigger tuple, auto-rearm, references and state row are         *)
(* preserved by the moves, whichever handler makes them.                     *)
(***************************************************************************)
EXTENDS AlarmZoneProofs

-----------------------------------------------------------------------------
\* The moves, from zone z to zone y under configuration k.

\* The state stays: a silence, a re-trigger cycle, a refused arm, a pruned list.
Rests(z, y) ==
    /\ y.state = z.state /\ y.mode = z.mode
    /\ y.preState = z.preState /\ y.preMode = z.preMode
    /\ y.timer \in {z.timer, "none", "trigger_time"}
    /\ y.bypassed \subseteq z.bypassed /\ y.openAtArm \subseteq z.openAtArm
    /\ y.pendingCause \in {z.pendingCause, None}
    /\ y.rearm => z.rearm \/ z.state = "disarmed"

\* beginArm, with or without exit delay.
Arms(k, z, y) ==
    /\ z.state \notin {"pending", "triggered"}
    /\ y.state \in {"arming", "armed"} /\ y.mode \in k.modes
    /\ y.bypassed \subseteq k.sensors /\ y.openAtArm \subseteq k.sensors
    /\ y.pendingCause = None
    /\ y.preState = z.preState /\ y.preMode = z.preMode
    /\ y.timer \in {"exit_delay", "none"} /\ ~y.rearm

\* The end of the exit delay.
Settles(k, z, y) ==
    /\ z.state = "arming" /\ y.state = "armed" /\ y.mode = z.mode
    /\ y.bypassed = z.bypassed /\ y.openAtArm \subseteq k.sensors
    /\ y.pendingCause = z.pendingCause
    /\ y.preState = z.preState /\ y.preMode = z.preMode
    /\ y.timer = "none" /\ y.rearm = z.rearm

\* An opening that starts the entry delay.
Pends(k, z, y) ==
    /\ z.state = "armed" /\ y.state = "pending" /\ y.mode = z.mode
    /\ y.bypassed = z.bypassed /\ y.openAtArm \subseteq z.openAtArm
    /\ y.pendingCause \in k.sensors
    /\ y.preState = z.preState /\ y.preMode = z.preMode
    /\ y.timer = "entry_delay" /\ y.rearm = z.rearm

\* trigger: an intrusion alarm of an armed zone.
Alarms(z, y) ==
    /\ ArmedSide(z.state) /\ y.state = "triggered" /\ y.mode = z.mode
    /\ y.bypassed = z.bypassed /\ y.openAtArm \subseteq z.openAtArm /\ y.pendingCause = None
    /\ y.preState = z.preState /\ y.preMode = z.preMode
    /\ y.rearm = z.rearm

\* alwaysOnFire: a hazard or panic interrupts the state and remembers it.
Interrupts(z, y) ==
    /\ z.state # "triggered" /\ y.state = "triggered" /\ y.mode = z.mode
    /\ y.bypassed = z.bypassed /\ y.openAtArm = z.openAtArm
    /\ y.pendingCause = z.pendingCause
    /\ y.preState = z.state /\ y.preMode = z.mode
    /\ y.timer = "trigger_time" /\ y.rearm = z.rearm

\* Disarm, and the post-trigger policy "disarm".
Disarms(y) ==
    /\ y.state = "disarmed" /\ y.mode = Off /\ y.bypassed = {} /\ y.openAtArm = {}
    /\ y.pendingCause = None /\ y.preState = None /\ y.preMode = None
    /\ y.timer = "none"

\* Back to armed after an alarm: to the mode it interrupted.
Returns(k, z, y) ==
    /\ z.state = "triggered" /\ y.state = "armed"
    /\ \/ z.preMode \in Modes /\ y.mode = z.preMode
       \/ z.preState = None /\ y.mode = z.mode
    /\ y.bypassed = z.bypassed /\ y.openAtArm \subseteq k.sensors
    /\ y.pendingCause = z.pendingCause
    /\ y.preState = None /\ y.preMode = None
    /\ y.timer = "none" /\ y.rearm = z.rearm

Moves(k, z, y) ==
    \/ Rests(z, y) \/ Arms(k, z, y) \/ Settles(k, z, y) \/ Pends(k, z, y)
    \/ Alarms(z, y) \/ Interrupts(z, y) \/ Disarms(y) \/ Returns(k, z, y)

-----------------------------------------------------------------------------
\* What the moves preserve; x is a zone or a state row.

\* A disarmed zone has no mode and no bypasses; the pre-trigger tuple exists only
\* while its always-on alarm runs, and never during a pre-alarm; an auto-rearm
\* waits only behind a zone that is off.
Moded(x) ==
    /\ x.state = "disarmed" => x.mode = Off /\ x.bypassed = {}
    /\ x.preState = "disarmed" => x.preMode = Off
    /\ x.preState = None => x.preMode = None
    /\ x.preState # "triggered"
    /\ x.state # "triggered" \/ x.timer = "pre_alarm" => x.preState = None /\ x.preMode = None
    /\ x.rearm => \/ x.state = "disarmed"
                  \/ x.state = "triggered" /\ x.preState = "disarmed"

\* ModeMatchesState, on a zone or a row, for the states that have a mode and the
\* state an alarm interrupted.
Matched(x) ==
    /\ ArmedSide(x.state) => x.mode \in Modes
    /\ x.state = "triggered" /\ x.mode = Off => x.preState = "disarmed" /\ x.preMode = Off
    /\ ArmedSide(x.preState) => x.preMode \in Modes

\* What a zone refers to is configured.
Refers(k, z) ==
    /\ z.bypassed \subseteq k.sensors /\ z.openAtArm \subseteq k.sensors
    /\ z.pendingCause \in k.sensors \cup {None}
    /\ z.mode \in k.modes \cup {Off}
    /\ z.preMode \in {z.mode, None}

LEMMA MovesModed ==
    ASSUME NEW k \in Configs, NEW z \in Zones, NEW y \in Zones, Moves(k, z, y), Moded(z)
    PROVE  Moded(y)
<1>0. /\ z.mode \in Modes \cup {Off} /\ y.mode \in Modes \cup {Off} /\ z.state \in States
      /\ k.modes \subseteq Modes /\ None \notin Modes \cup States /\ Off \notin Modes \cup {None}
    BY NoneAssumption DEF Zones, Configs
<1>1. CASE Rests(z, y)
    BY <1>1 DEF Rests, Moded
<1>2. CASE Arms(k, z, y)
    BY <1>0, <1>2 DEF Arms, Moded
<1>3. CASE Settles(k, z, y)
    BY <1>3 DEF Settles, Moded
<1>4. CASE Pends(k, z, y)
    BY <1>4 DEF Pends, Moded
<1>5. CASE Alarms(z, y)
    BY <1>0, <1>5 DEF Alarms, Moded, ArmedSide
<1>6. CASE Interrupts(z, y)
    BY <1>0, <1>6 DEF Interrupts, Moded
<1>7. CASE Disarms(y)
    BY <1>0, <1>7 DEF Disarms, Moded, States
<1>8. CASE Returns(k, z, y)
    BY <1>0, <1>8 DEF Returns, Moded, States
<1> QED BY <1>1, <1>2, <1>3, <1>4, <1>5, <1>6, <1>7, <1>8 DEF Moves

LEMMA MovesMatched ==
    ASSUME NEW k \in Configs, NEW z \in Zones, NEW y \in Zones, Moves(k, z, y), Moded(z),
           Matched(z)
    PROVE  Matched(y)
<1>0. /\ z.mode \in Modes \cup {Off} /\ z.state \in States
      /\ k.modes \subseteq Modes /\ None \notin Modes \cup States /\ Off \notin Modes \cup {None}
    BY NoneAssumption DEF Zones, Configs
<1>1. CASE Rests(z, y)
    BY <1>1 DEF Rests, Matched
<1>2. CASE Arms(k, z, y)
    BY <1>0, <1>2 DEF Arms, Matched, Moded
<1>3. CASE Settles(k, z, y)
    BY <1>3 DEF Settles, Matched, ArmedSide
<1>4. CASE Pends(k, z, y)
    BY <1>4 DEF Pends, Matched, ArmedSide
<1>5. CASE Alarms(z, y)
    BY <1>0, <1>5 DEF Alarms, Matched, ArmedSide
<1>6. CASE Interrupts(z, y)
    BY <1>0, <1>6 DEF Interrupts, Matched, ArmedSide, States
<1>7. CASE Disarms(y)
    BY <1>0, <1>7 DEF Disarms, Matched, ArmedSide, States
<1>8. CASE Returns(k, z, y)
    <2>1. y.mode \in Modes
        BY <1>0, <1>8 DEF Returns, Matched, States
    <2> QED BY <1>0, <1>8, <2>1 DEF Returns, Matched, ArmedSide, States
<1> QED BY <1>1, <1>2, <1>3, <1>4, <1>5, <1>6, <1>7, <1>8 DEF Moves

LEMMA MovesRefers ==
    ASSUME NEW k \in Configs, NEW z \in Zones, NEW y \in Zones, Moves(k, z, y), Moded(z),
           Refers(k, z)
    PROVE  Refers(k, y)
<1>0. /\ k.modes \subseteq Modes /\ Off \notin Modes \cup {None} /\ None \notin Modes \cup States
    BY NoneAssumption DEF Zones, Configs
<1>1. CASE Rests(z, y)
    BY <1>1 DEF Rests, Refers
<1>2. CASE Arms(k, z, y)
    BY <1>0, <1>2 DEF Arms, Refers, Moded
<1>3. CASE Settles(k, z, y)
    BY <1>3 DEF Settles, Refers
<1>4. CASE Pends(k, z, y)
    BY <1>4 DEF Pends, Refers
<1>5. CASE Alarms(z, y)
    BY <1>5 DEF Alarms, Refers
<1>6. CASE Interrupts(z, y)
    BY <1>6 DEF Interrupts, Refers
<1>7. CASE Disarms(y)
    BY <1>7 DEF Disarms, Refers
<1>8. CASE Returns(k, z, y)
    BY <1>0, <1>8 DEF Returns, Refers
<1> QED BY <1>1, <1>2, <1>3, <1>4, <1>5, <1>6, <1>7, <1>8 DEF Moves

-----------------------------------------------------------------------------
\* The contract of a handler.

\* The row's incident id of a zone (persist).
IncidentId(z) == IF z.incident = None THEN 0 ELSE z.incident.id

\* Two zones a restart could not tell apart, but for their countdown.
Same(z, y) ==
    /\ y.state = z.state /\ y.mode = z.mode /\ y.bypassed = z.bypassed
    /\ y.openAtArm = z.openAtArm /\ y.pendingCause = z.pendingCause
    /\ y.preState = z.preState /\ y.preMode = z.preMode /\ y.preAlarm = z.preAlarm
    /\ IncidentId(y) = IncidentId(z)

\* The row says what a restart needs, but for the countdown.
Agrees(r, z) ==
    /\ r.state = z.state /\ r.mode = z.mode /\ r.bypassed = z.bypassed
    /\ r.openAtArm = z.openAtArm /\ r.pendingCause = z.pendingCause
    /\ r.preState = z.preState /\ r.preMode = z.preMode /\ r.preAlarm = z.preAlarm
    /\ r.incident = IncidentId(z)

\* From engine e to engine c: the row is written, or its write failed, or there
\* was nothing to write.
Saved(e, c, f) ==
    \/ c.row = RowOf(c.z)
    \/ c.row = e.row /\ ("row" \in f \/ Same(e.z, c.z))

Punctual(e, c, f) ==
    "row" \notin f /\ e.row.timer = e.z.timer => c.row.timer = c.z.timer

Does(e, c, f) ==
    /\ c.cfg = e.cfg
    /\ Moves(e.cfg, e.z, c.z)
    /\ Saved(e, c, f)

LEMMA RowOfFields ==
    ASSUME NEW z
    PROVE  /\ Moded(z) => Moded(RowOf(z))
           /\ Matched(z) => Matched(RowOf(z))
           /\ Agrees(RowOf(z), z)
           /\ RowOf(z).timer = z.timer
BY DEF RowOf, Moded, Matched, Agrees, IncidentId

LEMMA DoesKeeps ==
    ASSUME NEW e, NEW c, NEW f, Typed(e), c.z \in Zones, Does(e, c, f), Moded(e.z),
           Moded(e.row)
    PROVE  /\ Moded(c.z) /\ Moded(c.row)
           /\ Matched(e.z) /\ Matched(e.row) => Matched(c.z) /\ Matched(c.row)
           /\ "row" \notin f /\ Agrees(e.row, e.z) => Agrees(c.row, c.z)
           /\ Refers(e.cfg, e.z) => Refers(c.cfg, c.z)
<1>1. e.cfg \in Configs /\ e.z \in Zones /\ c.z \in Zones
    BY DEF Typed, Engines
<1>2. Moded(c.z) /\ (Matched(e.z) => Matched(c.z))
    BY <1>1, MovesModed, MovesMatched DEF Does
<1>3. Refers(e.cfg, e.z) => Refers(c.cfg, c.z)
    BY <1>1, MovesRefers DEF Does
<1>4. CASE c.row = RowOf(c.z)
    BY <1>2, <1>3, <1>4, RowOfFields
<1>5. CASE c.row = e.row /\ ("row" \in f \/ Same(e.z, c.z))
    BY <1>2, <1>3, <1>5 DEF Same, Agrees
<1> QED BY <1>4, <1>5 DEF Does, Saved

\* A handler that ends with persist, and one that fires after it.
LEMMA PersistDoes ==
    ASSUME NEW e, NEW b, Typed(b), b.cfg = e.cfg, b.row \in {e.row, RowOf(b.z)},
           Moves(e.cfg, e.z, b.z), NEW f
    PROVE  Does(e, Persist(b, f), f) /\ Punctual(e, Persist(b, f), f)
<1> DEFINE c == Persist(b, f)
<1>1. c.z = b.z /\ c.cfg = e.cfg
    BY PersistTyped
<1>2. c.row = IF "row" \in f THEN b.row ELSE RowOf(b.z)
    BY DEF Persist, Typed, Engines
<1> HIDE DEF c
<1>3. Does(e, c, f) /\ Punctual(e, c, f)
    BY <1>1, <1>2, RowOfFields DEF Does, Saved, Punctual
<1> QED BY <1>3 DEF c

LEMMA FireDoes ==
    ASSUME NEW e, NEW b, Typed(b), NEW f, Does(e, b, f), Punctual(e, b, f),
           NEW loud \in BOOLEAN
    PROVE  Does(e, FireCycle(b, loud), f) /\ Punctual(e, FireCycle(b, loud), f)
<1> DEFINE c == FireCycle(b, loud)
<1>1. c.z = b.z /\ c.cfg = b.cfg /\ c.row = b.row
    BY DEF FireCycle, Typed, Engines
<1> HIDE DEF c
<1>2. Does(e, c, f) /\ Punctual(e, c, f)
    BY <1>1 DEF Does, Saved, Punctual
<1> QED BY <1>2 DEF c

\* A handler that goes on from an engine with the same zone in all but the fields
\* no move is about.
Alike(e, b) ==
    /\ b.cfg = e.cfg /\ b.row = e.row
    /\ Same(e.z, b.z) /\ b.z.timer = e.z.timer /\ b.z.rearm = e.z.rearm

LEMMA AlikeDoes ==
    ASSUME NEW e, NEW b, Alike(e, b), NEW c, NEW f, Does(b, c, f)
    PROVE  Does(e, c, f) /\ (Punctual(b, c, f) => Punctual(e, c, f))
<1>1. Moves(e.cfg, e.z, c.z)
    <2>1. /\ b.cfg = e.cfg /\ b.z.state = e.z.state /\ b.z.mode = e.z.mode
          /\ b.z.bypassed = e.z.bypassed /\ b.z.openAtArm = e.z.openAtArm
          /\ b.z.pendingCause = e.z.pendingCause /\ b.z.preState = e.z.preState
          /\ b.z.preMode = e.z.preMode /\ b.z.timer = e.z.timer /\ b.z.rearm = e.z.rearm
        BY DEF Alike, Same
    <2> QED BY <2>1 DEF Does, Moves, Rests, Arms, Settles, Pends, Alarms, Interrupts,
                        Disarms, Returns
<1>2. Saved(e, c, f) /\ (Punctual(b, c, f) => Punctual(e, c, f))
    BY DEF Alike, Does, Saved, Punctual, Same
<1> QED BY <1>1, <1>2 DEF Does, Alike

-----------------------------------------------------------------------------
\* The handlers.

\* Every member that is active in v is in the baseline of c or bypassed.
Based(v, c) ==
    \A s \in c.cfg.sensors :
        InMode(s, c.z.mode) /\ v[s] = "active" => s \in c.z.openAtArm \cup c.z.bypassed

LEMMA CompleteArmFields ==
    ASSUME NEW e, Stored(e), e.z.incident = None, NEW f
    PROVE  \E b : /\ CompleteArm(e, f) = Persist(b, f)
                  /\ Stored(b) /\ b.cfg = e.cfg /\ b.row = e.row /\ b.view = e.view
                  /\ b.z.state = "armed" /\ b.z.mode = e.z.mode
                  /\ b.z.bypassed = e.z.bypassed
                  /\ b.z.openAtArm = {s \in e.cfg.sensors : /\ InMode(s, e.z.mode)
                                                            /\ s \notin e.z.bypassed
                                                            /\ e.view[s] = "active"}
                  /\ b.z.pendingCause = e.z.pendingCause
                  /\ b.z.preState = e.z.preState /\ b.z.preMode = e.z.preMode
                  /\ b.z.timer = "none" /\ b.z.rearm = e.z.rearm
                  /\ b.z.incident = None
<1> DEFINE x == CancelTimers(e.z)
           z == [x EXCEPT !.state = "armed"]
           B == {s \in e.cfg.sensors : /\ InMode(s, e.z.mode)
                                       /\ s \notin e.z.bypassed
                                       /\ e.view[s] = "active"}
           y == [z EXCEPT !.openAtArm = B]
           b == With(e, y)
<1>1. e.z \in Zones /\ e.cfg \in Configs
    BY DEF Stored, Typed, Engines
<1>2. /\ x \in Zones /\ x.mode = e.z.mode /\ x.bypassed = e.z.bypassed
      /\ x.pendingCause = e.z.pendingCause /\ x.preState = e.z.preState
      /\ x.preMode = e.z.preMode /\ x.timer = "none" /\ x.rearm = e.z.rearm
      /\ x.incident = None
    <2>1. x \in Zones /\ x.timer = "none" /\ x.incident = None
        BY <1>1, CancelTimersZone
    <2> QED BY <1>1, <2>1 DEF CancelTimers, Zones
<1> HIDE DEF x
<1>3. /\ z \in Zones /\ z.mode = e.z.mode /\ z.bypassed = e.z.bypassed
      /\ z.pendingCause = e.z.pendingCause /\ z.preState = e.z.preState
      /\ z.preMode = e.z.preMode /\ z.timer = "none" /\ z.rearm = e.z.rearm
      /\ z.incident = None /\ z.state = "armed"
    BY <1>2 DEF Zones, States
<1>4. B \in SUBSET Sensors
    BY <1>1 DEF Configs
<1>5. RecaptureOpenBaseline(With(e, z)) = b
    <2> HIDE DEF z
    <2>1. With(e, z).z = z /\ With(e, z).cfg = e.cfg /\ With(e, z).view = e.view
        BY <1>3, WithTyped DEF Stored
    <2>2. RecaptureOpenBaseline(With(e, z)) = With(With(e, z), y)
        BY <1>3, <2>1 DEF RecaptureOpenBaseline
    <2> QED BY <2>2 DEF With, Stored, Typed, Engines
<1> HIDE DEF B, z
<1>6. /\ y \in Zones /\ y.mode = e.z.mode /\ y.bypassed = e.z.bypassed
      /\ y.pendingCause = e.z.pendingCause /\ y.preState = e.z.preState
      /\ y.preMode = e.z.preMode /\ y.timer = "none" /\ y.rearm = e.z.rearm
      /\ y.incident = None /\ y.state = "armed" /\ y.openAtArm = B
    BY <1>3, <1>4 DEF Zones
<1> HIDE DEF y
<1>7. Stored(b) /\ b.z = y /\ b.cfg = e.cfg /\ b.row = e.row /\ b.view = e.view
    BY <1>6, WithStored, WithTyped DEF Stored
<1>8. CompleteArm(e, f) = Persist(b, f)
    BY <1>5 DEF CompleteArm, z, x
<1> HIDE DEF b
<1> QED BY <1>6, <1>7, <1>8 DEF B

LEMMA CancelAutoRearmZone ==
    ASSUME NEW z \in Zones
    PROVE  CancelAutoRearm(z) \in Zones
BY DEF CancelAutoRearm, Zones

LEMMA BeginArmDoes ==
    ASSUME NEW e, Sane(e), e.z.state \notin {"pending", "triggered"}, NEW m \in e.cfg.modes,
           NEW bypass, NEW force, NEW skip, NEW r, NEW w, NEW tr, NEW f
    PROVE  LET c == BeginArm(e, m, bypass, force, skip, r, w, tr, f)
           IN /\ Does(e, c, f) /\ Punctual(e, c, f)
              /\ Rests(e.z, c.z) \/ Arms(e.cfg, e.z, c.z)
<1> DEFINE z1 == [CancelAutoRearm(e.z) EXCEPT !.walk = FALSE]
           e1 == RefreshSensorValues(With(e, z1), r, w)
           blocking == Blocking(e1, tr, m)
           excluded == (bypass \cap e.cfg.sensors) \cup AutoBypass(blocking)
           remaining == blocking \ excluded
           bp == excluded \cup remaining
           x == CancelTimers(e1.z)
           z2 == [x EXCEPT !.bypassed = bp, !.mode = m, !.pendingCause = None,
                           !.openAtArm = {}]
           z3 == [z2 EXCEPT !.state = "arming", !.timer = "exit_delay"]
           c == BeginArm(e, m, bypass, force, skip, r, w, tr, f)
<1>0. e.z \in Zones /\ e.cfg \in Configs /\ m \in Modes /\ Stored(e) /\ e.z.incident = None
    BY DEF Sane, Linked, Stored, Typed, Engines, Configs
<1>1. z1 \in Zones /\ Same(e.z, z1) /\ z1.timer = e.z.timer /\ ~z1.rearm /\ z1.incident = None
    <2>1. CancelAutoRearm(e.z) \in Zones
        BY <1>0, CancelAutoRearmZone
    <2>2. z1 \in Zones
        BY <2>1 DEF Zones
    <2> QED BY <1>0, <2>2 DEF CancelAutoRearm, Zones, Same, IncidentId
<1> HIDE DEF z1
<1>2. Stored(e1) /\ e1.z = z1 /\ e1.cfg = e.cfg /\ e1.row = e.row
    BY <1>0, <1>1, WithStored, RefreshStored
<1>3. bp \subseteq e.cfg.sensors
    BY <1>2 DEF Blocking, AutoBypass
<1> HIDE DEF e1, bp
<1>4. /\ x \in Zones /\ x.state = e.z.state /\ x.timer = "none" /\ x.incident = None
      /\ x.preState = e.z.preState /\ x.preMode = e.z.preMode /\ ~x.rearm
    <2>1. x \in Zones /\ x.timer = "none" /\ x.incident = None /\ x.state = e.z.state
        BY <1>1, <1>2, CancelTimersZone DEF Same
    <2> QED BY <1>1, <1>2, <2>1 DEF CancelTimers, Zones, Same
<1>5. z2 = [CancelTimers(e1.z) EXCEPT !.bypassed = bp, !.mode = m, !.pendingCause = None,
                                      !.openAtArm = {}]
    OBVIOUS
<1> HIDE DEF x
<1>6. /\ z2 \in Zones /\ z2.mode = m /\ z2.bypassed = bp /\ z2.openAtArm = {}
      /\ z2.pendingCause = None /\ z2.timer = "none" /\ z2.incident = None
      /\ z2.preState = e.z.preState /\ z2.preMode = e.z.preMode /\ ~z2.rearm
    <2>1. z2 \in Zones
        BY <1>0, <1>3, <1>4 DEF Zones, Configs
    <2> QED BY <1>4, <2>1 DEF Zones
<1> HIDE DEF z2
<1>7. c \in {e1, Persist(With(e1, z3), f), CompleteArm(With(e1, z2), f)}
    BY <1>5 DEF BeginArm, z1, e1, z3, bp
<1>8. Does(e, e1, f) /\ Punctual(e, e1, f) /\ Rests(e.z, e1.z)
    <2>1. Rests(e.z, e1.z)
        BY <1>1, <1>2 DEF Rests, Same
    <2> QED BY <1>1, <1>2, <2>1 DEF Does, Moves, Saved, Punctual
<1>9. /\ Does(e, Persist(With(e1, z3), f), f) /\ Punctual(e, Persist(With(e1, z3), f), f)
      /\ Arms(e.cfg, e.z, Persist(With(e1, z3), f).z)
    <2>1. /\ z3 \in Zones /\ z3.incident = None /\ z3.state = "arming"
          /\ z3.timer = "exit_delay" /\ z3.mode = m /\ z3.bypassed = bp /\ z3.openAtArm = {}
          /\ z3.pendingCause = None /\ z3.preState = e.z.preState
          /\ z3.preMode = e.z.preMode /\ ~z3.rearm
        <3>1. z3 \in Zones
            BY <1>6 DEF Zones, States, TimerKinds
        <3> QED BY <1>6, <3>1 DEF Zones
    <2> HIDE DEF z3
    <2>2. /\ Typed(With(e1, z3)) /\ With(e1, z3).z = z3 /\ With(e1, z3).cfg = e.cfg
          /\ With(e1, z3).row = e.row
        BY <1>1, <1>2, <2>1, WithTyped DEF Stored
    <2>3. Arms(e.cfg, e.z, z3)
        BY <1>3, <2>1 DEF Arms
    <2> QED BY <2>2, <2>3, PersistDoes, PersistTyped DEF Moves
<1>10. /\ Does(e, CompleteArm(With(e1, z2), f), f)
       /\ Arms(e.cfg, e.z, CompleteArm(With(e1, z2), f).z)
       /\ Punctual(e, CompleteArm(With(e1, z2), f), f)
    <2> DEFINE e2 == With(e1, z2)
    <2>1. Stored(e2) /\ e2.z = z2 /\ e2.cfg = e.cfg /\ e2.row = e.row
        BY <1>1, <1>2, <1>6, WithStored
    <2> HIDE DEF e2
    <2>2. PICK b : /\ CompleteArm(e2, f) = Persist(b, f)
                   /\ Stored(b) /\ b.cfg = e.cfg /\ b.row = e.row
                   /\ b.z.state = "armed" /\ b.z.mode = m /\ b.z.bypassed = bp
                   /\ b.z.openAtArm \subseteq e.cfg.sensors
                   /\ b.z.pendingCause = None
                   /\ b.z.preState = e.z.preState /\ b.z.preMode = e.z.preMode
                   /\ b.z.timer = "none" /\ ~b.z.rearm
        BY <1>6, <2>1, CompleteArmFields
    <2>3. Arms(e.cfg, e.z, b.z)
        BY <1>3, <2>2 DEF Arms
    <2> QED BY <2>2, <2>3, PersistDoes, PersistTyped DEF Moves, Stored, e2
<1> QED BY <1>7, <1>8, <1>9, <1>10

\* resetToDisarmed, up to the countdown, which its callers have cancelled.
LEMMA ResetFields ==
    ASSUME NEW z \in Zones, z.timer = "none"
    PROVE  /\ ResetToDisarmed(z) \in Zones /\ Disarms(ResetToDisarmed(z))
           /\ ResetToDisarmed(z).incident = z.incident
           /\ ResetToDisarmed(z).silencedID = z.silencedID
           /\ ResetToDisarmed(z).rearmMode = z.rearmMode
<1>1. /\ ResetToDisarmed(z) \in Zones /\ ResetToDisarmed(z).timer = "none"
      /\ ResetToDisarmed(z).incident = z.incident
    BY ResetToDisarmedZone
<1> QED BY <1>1 DEF ResetToDisarmed, Zones, Disarms

LEMMA DisarmLockedDoes ==
    ASSUME NEW e, Sane(e), NEW f
    PROVE  LET c == DisarmLocked(e, f) IN Does(e, c, f) /\ Punctual(e, c, f) /\ Disarms(c.z)
<1> DEFINE z == CancelAutoRearm(CancelTimers(e.z))
           e1 == With(e, z)
           e2 == IF e1.z.incident = None THEN e1
                 ELSE CloseIncident(SilenceIncident(e1, f), f)
           z3 == ResetToDisarmed(e2.z)
           e3 == With(e2, z3)
<1>1. z \in Zones /\ z.incident = e.z.incident /\ z.timer = "none"
    BY DEF Sane, Stored, Typed, Engines, Zones, CancelTimers, CancelAutoRearm, TimerKinds
<1>2. Stored(e1) /\ e1.cfg = e.cfg /\ e1.z = z /\ e1.row = e.row
    BY <1>1, WithStored DEF Sane
<1> HIDE DEF z, e1
<1>3. /\ Stored(e2) /\ e2.z.incident = None /\ e2.cfg = e.cfg /\ e2.z.timer = "none"
      /\ e2.row = e.row
    <2>1. CASE e1.z.incident = None
        BY <2>1, <1>1, <1>2
    <2>2. CASE e1.z.incident # None
        <3> DEFINE s == SilenceIncident(e1, f)
        <3>1. Stored(s) /\ s.cfg = e.cfg /\ s.z.timer = "none"
            BY <2>2, <1>1, <1>2, SilenceIncidentStored
        <3>2. s.row = e.row
            BY <1>2 DEF SilenceIncident, StopAll, Stored, Typed, Engines
        <3>3. e2 = CloseIncident(s, f)
            BY <2>2
        <3> HIDE DEF s, e2
        <3>4. /\ Stored(e2) /\ e2.z.incident = None /\ e2.cfg = s.cfg
              /\ e2.z \in {s.z, [s.z EXCEPT !.incident = None, !.silencedID = 0]}
            BY <3>1, <3>3, CloseIncidentStored
        <3>5. e2.row = s.row
            BY <3>1, <3>3 DEF CloseIncident, Stored, Typed, Engines
        <3> QED BY <3>1, <3>2, <3>4, <3>5 DEF Stored, Typed, Engines, Zones
    <2> QED BY <2>1, <2>2
<1> HIDE DEF e2
<1>4. z3 \in Zones /\ z3.incident = None /\ Disarms(z3)
    BY <1>3, ResetFields DEF Stored, Typed, Engines
<1> HIDE DEF z3
<1>5. Typed(e3) /\ e3.cfg = e.cfg /\ e3.z = z3 /\ e3.row = e.row
    BY <1>3, <1>4, WithTyped DEF Stored
<1> HIDE DEF e3
<1>6. DisarmLocked(e, f) = Persist(e3, f)
    BY DEF DisarmLocked, z, e1, e2, z3, e3
<1> QED BY <1>4, <1>5, <1>6, PersistDoes, PersistTyped DEF Moves

LEMMA OnAutoRearmElapsedDoes ==
    ASSUME NEW e, Sane(e), NEW r, NEW w, NEW tr, NEW f
    PROVE  LET c == OnAutoRearmElapsed(e, r, w, tr, f) IN Does(e, c, f) /\ Punctual(e, c, f)
<1> DEFINE z1 == [e.z EXCEPT !.rearm = FALSE, !.rearmMode = None]
           e1 == With(e, z1)
           m == e.z.rearmMode
           b == BeginArm(e1, m, {}, FALSE, FALSE, r, w, tr, f)
<1>1. z1 \in Zones /\ Same(e.z, z1) /\ z1.timer = e.z.timer /\ ~z1.rearm
      /\ z1.incident = e.z.incident
    <2>1. z1 \in Zones
        BY DEF Sane, Stored, Typed, Engines, Zones
    <2> QED BY <2>1 DEF Sane, Stored, Typed, Engines, Zones, Same, IncidentId
<1> HIDE DEF z1
<1>2. Sane(e1) /\ Typed(e1) /\ e1.z = z1 /\ e1.cfg = e.cfg /\ e1.row = e.row
    BY <1>1, WithStored DEF Sane, Stored, Linked, Same
<1> HIDE DEF e1
<1>3. Rests(e.z, e1.z)
    BY <1>1, <1>2 DEF Rests, Same
<1>4. CASE e.z.state # "disarmed" \/ m \notin e.cfg.modes
    <2>1. OnAutoRearmElapsed(e, r, w, tr, f) = Persist(e1, f)
        BY <1>4 DEF OnAutoRearmElapsed, e1, z1
    <2> QED BY <1>2, <1>3, <2>1, PersistDoes DEF Moves
<1>5. CASE ~(e.z.state # "disarmed" \/ m \notin e.cfg.modes)
    <2>1. m \in Modes /\ m \in e1.cfg.modes /\ e1.z.state = "disarmed"
        BY <1>1, <1>2, <1>5 DEF Sane, Stored, Typed, Engines, Configs, Same
    <2> HIDE DEF m
    <2>2. /\ Sane(b) /\ Does(e1, b, f)
          /\ Rests(e1.z, b.z) \/ Arms(e1.cfg, e1.z, b.z)
        BY <1>2, <2>1, BeginArmSane, BeginArmDoes
    <2>3. OnAutoRearmElapsed(e, r, w, tr, f) = Persist(b, f)
        BY <1>5 DEF OnAutoRearmElapsed, e1, z1, m
    <2> HIDE DEF b
    <2>4. Moves(e.cfg, e.z, b.z)
        BY <1>1, <1>2, <2>2 DEF Moves, Rests, Arms, Same
    <2>5. Typed(b) /\ b.cfg = e.cfg /\ b.row \in {e.row, RowOf(b.z)}
        BY <1>2, <2>2 DEF Does, Saved, Sane, Stored
    <2> QED BY <2>3, <2>4, <2>5, PersistDoes
<1> QED BY <1>4, <1>5

\* The steps on the incident leave the rest of the zone alone.
Held(z, y) ==
    /\ y.state = z.state /\ y.mode = z.mode /\ y.bypassed = z.bypassed
    /\ y.openAtArm = z.openAtArm /\ y.pendingCause = z.pendingCause
    /\ y.preState = z.preState /\ y.preMode = z.preMode /\ y.preAlarm = z.preAlarm
    /\ y.timer = z.timer /\ y.rearm = z.rearm

LEMMA OpenIncidentHeld ==
    ASSUME NEW e, Stored(e), NEW cause \in Sensors \cup {None}, NEW f
    PROVE  LET o == OpenIncident(e, cause, f)
           IN Held(e.z, o.z) /\ o.cfg = e.cfg /\ o.row = e.row
<1> DEFINE inc == [id |-> IF "inc" \in f THEN 0 ELSE Len(e.db) + 1, cause |-> cause,
                   silenced |-> FALSE, cycles |-> 0, refires |-> 0]
           o == OpenIncident(e, cause, f)
<1>1. o.z = [e.z EXCEPT !.incident = inc] /\ o.cfg = e.cfg /\ o.row = e.row
    BY DEF OpenIncident, Stored, Typed, Engines
<1> HIDE DEF inc, o
<1>2. Held(e.z, o.z)
    BY <1>1 DEF Held, Stored, Typed, Engines, Zones
<1> QED BY <1>1, <1>2 DEF o

LEMMA CloseIncidentHeld ==
    ASSUME NEW e, Stored(e), NEW f
    PROVE  LET c == CloseIncident(StopAll(e), f)
           IN /\ Stored(c) /\ c.z.incident = None
              /\ Held(e.z, c.z) /\ c.cfg = e.cfg /\ c.row = e.row /\ c.view = e.view
<1> DEFINE s == StopAll(e)
           c == CloseIncident(s, f)
<1>1. Stored(s) /\ s.z = e.z /\ s.cfg = e.cfg /\ s.row = e.row /\ s.view = e.view
    BY StopAllStored DEF StopAll, Stored, Typed, Engines
<1> HIDE DEF s
<1>2. /\ Stored(c) /\ c.z.incident = None /\ c.cfg = e.cfg
      /\ c.z \in {s.z, [s.z EXCEPT !.incident = None, !.silencedID = 0]}
    BY <1>1, CloseIncidentStored
<1>3. c.row = s.row /\ c.view = s.view
    BY <1>1 DEF CloseIncident, Stored, Typed, Engines
<1> HIDE DEF c
<1>4. Held(e.z, c.z)
    <2>1. e.z \in Zones
        BY DEF Stored, Typed, Engines
    <2>2. Held(e.z, e.z) /\ Held(e.z, [e.z EXCEPT !.incident = None, !.silencedID = 0])
        BY <2>1 DEF Held, Zones
    <2> QED BY <1>1, <1>2, <2>2
<1> QED BY <1>1, <1>2, <1>3, <1>4 DEF c, s

LEMMA SilenceIncidentHeld ==
    ASSUME NEW e, Stored(e), e.z.incident # None, NEW f
    PROVE  LET c == SilenceIncident(e, f)
           IN /\ Stored(c) /\ c.cfg = e.cfg /\ c.row = e.row
              /\ Held(e.z, c.z) /\ IncidentId(c.z) = IncidentId(e.z)
<1> DEFINE c == SilenceIncident(e, f)
           inc == e.z.incident
           i2 == [inc EXCEPT !.silenced = TRUE]
<1>1. Stored(c) /\ c.cfg = e.cfg /\ c.z.incident # None
    BY SilenceIncidentStored
<1>2. c.row = e.row
    BY DEF SilenceIncident, StopAll, Stored, Typed, Engines
<1>3. inc \in Incidents /\ i2.id = inc.id
    BY IncidentIndex DEF Stored, Incidents
<1>4. c.z \in {e.z, [e.z EXCEPT !.incident = i2, !.silencedID = inc.id]}
    <2>1. c.z \in {e.z, [e.z EXCEPT !.incident.silenced = TRUE, !.silencedID = inc.id]}
        BY DEF SilenceIncident, StopAll, Stored, Typed, Engines
    <2>2. [e.z EXCEPT !.incident.silenced = TRUE, !.silencedID = inc.id]
            = [e.z EXCEPT !.incident = i2, !.silencedID = inc.id]
        BY DEF Stored, Typed, Engines, Zones
    <2> QED BY <2>1, <2>2, Zenon
<1> HIDE DEF c, i2
<1>5. CASE c.z = e.z
    BY <1>1, <1>2, <1>5 DEF Held, c
<1>6. CASE c.z = [e.z EXCEPT !.incident = i2, !.silencedID = inc.id]
    <2>1. Held(e.z, c.z)
        BY <1>6 DEF Held, Stored, Typed, Engines, Zones
    <2>2. c.z.incident = i2
        BY <1>6 DEF Stored, Typed, Engines, Zones
    <2>3. IncidentId(c.z) = IncidentId(e.z)
        BY <1>1, <1>3, <2>2 DEF IncidentId
    <2> QED BY <1>1, <1>2, <2>1, <2>3 DEF c
<1> QED BY <1>4, <1>5, <1>6

LEMMA TriggerDoes ==
    ASSUME NEW e, Sane(e), ArmedSide(e.z.state), NEW cause \in Sensors \cup {None},
           NEW restored \in BOOLEAN, NEW f
    PROVE  LET c == Trigger(e, cause, restored, f)
           IN Does(e, c, f) /\ Punctual(e, c, f) /\ Alarms(e.z, c.z)
<1> DEFINE e1 == OpenIncident(e, cause, f)
           pre == ~restored /\ e.z.mode \in ZoneConfig.preAlarm \cap e.cfg.modes
           t == IF pre THEN "pre_alarm" ELSE "trigger_time"
           z2 == [e1.z EXCEPT !.state = "triggered", !.pendingCause = None,
                              !.preAlarm = pre, !.timer = t]
           e2 == With(e1, z2)
<1>1. e.z.incident = None /\ e.z.state # "triggered" /\ Stored(e)
    BY DEF Sane, Linked, ArmedSide
<1>2. Stored(e1) /\ e1.cfg = e.cfg /\ e1.row = e.row /\ Held(e.z, e1.z)
    BY <1>1, OpenIncidentStored, OpenIncidentHeld
<1>3. pre \in BOOLEAN /\ t \in TimerKinds
    BY DEF TimerKinds
<1> HIDE DEF e1, pre, t
<1>4. z2 \in Zones /\ z2.incident = e1.z.incident
    BY <1>2, <1>3 DEF Stored, Typed, Engines, Zones, States
<1>5. Alarms(e.z, z2)
    <2>1. /\ z2.state = "triggered" /\ z2.mode = e1.z.mode /\ z2.bypassed = e1.z.bypassed
          /\ z2.openAtArm = e1.z.openAtArm /\ z2.pendingCause = None
          /\ z2.preState = e1.z.preState /\ z2.preMode = e1.z.preMode /\ z2.rearm = e1.z.rearm
        BY <1>2 DEF Stored, Typed, Engines, Zones
    <2> QED BY <1>2, <2>1 DEF Alarms, Held
<1> HIDE DEF z2
<1>6. Typed(e2) /\ e2.z = z2 /\ e2.cfg = e.cfg /\ e2.row = e.row
    BY <1>2, <1>4, WithTyped DEF Stored
<1> HIDE DEF e2
<1>7. Trigger(e, cause, restored, f) = FireCycle(Persist(e2, f), TRUE)
    BY <1>1 DEF Trigger, e1, pre, t, z2, e2
<1> DEFINE p == Persist(e2, f)
<1>8. Typed(p) /\ p.z = z2 /\ Does(e, p, f) /\ Punctual(e, p, f)
    BY <1>5, <1>6, PersistTyped, PersistDoes DEF Moves
<1> HIDE DEF p
<1>9. FireCycle(p, TRUE).z = z2
    BY <1>8, FireCycleTyped
<1> QED BY <1>5, <1>7, <1>8, <1>9, FireDoes DEF p

LEMMA RouteActivationDoes ==
    ASSUME NEW e, Sane(e), e.z.state = "armed", NEW s \in e.cfg.sensors, NEW f
    PROVE  LET c == RouteActivation(e, s, f)
           IN /\ Does(e, c, f) /\ Punctual(e, c, f)
              /\ Pends(e.cfg, e.z, c.z) \/ Alarms(e.z, c.z)
<1> DEFINE z == [e.z EXCEPT !.state = "pending", !.pendingCause = s, !.timer = "entry_delay"]
<1>0. s \in Sensors /\ e.z \in Zones /\ ArmedSide(e.z.state)
    BY DEF Sane, Stored, Typed, Engines, Configs, ArmedSide
<1>1. z \in Zones /\ z.incident = e.z.incident
    BY <1>0 DEF Zones, States, TimerKinds
<1>2. Pends(e.cfg, e.z, z)
    BY <1>0, <1>1 DEF Pends, Zones
<1>3. RouteActivation(e, s, f) \in {Persist(With(e, z), f), Trigger(e, s, FALSE, f)}
    BY DEF RouteActivation
<1> HIDE DEF z
<1>4. Typed(With(e, z)) /\ With(e, z).z = z /\ With(e, z).cfg = e.cfg /\ With(e, z).row = e.row
    BY <1>1, WithTyped DEF Sane, Stored
<1>5. /\ Does(e, Persist(With(e, z), f), f) /\ Punctual(e, Persist(With(e, z), f), f)
      /\ Pends(e.cfg, e.z, Persist(With(e, z), f).z)
    BY <1>2, <1>4, PersistDoes, PersistTyped DEF Moves
<1>6. LET t == Trigger(e, s, FALSE, f)
      IN Does(e, t, f) /\ Punctual(e, t, f) /\ Alarms(e.z, t.z)
    BY <1>0, TriggerDoes
<1> QED BY <1>3, <1>5, <1>6

LEMMA DoesNothing ==
    ASSUME NEW e, Typed(e), NEW f
    PROVE  Does(e, e, f) /\ Punctual(e, e, f)
BY DEF Does, Punctual, Moves, Rests, Saved, Same

LEMMA DispatchDoes ==
    ASSUME NEW e, Sane(e), NEW s \in e.cfg.sensors, NEW f
    PROVE  LET c == DispatchSensorActivation(e, s, f) IN Does(e, c, f) /\ Punctual(e, c, f)
<1> DEFINE c == DispatchSensorActivation(e, s, f)
<1>0. s \in Sensors /\ Typed(e)
    BY DEF Sane, Stored, Typed, Engines, Configs
<1>1. CASE e.z.state = "armed"
    <2>1. c = RouteActivation(e, s, f)
        BY <1>1 DEF DispatchSensorActivation
    <2> QED BY <1>1, <2>1, RouteActivationDoes
<1>2. CASE e.z.state \in {"arming", "pending"}
    <2>1. c \in {e, Trigger(e, s, FALSE, f)}
        BY <1>2 DEF DispatchSensorActivation
    <2>2. ArmedSide(e.z.state)
        BY <1>2 DEF ArmedSide
    <2> QED BY <1>0, <2>1, <2>2, TriggerDoes, DoesNothing
<1>3. CASE e.z.state \notin {"armed", "arming", "pending"}
    <2>1. c = e
        BY <1>3 DEF DispatchSensorActivation
    <2> QED BY <1>0, <2>1, DoesNothing
<1> QED BY <1>1, <1>2, <1>3

LEMMA GateCrossZoneDoes ==
    ASSUME NEW e, Sane(e), NEW s \in e.cfg.sensors, NEW keep, NEW f
    PROVE  LET c == GateCrossZone(e, s, keep, f) IN Does(e, c, f) /\ Punctual(e, c, f)
<1>0. s \in Sensors
    BY DEF Sane, Stored, Typed, Engines, Configs
<1>1. ASSUME NEW H \in SUBSET Sensors
      PROVE  LET b == With(e, [e.z EXCEPT !.hits = H])
             IN Sane(b) /\ Alike(e, b)
    <2> DEFINE z == [e.z EXCEPT !.hits = H]
               b == With(e, z)
    <2>1. z \in Zones /\ z.incident = e.z.incident /\ Held(e.z, z)
        BY DEF Sane, Stored, Typed, Engines, Zones, Held
    <2> HIDE DEF z
    <2>2. Sane(b) /\ b.z = z /\ b.cfg = e.cfg /\ b.row = e.row
        BY <2>1, WithStored DEF Sane, Linked, Held
    <2>3. Alike(e, b)
        BY <2>1, <2>2 DEF Alike, Same, Held, IncidentId
    <2> QED BY <2>2, <2>3 DEF z
<1> DEFINE e1 == With(e, [e.z EXCEPT !.hits = {}])
           e2 == With(e, [e.z EXCEPT !.hits = {s}])
<1>2. Sane(e1) /\ Alike(e, e1) /\ Sane(e2) /\ Alike(e, e2)
    BY <1>0, <1>1
<1>3. GateCrossZone(e, s, keep, f) \in
          {DispatchSensorActivation(e, s, f), DispatchSensorActivation(e1, s, f), e2}
    BY DEF GateCrossZone
<1> HIDE DEF e1, e2
<1> DEFINE d == DispatchSensorActivation(e1, s, f)
<1>4. Does(e, e2, f) /\ Punctual(e, e2, f)
    <2>1. Does(e2, e2, f) /\ Punctual(e2, e2, f)
        BY <1>2, DoesNothing DEF Sane, Stored
    <2> QED BY <1>2, <2>1, AlikeDoes
<1>5. Does(e, d, f) /\ Punctual(e, d, f)
    <2>1. s \in e1.cfg.sensors
        BY <1>2 DEF Alike
    <2>2. Does(e1, d, f) /\ Punctual(e1, d, f)
        BY <1>2, <2>1, DispatchDoes
    <2> HIDE DEF d
    <2> QED BY <1>2, <2>2, AlikeDoes
<1> QED BY <1>3, <1>4, <1>5, DispatchDoes

\* The ends of an alarm: the zone b is persisted.
LEMMA DisarmAfterTriggerFields ==
    ASSUME NEW e, Stored(e), e.z.incident = None, NEW f
    PROVE  \E b : /\ DisarmAfterTrigger(e, f) = Persist(b, f)
                  /\ Stored(b) /\ b.cfg = e.cfg /\ b.row = e.row
                  /\ Disarms(b.z) /\ b.z.incident = None
<1> DEFINE z0 == CancelTimers(e.z)
           z1 == ResetToDisarmed(z0)
           z2 == IF ZoneConfig.autoRearm /\ e.z.mode \in e.cfg.modes
                 THEN ScheduleAutoRearm(z1, e.z.mode) ELSE z1
           b == With(e, z2)
<1>1. e.z \in Zones /\ e.cfg \in Configs
    BY DEF Stored, Typed, Engines
<1>2. z0 \in Zones /\ z0.incident = None /\ z0.timer = "none"
    BY <1>1, CancelTimersZone
<1> HIDE DEF z0
<1>3. z1 \in Zones /\ z1.incident = None /\ Disarms(z1)
    BY <1>2, ResetFields
<1> HIDE DEF z1
<1>4. z2 \in Zones /\ z2.incident = None /\ Disarms(z2)
    <2>1. CASE ZoneConfig.autoRearm /\ e.z.mode \in e.cfg.modes
        <3>1. e.z.mode \in Modes
            BY <1>1, <2>1 DEF Configs
        <3>2. z2 = [z1 EXCEPT !.rearm = TRUE, !.rearmMode = e.z.mode]
            BY <2>1 DEF ScheduleAutoRearm
        <3> HIDE DEF z2
        <3>3. z2 \in Zones
            BY <1>3, <3>1, <3>2 DEF Zones
        <3> QED BY <1>3, <3>2, <3>3 DEF Zones, Disarms
    <2>2. CASE ~(ZoneConfig.autoRearm /\ e.z.mode \in e.cfg.modes)
        BY <1>3, <2>2
    <2> QED BY <2>1, <2>2
<1> HIDE DEF z2
<1>5. Stored(b) /\ b.z = z2 /\ b.cfg = e.cfg /\ b.row = e.row
    BY <1>4, WithStored
<1>6. DisarmAfterTrigger(e, f) = Persist(b, f)
    BY DEF DisarmAfterTrigger, z2, z1, z0
<1> HIDE DEF b
<1> QED BY <1>4, <1>5, <1>6

LEMMA FinishTriggeredFields ==
    ASSUME NEW e, Stored(e), e.z.state = "triggered", e.z.preState = None, e.z.preMode = None,
           NEW f
    PROVE  \E b : /\ FinishTriggered(e, f) = Persist(b, f)
                  /\ Stored(b) /\ b.cfg = e.cfg /\ b.row = e.row
                  /\ Disarms(b.z) \/ Returns(e.cfg, e.z, b.z)
<1> DEFINE e1 == CloseIncident(StopAll(e), f)
<1>1. /\ Stored(e1) /\ e1.z.incident = None /\ Held(e.z, e1.z)
      /\ e1.cfg = e.cfg /\ e1.row = e.row
    BY CloseIncidentHeld
<1>2. FinishTriggered(e, f) \in {DisarmAfterTrigger(e1, f), CompleteArm(e1, f)}
    BY DEF FinishTriggered
<1> HIDE DEF e1
<1>3. PICK b : /\ DisarmAfterTrigger(e1, f) = Persist(b, f)
               /\ Stored(b) /\ b.cfg = e.cfg /\ b.row = e.row /\ Disarms(b.z)
    BY <1>1, DisarmAfterTriggerFields
<1>4. PICK a : /\ CompleteArm(e1, f) = Persist(a, f)
               /\ Stored(a) /\ a.cfg = e.cfg /\ a.row = e.row
               /\ Returns(e.cfg, e.z, a.z)
    <2>1. PICK a : /\ CompleteArm(e1, f) = Persist(a, f)
                   /\ Stored(a) /\ a.cfg = e.cfg /\ a.row = e.row
                   /\ a.z.state = "armed" /\ a.z.mode = e1.z.mode
                   /\ a.z.bypassed = e1.z.bypassed
                   /\ a.z.openAtArm \subseteq e.cfg.sensors
                   /\ a.z.pendingCause = e1.z.pendingCause
                   /\ a.z.preState = e1.z.preState /\ a.z.preMode = e1.z.preMode
                   /\ a.z.timer = "none" /\ a.z.rearm = e1.z.rearm
        BY <1>1, CompleteArmFields
    <2>2. Returns(e.cfg, e.z, a.z)
        BY <1>1, <2>1 DEF Returns, Held
    <2> QED BY <2>1, <2>2
<1> QED BY <1>2, <1>3, <1>4

LEMMA FinishAlwaysOnFields ==
    ASSUME NEW e, Stored(e), e.z.state = "triggered", NEW f
    PROVE  \E b : /\ FinishAlwaysOn(e, f) = Persist(b, f)
                  /\ Stored(b) /\ b.cfg = e.cfg /\ b.row = e.row
                  /\ b.z.incident = None
                  /\ IF e.z.preMode \in Modes THEN Returns(e.cfg, e.z, b.z) ELSE Disarms(b.z)
                  /\ b.z.state = "armed" => Based(e.view, b)
<1> DEFINE e1 == CloseIncident(StopAll(e), f)
           z1 == CancelTimers(e1.z)
           z2 == [z1 EXCEPT !.preState = None, !.preMode = None]
           z3 == [z2 EXCEPT !.state = "armed", !.mode = e.z.preMode]
           b == RecaptureOpenBaseline(With(e1, z3))
           z4 == ResetToDisarmed(z2)
<1>1. /\ Stored(e1) /\ e1.z.incident = None /\ Held(e.z, e1.z)
      /\ e1.cfg = e.cfg /\ e1.row = e.row /\ e1.z \in Zones /\ e1.view = e.view
    BY CloseIncidentHeld DEF Stored, Typed, Engines
<1>2. FinishAlwaysOn(e, f) = Persist(IF e.z.preMode \in Modes THEN b ELSE With(e1, z4), f)
    BY DEF FinishAlwaysOn
<1> HIDE DEF e1
<1>3. z1 \in Zones /\ z1.incident = None /\ z1.timer = "none"
    BY <1>1, CancelTimersZone
<1>4. /\ z1.bypassed = e1.z.bypassed /\ z1.pendingCause = e1.z.pendingCause
      /\ z1.rearm = e1.z.rearm
    BY <1>1 DEF CancelTimers, Zones
<1> HIDE DEF z1
<1>5. z2 \in Zones /\ z2.incident = None /\ z2.timer = "none"
    BY <1>3, ClearPreTriggerZone
<1>6. /\ z2.bypassed = e.z.bypassed /\ z2.pendingCause = e.z.pendingCause
      /\ z2.rearm = e.z.rearm /\ z2.preState = None /\ z2.preMode = None
    BY <1>1, <1>3, <1>4 DEF Zones, Held
<1> HIDE DEF z2
<1>7. CASE e.z.preMode \in Modes
    <2>1. /\ z3 \in Zones /\ z3.incident = None /\ z3.timer = "none" /\ z3.state = "armed"
          /\ z3.mode = e.z.preMode
        BY <1>5, <1>7 DEF Zones, States
    <2>2. /\ z3.bypassed = e.z.bypassed /\ z3.pendingCause = e.z.pendingCause
          /\ z3.rearm = e.z.rearm /\ z3.preState = None /\ z3.preMode = None
        BY <1>5, <1>6 DEF Zones
    <2> HIDE DEF z3
    <2> DEFINE e3 == With(e1, z3)
               B == {s \in e3.cfg.sensors : /\ InMode(s, e3.z.mode)
                                            /\ s \notin e3.z.bypassed
                                            /\ e3.view[s] = "active"}
               y == [e3.z EXCEPT !.openAtArm = B]
    <2>3. Stored(e3) /\ e3.z = z3 /\ e3.cfg = e.cfg /\ e3.row = e.row /\ e3.view = e.view
        BY <1>1, <2>1, WithStored, WithTyped DEF Stored
    <2>4. b = With(e3, y)
        BY DEF RecaptureOpenBaseline
    <2> HIDE DEF b, e3
    <2>5. B \subseteq e.cfg.sensors /\ B \in SUBSET Sensors
        BY <2>3 DEF Stored, Typed, Engines, Configs
    <2> HIDE DEF B
    <2>6. y \in Zones /\ y.incident = None
        BY <2>1, <2>3, <2>5 DEF Zones
    <2>7. Returns(e.cfg, e.z, y)
        BY <1>7, <2>1, <2>2, <2>3, <2>5 DEF Zones, Returns
    <2>8. /\ y.openAtArm = B /\ y.mode = e3.z.mode /\ y.bypassed = e3.z.bypassed
        BY <2>1, <2>3 DEF Zones
    <2> HIDE DEF y
    <2>9. Stored(b) /\ b.z = y /\ b.cfg = e.cfg /\ b.row = e.row
        BY <2>1, <2>3, <2>4, <2>6, WithStored
    <2>10. Based(e.view, b)
        BY <2>3, <2>8, <2>9 DEF Based, B
    <2> QED BY <1>2, <1>7, <2>6, <2>7, <2>9, <2>10
<1>8. CASE e.z.preMode \notin Modes
    <2>1. z4 \in Zones /\ z4.incident = None /\ Disarms(z4)
        BY <1>5, ResetFields
    <2> HIDE DEF z4
    <2>2. /\ Stored(With(e1, z4)) /\ With(e1, z4).z = z4 /\ With(e1, z4).cfg = e.cfg
          /\ With(e1, z4).row = e.row
        BY <1>1, <2>1, WithStored
    <2> QED BY <1>2, <1>8, <2>1, <2>2 DEF Disarms
<1> QED BY <1>7, <1>8

LEMMA AlwaysOnFireDoes ==
    ASSUME NEW e, Sane(e), NEW cause \in Sensors \cup {None}, NEW loud \in BOOLEAN, NEW f
    PROVE  LET c == AlwaysOnFire(e, cause, loud, f)
           IN /\ Does(e, c, f) /\ Punctual(e, c, f)
              /\ Rests(e.z, c.z) \/ Interrupts(e.z, c.z)
<1>1. CASE e.z.state # "triggered"
    <2> DEFINE z1 == [e.z EXCEPT !.preState = e.z.state, !.preMode = e.z.mode]
               e0 == With(e, z1)
               e1 == OpenIncident(e0, cause, f)
               z2 == [e1.z EXCEPT !.state = "triggered", !.timer = "trigger_time"]
               e2 == With(e1, z2)
               p == Persist(e2, f)
    <2>1. e.z.incident = None /\ e.z \in Zones
        BY <1>1 DEF Sane, Linked, Stored, Typed, Engines
    <2>2. z1 \in Zones /\ z1.incident = e.z.incident
        BY <2>1 DEF Zones
    <2>3. /\ z1.mode = e.z.mode /\ z1.bypassed = e.z.bypassed /\ z1.openAtArm = e.z.openAtArm
          /\ z1.pendingCause = e.z.pendingCause /\ z1.preState = e.z.state
          /\ z1.preMode = e.z.mode /\ z1.rearm = e.z.rearm
        BY <2>1 DEF Zones
    <2> HIDE DEF z1
    <2>4. Stored(e0) /\ e0.z = z1 /\ e0.cfg = e.cfg /\ e0.row = e.row
        BY <2>2, WithStored DEF Sane
    <2> HIDE DEF e0
    <2>5. /\ Stored(e1) /\ e1.z.incident # None /\ Held(z1, e1.z) /\ e1.cfg = e.cfg
          /\ e1.row = e.row /\ e1.z \in Zones
        BY <2>4, OpenIncidentStored, OpenIncidentHeld DEF Stored, Typed, Engines
    <2> HIDE DEF e1
    <2>6. z2 \in Zones /\ z2.incident = e1.z.incident
        BY <2>5 DEF Zones, States, TimerKinds
    <2>7. Interrupts(e.z, z2)
        <3>1. /\ z2.state = "triggered" /\ z2.timer = "trigger_time" /\ z2.mode = e1.z.mode
              /\ z2.bypassed = e1.z.bypassed /\ z2.openAtArm = e1.z.openAtArm
              /\ z2.pendingCause = e1.z.pendingCause /\ z2.preState = e1.z.preState
              /\ z2.preMode = e1.z.preMode /\ z2.rearm = e1.z.rearm
            BY <2>5 DEF Zones
        <3> QED BY <1>1, <2>3, <2>5, <3>1 DEF Interrupts, Held
    <2> HIDE DEF z2
    <2>8. Typed(e2) /\ e2.z = z2 /\ e2.cfg = e.cfg /\ e2.row = e.row
        BY <2>5, <2>6, WithTyped DEF Stored
    <2> HIDE DEF e2
    <2>9. AlwaysOnFire(e, cause, loud, f) = FireCycle(p, loud)
        BY <1>1, <2>1 DEF AlwaysOnFire, z1, e0, e1, z2, e2
    <2>10. Typed(p) /\ Does(e, p, f) /\ Punctual(e, p, f) /\ p.z = z2
        BY <2>7, <2>8, PersistTyped, PersistDoes DEF Moves
    <2> HIDE DEF p
    <2>11. FireCycle(p, loud).z = p.z
        BY <2>10 DEF FireCycle, Typed, Engines
    <2> QED BY <2>7, <2>9, <2>10, <2>11, FireDoes
<1>2. CASE e.z.state = "triggered"
    <2> DEFINE h == loud \/ e.horn
               c == AlwaysOnFire(e, cause, loud, f)
    <2>1. c \in {e, [e EXCEPT !.horn = h]}
        BY <1>2 DEF AlwaysOnFire
    <2> HIDE DEF h, c
    <2>2. c.z = e.z /\ c.cfg = e.cfg /\ c.row = e.row
        BY <2>1 DEF Sane, Stored, Typed, Engines
    <2>3. Does(e, c, f) /\ Punctual(e, c, f) /\ Rests(e.z, c.z)
        BY <2>2 DEF Does, Punctual, Moves, Rests, Saved, Same
    <2> QED BY <2>3 DEF c
<1> QED BY <1>1, <1>2

LEMMA SilenceDoes ==
    ASSUME NEW e, Sane(e), e.z.incident # None, NEW f
    PROVE  LET c == Persist(SilenceIncident(e, f), f) IN Does(e, c, f) /\ Punctual(e, c, f)
<1> DEFINE b == SilenceIncident(e, f)
<1>1. Stored(b) /\ b.cfg = e.cfg /\ b.row = e.row /\ Held(e.z, b.z)
    BY SilenceIncidentHeld DEF Sane
<1> HIDE DEF b
<1>2. Rests(e.z, b.z)
    BY <1>1 DEF Rests, Held
<1>3. Does(e, Persist(b, f), f) /\ Punctual(e, Persist(b, f), f)
    BY <1>1, <1>2, PersistDoes DEF Moves, Stored
<1> QED BY <1>3 DEF b

\* The countdown has fired: e1 is e without it.
Spent(e, e1) ==
    /\ e1.cfg = e.cfg /\ e1.row = e.row
    /\ e1.z.state = e.z.state /\ e1.z.mode = e.z.mode /\ e1.z.bypassed = e.z.bypassed
    /\ e1.z.openAtArm = e.z.openAtArm /\ e1.z.pendingCause = e.z.pendingCause
    /\ e1.z.preState = e.z.preState /\ e1.z.preMode = e.z.preMode
    /\ e1.z.rearm = e.z.rearm

LEMMA FinishTriggeredDoes ==
    ASSUME NEW e, NEW e1, Spent(e, e1), Stored(e1), e.z.state = "triggered",
           e.z.preState = None, e.z.preMode = None, NEW f
    PROVE  LET c == FinishTriggered(e1, f) IN Does(e, c, f) /\ Punctual(e, c, f)
<1>1. PICK b : /\ FinishTriggered(e1, f) = Persist(b, f)
               /\ Stored(b) /\ b.cfg = e1.cfg /\ b.row = e1.row
               /\ Disarms(b.z) \/ Returns(e1.cfg, e1.z, b.z)
    BY FinishTriggeredFields DEF Spent
<1>2. Disarms(b.z) \/ Returns(e.cfg, e.z, b.z)
    BY <1>1 DEF Spent, Returns
<1> QED BY <1>1, <1>2, PersistDoes DEF Moves, Stored, Spent

LEMMA FinishAlwaysOnDoes ==
    ASSUME NEW e, NEW e1, Spent(e, e1), Stored(e1), e.z.state = "triggered", NEW f
    PROVE  LET c == FinishAlwaysOn(e1, f) IN Does(e, c, f) /\ Punctual(e, c, f)
<1>1. PICK b : /\ FinishAlwaysOn(e1, f) = Persist(b, f)
               /\ Stored(b) /\ b.cfg = e1.cfg /\ b.row = e1.row
               /\ Disarms(b.z) \/ Returns(e1.cfg, e1.z, b.z)
    BY FinishAlwaysOnFields DEF Spent
<1>2. Disarms(b.z) \/ Returns(e.cfg, e.z, b.z)
    BY <1>1 DEF Spent, Returns
<1> QED BY <1>1, <1>2, PersistDoes DEF Moves, Stored, Spent

LEMMA RetriggerCycleDoes ==
    ASSUME NEW e, NEW e1, Spent(e, e1), Sane(e1), e.z.state = "triggered", NEW f
    PROVE  LET c == RetriggerCycle(e1, f) IN Does(e, c, f) /\ Punctual(e, c, f)
<1> DEFINE inc == e1.z.incident
           i2 == [inc EXCEPT !.cycles = @ + 1]
           z == [e1.z EXCEPT !.incident = i2, !.timer = "trigger_time"]
           d == IF inc.id = 0 THEN e1.db ELSE [e1.db EXCEPT ![inc.id].cycles = @ + 1]
           b == [e1 EXCEPT !.z = z, !.db = d]
<1>1. inc # None /\ e1.z \in Zones
    BY DEF Sane, Linked, Spent, Stored, Typed, Engines
<1>2. /\ inc \in Incidents
      /\ inc.id # 0 => inc.id \in 1..Len(e1.db)
      /\ inc.id <= Len(e1.db)
    BY <1>1, IncidentIndex DEF Sane, Stored, Typed
<1>3. d \in Seq(IncidentRows) /\ Len(d) = Len(e1.db)
    BY <1>2, RowUpdateTyped DEF Sane, Stored, Typed, Engines
<1>4. i2 \in Incidents /\ i2.id = inc.id
    <2> HIDE DEF inc
    <2> QED BY <1>2 DEF Incidents
<1> HIDE DEF i2
<1>5. z \in Zones /\ z.incident = i2
    BY <1>1, <1>4 DEF Zones, TimerKinds
<1>6. [e1.z EXCEPT !.incident.cycles = @ + 1, !.timer = "trigger_time"] = z
    BY <1>1 DEF Zones, i2
<1>7. RetriggerCycle(e1, f) = FireCycle(Persist(b, f), TRUE)
    <2> HIDE DEF z
    <2> QED BY <1>6 DEF RetriggerCycle
<1>8. Rests(e.z, z)
    <2>1. /\ z.state = e1.z.state /\ z.mode = e1.z.mode /\ z.bypassed = e1.z.bypassed
          /\ z.openAtArm = e1.z.openAtArm /\ z.pendingCause = e1.z.pendingCause
          /\ z.preState = e1.z.preState /\ z.preMode = e1.z.preMode /\ z.rearm = e1.z.rearm
          /\ z.timer = "trigger_time"
        BY <1>1 DEF Zones
    <2> QED BY <2>1 DEF Rests, Spent
<1> HIDE DEF z, d, inc
<1>9. Typed(b) /\ b.z = z /\ b.cfg = e.cfg /\ b.row = e.row
    BY <1>2, <1>3, <1>4, <1>5 DEF Sane, Stored, Typed, Engines, Spent
<1> HIDE DEF b
<1> DEFINE p == Persist(b, f)
<1>10. Typed(p) /\ Does(e, p, f) /\ Punctual(e, p, f)
    BY <1>8, <1>9, PersistTyped, PersistDoes DEF Moves
<1> HIDE DEF p
<1>11. Does(e, FireCycle(p, TRUE), f) /\ Punctual(e, FireCycle(p, TRUE), f)
    BY <1>10, FireDoes
<1> QED BY <1>7, <1>11 DEF p

LEMMA OnPreAlarmElapsedDoes ==
    ASSUME NEW e, NEW e1, Spent(e, e1), Sane(e1), e.z.state = "triggered",
           e.z.preState = None, e.z.preMode = None, NEW f
    PROVE  LET c == OnPreAlarmElapsed(e1, f) IN Does(e, c, f) /\ Punctual(e, c, f)
<1> DEFINE z == [e1.z EXCEPT !.preAlarm = FALSE]
           e2 == With(e1, z)
           y == [e2.z EXCEPT !.timer = "trigger_time"]
           b == With(e2, y)
           p == Persist(b, f)
<1>0. e1.z \in Zones
    BY DEF Sane, Stored, Typed, Engines
<1>1. z \in Zones /\ z.incident = e1.z.incident
    BY <1>0 DEF Zones
<1>2. /\ z.state = e1.z.state /\ z.mode = e1.z.mode /\ z.bypassed = e1.z.bypassed
      /\ z.openAtArm = e1.z.openAtArm /\ z.pendingCause = e1.z.pendingCause
      /\ z.preState = e1.z.preState /\ z.preMode = e1.z.preMode /\ z.rearm = e1.z.rearm
    BY <1>0 DEF Zones
<1> HIDE DEF z
<1>3. Stored(e2) /\ e2.z = z /\ e2.cfg = e.cfg /\ e2.row = e.row
    BY <1>1, WithStored DEF Sane, Spent
<1> HIDE DEF e2
<1>4. Spent(e, e2)
    BY <1>2, <1>3 DEF Spent
<1>5. y \in Zones /\ y.incident = e2.z.incident
    BY <1>1, <1>3 DEF Zones, TimerKinds
<1>6. Rests(e.z, y)
    <2>1. /\ y.state = z.state /\ y.mode = z.mode /\ y.bypassed = z.bypassed
          /\ y.openAtArm = z.openAtArm /\ y.pendingCause = z.pendingCause
          /\ y.preState = z.preState /\ y.preMode = z.preMode /\ y.rearm = z.rearm
          /\ y.timer = "trigger_time"
        BY <1>1, <1>3 DEF Zones
    <2> QED BY <1>2, <2>1 DEF Rests, Spent
<1>7. OnPreAlarmElapsed(e1, f) \in {FinishTriggered(e2, f), FireCycle(p, TRUE)}
    BY DEF OnPreAlarmElapsed, e2, z
<1> HIDE DEF y
<1>8. Typed(b) /\ b.z = y /\ b.cfg = e.cfg /\ b.row = e.row
    BY <1>3, <1>5, WithTyped DEF Stored
<1> HIDE DEF b
<1>9. Typed(p) /\ Does(e, p, f) /\ Punctual(e, p, f)
    BY <1>6, <1>8, PersistTyped, PersistDoes DEF Moves
<1> HIDE DEF p
<1>10. Does(e, FireCycle(p, TRUE), f) /\ Punctual(e, FireCycle(p, TRUE), f)
    BY <1>9, FireDoes
<1> QED BY <1>3, <1>4, <1>7, <1>10, FinishTriggeredDoes

LEMMA OnTriggerElapsedDoes ==
    ASSUME NEW e, NEW e1, Spent(e, e1), Sane(e1), e.z.state = "triggered",
           e.z.preState = None => e.z.preMode = None, NEW f
    PROVE  LET c == OnTriggerElapsed(e1, f) IN Does(e, c, f) /\ Punctual(e, c, f)
<1>1. CASE e1.z.preState # None
    <2>1. OnTriggerElapsed(e1, f) = FinishAlwaysOn(e1, f)
        BY <1>1 DEF OnTriggerElapsed
    <2> QED BY <2>1, FinishAlwaysOnDoes DEF Sane
<1>2. CASE e1.z.preState = None
    <2>1. OnTriggerElapsed(e1, f) \in {RetriggerCycle(e1, f), FinishTriggered(e1, f)}
        BY <1>2 DEF OnTriggerElapsed
    <2>2. e.z.preState = None /\ e.z.preMode = None /\ Stored(e1)
        BY <1>2 DEF Spent, Sane
    <2> QED BY <2>1, <2>2, RetriggerCycleDoes, FinishTriggeredDoes
<1> QED BY <1>1, <1>2

LEMMA OnStateTimerFiredDoes ==
    ASSUME NEW e, Sane(e), Moded(e.z), e.z.timer # "none", NEW f
    PROVE  LET c == OnStateTimerFired(e, f)
           IN Does(e, c, f) /\ (Clocked(e.z) => Punctual(e, c, f))
<1> DEFINE z == [e.z EXCEPT !.timer = "none"]
           e1 == With(e, z)
           c == OnStateTimerFired(e, f)
<1>0. e.z \in Zones
    BY DEF Sane, Stored, Typed, Engines
<1>1. z \in Zones /\ z.incident = e.z.incident
    BY <1>0 DEF Zones, TimerKinds
<1>2. /\ z.state = e.z.state /\ z.mode = e.z.mode /\ z.bypassed = e.z.bypassed
      /\ z.openAtArm = e.z.openAtArm /\ z.pendingCause = e.z.pendingCause
      /\ z.preState = e.z.preState /\ z.preMode = e.z.preMode /\ z.rearm = e.z.rearm
      /\ z.preAlarm = e.z.preAlarm /\ z.timer = "none"
    BY <1>0 DEF Zones
<1> HIDE DEF z
<1>3. Sane(e1) /\ Stored(e1) /\ e1.z = z /\ e1.cfg = e.cfg /\ e1.row = e.row
    BY <1>1, <1>2, WithStored DEF Sane, Linked
<1>4. e.z.pendingCause \in Sensors \cup {None} /\ e.z.timer \in TimerKinds
    BY <1>0 DEF Zones
<1> HIDE DEF e1
<1>5. Spent(e, e1)
    BY <1>2, <1>3 DEF Spent
<1>6. CASE e.z.timer = "exit_delay" /\ e.z.state = "arming"
    <2>1. c = CompleteArm(e1, f)
        BY <1>6 DEF OnStateTimerFired, e1, z
    <2>2. e1.z.incident = None
        BY <1>2, <1>3, <1>6 DEF Sane, Linked
    <2>3. PICK b : /\ CompleteArm(e1, f) = Persist(b, f)
                   /\ Stored(b) /\ b.cfg = e.cfg /\ b.row = e.row
                   /\ b.z.state = "armed" /\ b.z.mode = z.mode /\ b.z.bypassed = z.bypassed
                   /\ b.z.openAtArm \subseteq e.cfg.sensors
                   /\ b.z.pendingCause = z.pendingCause
                   /\ b.z.preState = z.preState /\ b.z.preMode = z.preMode
                   /\ b.z.timer = "none" /\ b.z.rearm = z.rearm
        BY <1>3, <2>2, CompleteArmFields
    <2>4. Settles(e.cfg, e.z, b.z)
        BY <1>2, <1>6, <2>3 DEF Settles
    <2> QED BY <2>1, <2>3, <2>4, PersistDoes DEF Moves, Stored
<1>7. CASE e.z.timer = "entry_delay" /\ e.z.state = "pending"
    <2>1. c = Trigger(e1, e.z.pendingCause, FALSE, f)
        BY <1>7 DEF OnStateTimerFired, e1, z
    <2>2. ArmedSide(e1.z.state)
        BY <1>2, <1>3, <1>7 DEF ArmedSide
    <2>3. Does(e1, c, f) /\ Alarms(e1.z, c.z)
        BY <1>3, <1>4, <2>1, <2>2, TriggerDoes
    <2> HIDE DEF c
    <2>4. Alarms(e.z, c.z) /\ ~Same(e1.z, c.z) /\ c.cfg = e.cfg
        BY <1>2, <1>3, <1>7, <2>3 DEF Alarms, Same, ArmedSide, Does
    <2>5. Saved(e, c, f) /\ Punctual(e, c, f)
        BY <1>3, <2>3, <2>4, RowOfFields DEF Does, Saved, Punctual
    <2> QED BY <2>4, <2>5 DEF Does, Moves, c
<1>8. CASE e.z.timer = "pre_alarm" /\ e.z.state = "triggered" /\ e.z.preAlarm
    <2>1. c = OnPreAlarmElapsed(e1, f)
        BY <1>8 DEF OnStateTimerFired, e1, z
    <2>2. e.z.preState = None /\ e.z.preMode = None
        BY <1>8 DEF Moded
    <2> QED BY <1>3, <1>5, <1>8, <2>1, <2>2, OnPreAlarmElapsedDoes
<1>9. CASE e.z.timer = "trigger_time" /\ e.z.state = "triggered"
    <2>1. c = OnTriggerElapsed(e1, f)
        BY <1>9 DEF OnStateTimerFired, e1, z
    <2>2. e.z.preState = None => e.z.preMode = None
        BY DEF Moded
    <2> QED BY <1>3, <1>5, <1>9, <2>1, <2>2, OnTriggerElapsedDoes
<1>10. CASE /\ ~(e.z.timer = "exit_delay" /\ e.z.state = "arming")
            /\ ~(e.z.timer = "entry_delay" /\ e.z.state = "pending")
            /\ ~(e.z.timer = "pre_alarm" /\ e.z.state = "triggered" /\ e.z.preAlarm)
            /\ ~(e.z.timer = "trigger_time" /\ e.z.state = "triggered")
    <2>1. c = e1
        BY <1>10 DEF OnStateTimerFired, e1, z
    <2>2. ~Clocked(e.z)
        BY <1>4, <1>10 DEF Clocked, TimerKinds
    <2> HIDE DEF c
    <2>3. Does(e, c, f)
        BY <1>1, <1>2, <1>3, <2>1 DEF Does, Moves, Rests, Saved, Same, IncidentId
    <2> QED BY <2>2, <2>3 DEF c
<1> QED BY <1>6, <1>7, <1>8, <1>9, <1>10

\* Every member that is really open is in the baseline or bypassed.
Sees(c, w) ==
    \A s \in c.cfg.sensors :
        InMode(s, c.z.mode) /\ w[s] => s \in c.z.openAtArm \cup c.z.bypassed

LEMMA RefreshLooks ==
    ASSUME NEW e, Typed(e), NEW r, NEW w
    PROVE  LET c == RefreshSensorValues(e, r, w)
           IN r => \A s \in e.cfg.sensors : w[s] => c.view[s] = "active"
<1> DEFINE v == [s \in Sensors |-> IF s \in e.cfg.sensors THEN Observed(w[s]) ELSE e.view[s]]
<1>1. SUFFICES ASSUME r, NEW s \in e.cfg.sensors, w[s]
               PROVE  RefreshSensorValues(e, r, w).view[s] = "active"
    OBVIOUS
<1>2. RefreshSensorValues(e, r, w).view = v
    BY <1>1 DEF RefreshSensorValues, Typed, Engines
<1>3. s \in Sensors
    BY DEF Typed, Engines, Configs
<1> QED BY <1>1, <1>2, <1>3 DEF Observed

LEMMA ReEvaluateDoes ==
    ASSUME NEW e, Sane(e), NEW r, NEW w, NEW f
    PROVE  LET c == ReEvaluate(e, r, w, f)
           IN /\ Does(e, c, f) /\ Punctual(e, c, f)
              /\ Rests(e.z, c.z) \/ Pends(e.cfg, e.z, c.z) \/ Alarms(e.z, c.z)
              /\ r /\ c.z.state = "armed" => Sees(c, w)
<1> DEFINE c == ReEvaluate(e, r, w, f)
<1>1. CASE ~r \/ e.z.state # "armed"
    <2>1. c = e /\ Typed(e)
        BY <1>1 DEF ReEvaluate, Sane, Stored
    <2>2. Rests(e.z, e.z)
        BY DEF Rests
    <2> QED BY <1>1, <2>1, <2>2, DoesNothing
<1>2. CASE r /\ e.z.state = "armed"
    <2> DEFINE e1 == RefreshSensorValues(e, r, w)
               gone == {s \in e.z.openAtArm \cap e.cfg.sensors : ~w[s]}
               z == [e1.z EXCEPT !.openAtArm = @ \ gone]
               b == With(e1, z)
               e2 == IF gone = {} THEN e1 ELSE Persist(b, f)
               opened == {s \in e.cfg.sensors : /\ w[s]
                                                /\ InMode(s, e.z.mode)
                                                /\ s \notin e.z.bypassed \cup e.z.openAtArm}
    <2>0. e.z \in Zones /\ e.cfg \in Configs
        BY DEF Sane, Stored, Typed, Engines
    <2>1. Stored(e1) /\ e1.z = e.z /\ e1.cfg = e.cfg /\ e1.row = e.row
        BY RefreshStored DEF Sane
    <2>2. opened \subseteq e.cfg.sensors /\ opened \in SUBSET Sensors
        BY <2>0 DEF Configs
    <2>3. c = IF opened = {} THEN e2 ELSE RouteActivation(e2, FirstOf(opened), f)
        BY <1>2 DEF ReEvaluate
    <2>4. \A s \in e.cfg.sensors : s \in e.z.openAtArm \ gone <=> s \in e.z.openAtArm /\ w[s]
        OBVIOUS
    <2>5. opened = {} => \A s \in e.cfg.sensors :
                InMode(s, e.z.mode) /\ w[s] => s \in e.z.openAtArm \cup e.z.bypassed
        OBVIOUS
    <2> HIDE DEF e1, gone, opened
    <2>6. z \in Zones
        BY <2>0, <2>1 DEF Zones
    <2>7. /\ z.incident = e.z.incident /\ z.state = e.z.state /\ z.mode = e.z.mode
          /\ z.timer = e.z.timer /\ z.bypassed = e.z.bypassed
          /\ z.openAtArm = e.z.openAtArm \ gone /\ z.pendingCause = e.z.pendingCause
          /\ z.preState = e.z.preState /\ z.preMode = e.z.preMode /\ z.rearm = e.z.rearm
        BY <2>0, <2>1 DEF Zones
    <2> HIDE DEF z
    <2>8. Sane(e1) /\ Sane(b) /\ Typed(b) /\ b.z = z /\ b.cfg = e.cfg /\ b.row = e.row
        BY <2>1, <2>6, <2>7, WithStored DEF Sane, Linked, Stored
    <2> HIDE DEF b
    <2>9. /\ Sane(e2) /\ Typed(e2) /\ e2.cfg = e.cfg
          /\ Does(e, e2, f) /\ Punctual(e, e2, f) /\ Rests(e.z, e2.z)
          /\ e2.z.state = "armed" /\ e2.z.mode = e.z.mode /\ e2.z.bypassed = e.z.bypassed
          /\ e2.z.openAtArm = e.z.openAtArm \ gone
          /\ e2.z.pendingCause = e.z.pendingCause
          /\ e2.z.preState = e.z.preState /\ e2.z.preMode = e.z.preMode
          /\ e2.z.rearm = e.z.rearm
          /\ "row" \in f => e2.row = e.row
        <3>1. CASE gone = {}
            <4>1. e2 = e1
                BY <3>1
            <4> HIDE DEF e2
            <4>2. Rests(e.z, e2.z)
                BY <2>1, <4>1 DEF Rests
            <4> QED BY <1>2, <2>1, <2>8, <3>1, <4>1, <4>2
                    DEF Does, Moves, Saved, Same, Punctual, Sane, Stored
        <3>2. CASE gone # {}
            <4>1. e2 = Persist(b, f)
                BY <3>2
            <4> HIDE DEF e2
            <4>2. Rests(e.z, z)
                BY <2>7 DEF Rests
            <4>3. Does(e, e2, f) /\ Punctual(e, e2, f)
                BY <2>8, <4>1, <4>2, PersistDoes DEF Moves
            <4>4. Sane(e2) /\ Typed(e2) /\ e2.z = z /\ e2.cfg = e.cfg
                BY <2>8, <4>1, PersistSane DEF Sane, Stored
            <4>5. "row" \in f => e2.row = e.row
                BY <2>8, <4>1 DEF Persist
            <4> QED BY <1>2, <2>7, <4>2, <4>3, <4>4, <4>5
        <3> QED BY <3>1, <3>2
    <2> HIDE DEF e2
    <2>10. CASE opened = {}
        <3>1. c = e2
            BY <2>3, <2>10
        <3>2. Sees(e2, w)
            BY <2>4, <2>5, <2>9, <2>10 DEF Sees
        <3> QED BY <2>9, <3>1, <3>2
    <2>11. CASE opened # {}
        <3> DEFINE s == FirstOf(opened)
        <3>1. s \in e2.cfg.sensors /\ c = RouteActivation(e2, s, f)
            BY <2>2, <2>3, <2>9, <2>11, FirstOfMember
        <3> HIDE DEF s, c
        <3>2. /\ Does(e2, c, f) /\ Punctual(e2, c, f)
              /\ Pends(e2.cfg, e2.z, c.z) \/ Alarms(e2.z, c.z)
            BY <2>9, <3>1, RouteActivationDoes
        <3>3. Pends(e.cfg, e.z, c.z) \/ Alarms(e.z, c.z)
            BY <1>2, <2>9, <3>2 DEF Pends, Alarms, ArmedSide
        <3>4. c.z.state # "armed" /\ ~Same(e2.z, c.z)
            BY <2>9, <3>2 DEF Pends, Alarms, Same
        <3>5. Saved(e, c, f) /\ Punctual(e, c, f)
            BY <2>9, <3>2, <3>4, RowOfFields DEF Does, Saved, Punctual
        <3> QED BY <2>9, <3>2, <3>3, <3>4, <3>5 DEF Does, Moves, c
    <2> QED BY <2>10, <2>11
<1> QED BY <1>1, <1>2

-----------------------------------------------------------------------------
\* The steps, by what they do to the engine.

\* The engine a handler starts from: the current one, with the event's value
\* observed or a spent settle timer removed.
Like(e) ==
    /\ Sane(e) /\ Alike(eng, e)
    /\ e.db = db /\ e.fired = fired /\ e.horn = horn
    /\ e.z.incident = zone.incident /\ e.z.silencedID = zone.silencedID
    /\ e.z.hits = zone.hits /\ e.z.rearmMode = zone.rearmMode

\* No auto-rearm is planned, in memory or in the row.
NoPlan(e) == e.z.rearmMode = None /\ e.row.rearmMode = None

\* What concerns neither state, countdown nor incident.
Minor(e, c, f) ==
    /\ Does(e, c, f) /\ Punctual(e, c, f) /\ Rests(e.z, c.z)
    /\ c.db = e.db /\ c.fired = e.fired /\ c.horn \in {e.horn, FALSE}
    /\ c.z.incident = e.z.incident /\ c.z.silencedID = e.z.silencedID
    /\ c.z.timer = e.z.timer /\ c.z.rearmMode \in {e.z.rearmMode, None}
    /\ NoPlan(e) => NoPlan(c)

\* Every handler but that of the arm verb.
Reaction(e, c, f) ==
    \/ Minor(e, c, f)
    \/ c = DisarmLocked(e, f)
    \/ e.z.incident # None /\ c = Persist(SilenceIncident(e, f), f)
    \/ \E cause \in Sensors \cup {None}, loud \in BOOLEAN : c = AlwaysOnFire(e, cause, loud, f)
    \/ \E s \in e.cfg.sensors : \E keep : c = GateCrossZone(e, s, keep, f)
    \/ e.z.state = "armed" /\ \E s \in e.cfg.sensors : c = RouteActivation(e, s, f)
    \/ ArmedSide(e.z.state) /\ c = Trigger(e, None, FALSE, f)
    \/ c = ReEvaluate(e, ready, world, f)
    \/ e.z.timer # "none" /\ c = OnStateTimerFired(e, f)
    \/ e.z.state = "arming" /\ c = CompleteArm(e, f)
    \/ c = OnAutoRearmElapsed(e, ready, world, trouble, f)

Outcome(e, c, f) ==
    \/ Reaction(e, c, f)
    \/ /\ e.z.state \notin {"pending", "triggered"}
       /\ \E m \in e.cfg.modes : \E bypass, force, skip :
            c = BeginArm(e, m, bypass, force, skip, ready, world, trouble, f)

Handled ==
    /\ life' = life /\ life # "down" /\ restarts' = restarts
    /\ \E f \in Faults : \E e, c : Writing(f) /\ Like(e) /\ Becomes(c) /\ Outcome(e, c, f)

Reacts ==
    /\ life' = life /\ life # "down" /\ restarts' = restarts
    /\ \E f \in Faults : \E e, c : Writing(f) /\ Like(e) /\ Becomes(c) /\ Reaction(e, c, f)

LEMMA ReactsHandled == Reacts => Handled
BY DEF Reacts, Handled, Outcome

\* The engine does nothing; the siren may end its cycle.
Quiet ==
    /\ UNCHANGED <<life, zone, cfg, view, row, db, fired, hushed, restarts, faults>>
    /\ horn' \in {horn, FALSE}

LEMMA EngFields ==
    /\ eng.z = zone /\ eng.cfg = cfg /\ eng.view = view /\ eng.row = row /\ eng.db = db
    /\ eng.horn = horn /\ eng.fired = fired
BY DEF eng

LEMMA LikeEng ==
    ASSUME EngineOK
    PROVE  Like(eng) /\ Stored(eng) /\ Typed(eng)
<1>1. Sane(eng)
    BY EngSane
<1> QED BY <1>1, EngFields DEF Like, Alike, Same, Sane, Stored

LEMMA LikeSeen ==
    ASSUME EngineOK, world \in [Sensors -> BOOLEAN], NEW s \in Sensors
    PROVE  Like(Seen(s)) /\ Typed(Seen(s)) /\ Seen(s).z = zone /\ Seen(s).cfg = cfg
           /\ Seen(s).row = row
<1> DEFINE v == [eng.view EXCEPT ![s] = Observed(world[s])]
<1>1. Sane(Seen(s)) /\ Sane(eng)
    BY SeenSane, EngSane
<1>2. Seen(s) = [eng EXCEPT !.view = v]
    BY DEF Seen
<1> HIDE DEF v
<1>3. /\ Seen(s).z = eng.z /\ Seen(s).cfg = eng.cfg /\ Seen(s).row = eng.row
      /\ Seen(s).db = eng.db /\ Seen(s).horn = eng.horn /\ Seen(s).fired = eng.fired
    BY <1>1, <1>2 DEF Sane, Stored, Typed, Engines
<1> QED BY <1>1, <1>3, EngFields DEF Like, Alike, Same, Sane, Stored

LEMMA NoFaults ==
    /\ {} \in Faults
    /\ faults' = faults => Writing({})
BY DEF Faults, Writing

LEMMA MinorSelf ==
    ASSUME NEW e, Typed(e), NEW f
    PROVE  Minor(e, e, f)
BY DoesNothing DEF Minor, Rests

LEMMA MinorTweak ==
    ASSUME NEW e, Typed(e), NEW z \in Zones, Same(e.z, z), z.timer = e.z.timer,
           z.incident = e.z.incident, z.silencedID = e.z.silencedID,
           z.rearm => e.z.rearm \/ e.z.state = "disarmed",
           z.rearmMode \in {e.z.rearmMode, None}, NEW f
    PROVE  /\ Minor(e, With(e, z), f) /\ Minor(e, Persist(With(e, z), f), f)
           /\ Persist(With(e, z), f).z = z
<1> DEFINE b == With(e, z)
           p == Persist(b, f)
<1>1. Rests(e.z, z)
    BY DEF Rests, Same
<1>2. /\ Typed(b) /\ b.z = z /\ b.cfg = e.cfg /\ b.row = e.row /\ b.db = e.db
      /\ b.fired = e.fired /\ b.horn = e.horn
    BY WithTyped DEF With, Typed, Engines
<1> HIDE DEF b
<1>3. /\ p.z = z /\ p.cfg = e.cfg /\ p.db = e.db /\ p.fired = e.fired /\ p.horn = e.horn
    BY <1>2, PersistTyped DEF Persist, Typed, Engines
<1>4. Does(e, p, f) /\ Punctual(e, p, f)
    BY <1>1, <1>2, PersistDoes DEF Moves
<1> HIDE DEF p
<1>5. Does(e, b, f) /\ Punctual(e, b, f)
    BY <1>1, <1>2 DEF Does, Moves, Saved, Punctual
<1>6. NoPlan(e) => NoPlan(b) /\ NoPlan(p)
    <2>1. p.row \in {b.row, RowOf(z)}
        BY <1>2 DEF p, Persist, Typed, Engines
    <2>2. RowOf(z).rearmMode = z.rearmMode
        BY DEF RowOf
    <2> QED BY <1>2, <1>3, <2>1, <2>2 DEF NoPlan
<1>7. Minor(e, b, f) /\ Minor(e, p, f)
    BY <1>1, <1>2, <1>3, <1>4, <1>5, <1>6 DEF Minor
<1> QED BY <1>3, <1>7 DEF b, p

LEMMA HandledBy ==
    ASSUME NEW f \in Faults, NEW e, NEW c, Writing(f), Like(e), Becomes(c), Outcome(e, c, f),
           life' = life, life # "down", restarts' = restarts
    PROVE  Handled
BY DEF Handled

LEMMA ReactsBy ==
    ASSUME NEW f \in Faults, NEW e, NEW c, Writing(f), Like(e), Becomes(c), Reaction(e, c, f),
           life' = life, life # "down", restarts' = restarts
    PROVE  Reacts
BY DEF Reacts

LEMMA ArmKinds ==
    ASSUME ControlInv, ArmVerb
    PROVE  Handled
<1>1. EngineOK /\ AroundOK /\ Like(eng) /\ Stored(eng) /\ Typed(eng) /\ zone \in Zones
    BY ControlInvParts, LikeEng DEF EngineOK
<1>2. eng.z = zone /\ eng.cfg = cfg
    BY EngFields
<1>3. PICK m \in Modes, bypass \in SUBSET Sensors, force \in BOOLEAN, skip \in BOOLEAN :
            Arm(m, bypass, force, skip)
    BY DEF ArmVerb
<1>4. PICK f \in Faults :
        Writing(f) /\ Becomes(BeginArm(eng, m, bypass, force, skip, ready, world, trouble, f))
    BY <1>3 DEF Arm
<1>5. /\ life' = life /\ life # "down" /\ restarts' = restarts /\ m \in cfg.modes
      /\ zone.state \notin {"pending", "triggered"}
    BY <1>3 DEF Arm
<1>6. Outcome(eng, BeginArm(eng, m, bypass, force, skip, ready, world, trouble, f), f)
    BY <1>2, <1>5 DEF Outcome
<1> QED BY <1>1, <1>4, <1>5, <1>6, HandledBy

LEMMA VerbKinds ==
    ASSUME ControlInv, Disarm \/ OtherVerb
    PROVE  Reacts
<1>1. EngineOK /\ AroundOK /\ Like(eng) /\ Stored(eng) /\ Typed(eng) /\ zone \in Zones
    BY ControlInvParts, LikeEng DEF EngineOK
<1>2. eng.z = zone /\ eng.cfg = cfg
    BY EngFields
<1>4. CASE Disarm
    <2> DEFINE c(f) == IF zone.state # "disarmed" THEN DisarmLocked(eng, f)
                       ELSE IF zone.rearm THEN Persist(With(eng, CancelAutoRearm(zone)), f)
                       ELSE eng
    <2>1. PICK f \in Faults : Writing(f) /\ Becomes(c(f))
        BY <1>4 DEF Disarm
    <2>2. life' = life /\ life # "down" /\ restarts' = restarts
        BY <1>4 DEF Disarm
    <2>3. Reaction(eng, DisarmLocked(eng, f), f)
        BY DEF Reaction
    <2>4. Reaction(eng, eng, f)
        BY <1>1, MinorSelf DEF Reaction
    <2>5. Reaction(eng, Persist(With(eng, CancelAutoRearm(zone)), f), f)
        <3> DEFINE z == CancelAutoRearm(zone)
        <3>1. z \in Zones
            BY <1>1, CancelAutoRearmZone
        <3>2. /\ Same(zone, z) /\ z.timer = zone.timer /\ z.incident = zone.incident
              /\ z.silencedID = zone.silencedID /\ ~z.rearm /\ z.rearmMode = None
            BY <1>1, <3>1 DEF CancelAutoRearm, Zones, Same, IncidentId
        <3> HIDE DEF z
        <3>3. Minor(eng, Persist(With(eng, z), f), f)
            BY <1>1, <1>2, <3>1, <3>2, MinorTweak
        <3> QED BY <3>3 DEF Reaction, z
    <2>6. Reaction(eng, c(f), f)
        BY <2>3, <2>4, <2>5
    <2> HIDE DEF c
    <2> QED BY <1>1, <2>1, <2>2, <2>6, ReactsBy
<1>5. CASE Silence
    <2>1. PICK f \in Faults :
            Writing(f) /\ Becomes(IF zone.incident = None THEN StopAll(eng)
                                  ELSE Persist(SilenceIncident(eng, f), f))
        BY <1>5 DEF Silence
    <2>2. life' = life /\ life # "down" /\ restarts' = restarts
        BY <1>5 DEF Silence
    <2>3. CASE zone.incident = None
        <3> DEFINE c == StopAll(eng)
        <3>1. /\ c.z = eng.z /\ c.cfg = eng.cfg /\ c.row = eng.row /\ c.db = eng.db
              /\ c.fired = eng.fired /\ c.horn = FALSE
            BY <1>1 DEF StopAll, Typed, Engines
        <3> HIDE DEF c
        <3>2. Rests(eng.z, c.z)
            BY <3>1 DEF Rests
        <3>3. Minor(eng, c, f)
            BY <3>1, <3>2 DEF Minor, Does, Moves, Saved, Same, Punctual, NoPlan
        <3>4. Reaction(eng, c, f) /\ Becomes(c)
            BY <2>1, <2>3, <3>3 DEF Reaction, c
        <3> QED BY <1>1, <2>1, <2>2, <3>4, ReactsBy
    <2>4. CASE zone.incident # None
        <3>1. Reaction(eng, Persist(SilenceIncident(eng, f), f), f)
            BY <1>2, <2>4 DEF Reaction
        <3> QED BY <1>1, <2>1, <2>2, <2>4, <3>1, ReactsBy
    <2> QED BY <2>3, <2>4
<1>6. ASSUME NEW silent \in BOOLEAN, PanicTrigger(silent) PROVE Reacts
    <2>1. PICK f \in Faults : Writing(f) /\ Becomes(AlwaysOnFire(eng, None, ~silent, f))
        BY <1>6 DEF PanicTrigger
    <2>2. life' = life /\ life # "down" /\ restarts' = restarts
        BY <1>6 DEF PanicTrigger
    <2>3. (~silent) \in BOOLEAN
        OBVIOUS
    <2>4. Reaction(eng, AlwaysOnFire(eng, None, ~silent, f), f)
        BY <2>3 DEF Reaction
    <2> QED BY <1>1, <2>1, <2>2, <2>4, ReactsBy
<1>7. CASE WalkTestStart \/ WalkTestStop
    <2>1. PICK b \in BOOLEAN : Becomes(With(eng, [zone EXCEPT !.walk = b]))
        BY <1>7 DEF WalkTestStart, WalkTestStop
    <2>2. life' = life /\ life # "down" /\ restarts' = restarts /\ faults' = faults
        BY <1>7 DEF WalkTestStart, WalkTestStop, countVars
    <2> DEFINE z == [zone EXCEPT !.walk = b]
    <2>3. z \in Zones
        BY <1>1 DEF Zones
    <2>4. /\ Same(zone, z) /\ z.timer = zone.timer /\ z.incident = zone.incident
          /\ z.silencedID = zone.silencedID /\ z.rearm = zone.rearm
          /\ z.rearmMode = zone.rearmMode
        BY <1>1 DEF Zones, Same, IncidentId
    <2> HIDE DEF z
    <2>5. Reaction(eng, With(eng, z), {})
        BY <1>1, <1>2, <2>3, <2>4, MinorTweak DEF Reaction
    <2>6. Becomes(With(eng, z))
        BY <2>1 DEF z
    <2> QED BY <1>1, <2>2, <2>5, <2>6, NoFaults, ReactsBy
<1> QED BY <1>4, <1>5, <1>6, <1>7 DEF OtherVerb

LEMMA EventKinds ==
    ASSUME ControlInv, NEW s \in Sensors, SensorEvent(s)
    PROVE  Reacts
<1>1. EngineOK /\ AroundOK /\ Like(eng) /\ Typed(eng) /\ zone \in Zones
    BY ControlInvParts, LikeEng DEF EngineOK
<1>2. /\ Like(Seen(s)) /\ Typed(Seen(s)) /\ Seen(s).z = zone /\ Seen(s).cfg = cfg
    BY <1>1, LikeSeen DEF AroundOK
<1>3. life' = life /\ life # "down" /\ restarts' = restarts
    BY DEF SensorEvent, AlwaysOnEvent, ClearEvent, ActivityWhileDisarmed, ActivationEvent,
           IgnoredEvent, Delivered
<1>4. ASSUME NEW f \in Faults, Writing(f), Becomes(Seen(s)) PROVE Reacts
    <2>1. Reaction(Seen(s), Seen(s), f)
        BY <1>2, MinorSelf DEF Reaction
    <2> QED BY <1>2, <1>3, <1>4, <2>1, ReactsBy
<1>5. CASE AlwaysOnEvent(s)
    <2>1. PICK f \in Faults :
            Writing(f) /\ Becomes(AlwaysOnFire(Seen(s), s, ~SensorConfig[s].panicSilent, f))
        BY <1>5 DEF AlwaysOnEvent
    <2>2. Reaction(Seen(s), AlwaysOnFire(Seen(s), s, ~SensorConfig[s].panicSilent, f), f)
        <3> DEFINE loud == ~SensorConfig[s].panicSilent
        <3>1. loud \in BOOLEAN
            OBVIOUS
        <3> HIDE DEF loud
        <3>2. Reaction(Seen(s), AlwaysOnFire(Seen(s), s, loud, f), f)
            BY <3>1 DEF Reaction
        <3> QED BY <3>2 DEF loud
    <2> QED BY <1>2, <1>3, <2>1, <2>2, ReactsBy
<1>6. CASE ClearEvent(s)
    <2> DEFINE e1 == Seen(s)
               z1 == [zone EXCEPT !.openAtArm = @ \ {s}]
               e2(f) == IF s \in zone.openAtArm THEN Persist(With(e1, z1), f) ELSE e1
               settle == /\ zone.state = "arming"
                         /\ SensorConfig[s].armAfterClosing
                         /\ InMode(s, zone.mode)
               c(f) == IF settle THEN With(e2(f), [e2(f).z EXCEPT !.debounce = s]) ELSE e2(f)
    <2>1. PICK f \in Faults : Writing(f) /\ Becomes(c(f))
        BY <1>6 DEF ClearEvent
    <2>2. z1 \in Zones
        BY <1>1 DEF Zones
    <2>3. /\ z1.state = zone.state /\ z1.mode = zone.mode /\ z1.bypassed = zone.bypassed
          /\ z1.openAtArm \subseteq zone.openAtArm /\ z1.pendingCause = zone.pendingCause
          /\ z1.preState = zone.preState /\ z1.preMode = zone.preMode
          /\ z1.timer = zone.timer /\ z1.incident = zone.incident
          /\ z1.silencedID = zone.silencedID /\ z1.rearm = zone.rearm
          /\ z1.rearmMode = zone.rearmMode
        BY <1>1 DEF Zones
    <2>4. Rests(zone, z1)
        BY <2>3 DEF Rests
    <2> HIDE DEF z1, e1
    <2> DEFINE w == With(e1, z1)
               p == Persist(w, f)
               e3 == e2(f)
               z3 == [e3.z EXCEPT !.debounce = s]
               d == With(e3, z3)
    <2>5. /\ Typed(w) /\ w.z = z1 /\ w.cfg = e1.cfg /\ w.row = e1.row /\ w.db = e1.db
          /\ w.fired = e1.fired /\ w.horn = e1.horn
        BY <1>2, <2>2, <2>3, WithTyped DEF With, Typed, Engines, e1
    <2> HIDE DEF w
    <2>6. /\ Typed(p) /\ p.z = z1 /\ p.cfg = e1.cfg /\ p.db = e1.db /\ p.fired = e1.fired
          /\ p.horn = e1.horn /\ p.row \in {e1.row, RowOf(z1)}
        BY <2>5, PersistTyped DEF Persist, Typed, Engines
    <2>7. Does(e1, p, f) /\ Punctual(e1, p, f)
        BY <1>2, <2>4, <2>5, PersistDoes DEF Moves, e1
    <2> HIDE DEF p
    <2>8. Minor(e1, p, f)
        <3>1. NoPlan(e1) => NoPlan(p)
            BY <1>2, <2>3, <2>6 DEF NoPlan, RowOf, e1
        <3> QED BY <1>2, <2>3, <2>4, <2>6, <2>7, <3>1 DEF Minor, e1
    <2>9. e3 \in {e1, p}
        BY DEF p, w
    <2>10. c(f) \in {e3, d}
        OBVIOUS
    <2> HIDE DEF e2, e3, c
    <2>11. Typed(e3) /\ Minor(e1, e3, f)
        BY <1>2, <2>6, <2>8, <2>9, MinorSelf DEF e1
    <2>12. Minor(e1, d, f)
        <3>1. e3.z \in Zones
            BY <2>11 DEF Typed, Engines
        <3>2. z3 \in Zones
            BY <3>1 DEF Zones
        <3>3. /\ Same(e3.z, z3) /\ z3.timer = e3.z.timer /\ z3.incident = e3.z.incident
              /\ z3.silencedID = e3.z.silencedID /\ z3.rearm = e3.z.rearm
              /\ z3.rearmMode = e3.z.rearmMode
              /\ RowOf(z3) = RowOf(e3.z)
            BY <3>1 DEF Zones, Same, IncidentId, RowOf
        <3> HIDE DEF z3
        <3>4. /\ d.z = z3 /\ d.cfg = e3.cfg /\ d.row = e3.row /\ d.db = e3.db
              /\ d.fired = e3.fired /\ d.horn = e3.horn
            BY <2>11, <3>2, <3>3 DEF With, Typed, Engines
        <3> HIDE DEF d
        <3>5. Rests(e1.z, d.z)
            BY <2>11, <3>3, <3>4 DEF Minor, Rests, Same
        <3>6. Saved(e1, d, f)
            BY <2>11, <3>3, <3>4 DEF Minor, Does, Saved, Same
        <3>7. NoPlan(e1) => NoPlan(d)
            BY <2>11, <3>3, <3>4 DEF Minor, NoPlan
        <3> QED BY <2>11, <3>3, <3>4, <3>5, <3>6, <3>7 DEF Minor, Does, Moves, Punctual
    <2>13. Reaction(e1, c(f), f)
        BY <2>10, <2>11, <2>12 DEF Reaction
    <2> QED BY <1>2, <1>3, <2>1, <2>13, ReactsBy DEF e1
<1>7. CASE ActivityWhileDisarmed(s)
    <2>1. PICK f \in Faults : Writing(f) /\ Becomes(Persist(Seen(s), f))
        BY <1>7 DEF ActivityWhileDisarmed
    <2> DEFINE e1 == Seen(s)
    <2>2. With(e1, e1.z) = e1
        BY <1>2 DEF With, Typed, Engines
    <2>3. Minor(e1, Persist(With(e1, e1.z), f), f)
        <3> HIDE DEF e1
        <3>1. Same(e1.z, e1.z) /\ e1.z \in Zones
            BY <1>2 DEF Same, e1, Typed, Engines
        <3> QED BY <1>2, <3>1, MinorTweak DEF e1
    <2>4. Reaction(e1, Persist(e1, f), f)
        BY <2>2, <2>3 DEF Reaction
    <2> QED BY <1>2, <1>3, <2>1, <2>4, ReactsBy
<1>8. CASE ActivationEvent(s)
    <2>1. \/ Becomes(Seen(s)) /\ faults' = faults
          \/ \E f \in Faults, keep \in SUBSET zone.hits :
                Writing(f) /\ Becomes(GateCrossZone(Seen(s), s, keep, f))
        BY <1>8 DEF ActivationEvent
    <2>2. s \in Seen(s).cfg.sensors
        BY <1>2, <1>8 DEF ActivationEvent, Gated
    <2>3. ASSUME NEW f \in Faults, NEW keep, Writing(f),
                 Becomes(GateCrossZone(Seen(s), s, keep, f))
          PROVE  Reacts
        <3>1. Reaction(Seen(s), GateCrossZone(Seen(s), s, keep, f), f)
            BY <2>2 DEF Reaction
        <3> QED BY <1>2, <1>3, <2>3, <3>1, ReactsBy
    <2> QED BY <1>4, <2>1, <2>3, NoFaults
<1>9. CASE IgnoredEvent(s)
    <2>1. (Becomes(Seen(s)) \/ Becomes(eng)) /\ faults' = faults
        BY <1>9 DEF IgnoredEvent
    <2>2. Reaction(eng, eng, {})
        BY <1>1, MinorSelf DEF Reaction
    <2> QED BY <1>1, <1>3, <1>4, <2>1, <2>2, NoFaults, ReactsBy
<1> QED BY <1>5, <1>6, <1>7, <1>8, <1>9 DEF SensorEvent

LEMMA StatusKinds ==
    ASSUME ControlInv, SensorStatus
    PROVE  Reacts \/ Quiet
<1>1. EngineOK /\ AroundOK /\ Like(eng) /\ Typed(eng)
    BY ControlInvParts, LikeEng
<1>2. eng.z = zone /\ eng.cfg = cfg
    BY EngFields
<1>3. Reaction(eng, eng, {})
    BY <1>1, MinorSelf DEF Reaction
<1>4. ASSUME NEW s \in Sensors, NEW available \in BOOLEAN, SetSensorAvailability(s, available)
      PROVE  Reacts
    <2>1. life' = life /\ life # "down" /\ restarts' = restarts /\ s \in cfg.sensors
        BY <1>4 DEF SetSensorAvailability
    <2>2. \/ Becomes(eng) /\ faults' = faults
          \/ /\ zone.state = "armed"
             /\ \E f \in Faults : Writing(f) /\ Becomes(RouteActivation(eng, s, f))
        BY <1>4 DEF SetSensorAvailability
    <2>3. ASSUME NEW f \in Faults, zone.state = "armed" PROVE Reaction(eng, RouteActivation(eng, s, f), f)
        BY <1>2, <2>1, <2>3 DEF Reaction
    <2> QED BY <1>1, <1>3, <2>1, <2>2, <2>3, NoFaults, ReactsBy
<1>5. CASE CentralLost
    <2>1. life' = life /\ life # "down" /\ restarts' = restarts
        BY <1>5 DEF CentralLost
    <2>2. \/ Becomes(eng) /\ faults' = faults
          \/ /\ ArmedSide(zone.state)
             /\ \E f \in Faults : Writing(f) /\ Becomes(Trigger(eng, None, FALSE, f))
        BY <1>5 DEF CentralLost
    <2>3. ASSUME NEW f \in Faults, ArmedSide(zone.state)
          PROVE  Reaction(eng, Trigger(eng, None, FALSE, f), f)
        BY <1>2, <2>3 DEF Reaction
    <2> QED BY <1>1, <1>3, <2>1, <2>2, <2>3, NoFaults, ReactsBy
<1>6. CASE ReevaluateSensors
    <2>1. PICK f \in Faults : Writing(f) /\ Becomes(ReEvaluate(eng, ready, world, f))
        BY <1>6 DEF ReevaluateSensors
    <2>2. life' = life /\ life # "down" /\ restarts' = restarts
        BY <1>6 DEF ReevaluateSensors
    <2>3. Reaction(eng, ReEvaluate(eng, ready, world, f), f)
        BY DEF Reaction
    <2> QED BY <1>1, <2>1, <2>2, <2>3, ReactsBy
<1>7. ASSUME NEW s, NEW flags, SetSensorHealth(s, flags) PROVE Quiet
    BY <1>7 DEF SetSensorHealth, Quiet, engVars, countVars
<1>8. CASE CentralRestored
    BY <1>8 DEF CentralRestored, Quiet, engVars, countVars
<1> QED BY <1>4, <1>5, <1>6, <1>7, <1>8 DEF SensorStatus

LEMMA TimerKindsOfStep ==
    ASSUME ControlInv, Timer
    PROVE  Reacts
<1>1. EngineOK /\ AroundOK /\ Like(eng) /\ Typed(eng) /\ zone \in Zones /\ Sane(eng)
    BY ControlInvParts, LikeEng DEF EngineOK, Like
<1>2. eng.z = zone /\ eng.cfg = cfg /\ eng.row = row /\ eng.db = db /\ eng.fired = fired
      /\ eng.horn = horn
    BY EngFields
<1>3. CASE StateTimerFires
    <2>1. PICK f \in Faults : Writing(f) /\ Becomes(OnStateTimerFired(eng, f))
        BY <1>3 DEF StateTimerFires
    <2>2. life' = life /\ life # "down" /\ restarts' = restarts /\ zone.timer # "none"
        BY <1>3 DEF StateTimerFires
    <2>3. Reaction(eng, OnStateTimerFired(eng, f), f)
        BY <1>2, <2>2 DEF Reaction
    <2> QED BY <1>1, <2>1, <2>2, <2>3, ReactsBy
<1>4. CASE DebounceElapsed
    <2> DEFINE z == [zone EXCEPT !.debounce = None]
               e1 == With(eng, z)
    <2>1. life' = life /\ life # "down" /\ restarts' = restarts
        BY <1>4 DEF DebounceElapsed
    <2>2. \/ Becomes(e1) /\ faults' = faults
          \/ /\ zone.state = "arming"
             /\ \E f \in Faults : Writing(f) /\ Becomes(CompleteArm(e1, f))
        BY <1>4 DEF DebounceElapsed
    <2>3. z \in Zones
        BY <1>1 DEF Zones
    <2>4. /\ Same(zone, z) /\ z.timer = zone.timer /\ z.incident = zone.incident
          /\ z.silencedID = zone.silencedID /\ z.rearm = zone.rearm /\ z.hits = zone.hits
          /\ z.rearmMode = zone.rearmMode
        BY <1>1 DEF Zones, Same, IncidentId
    <2> HIDE DEF z
    <2>5. Reaction(eng, e1, {})
        BY <1>1, <1>2, <2>3, <2>4, MinorTweak DEF Reaction
    <2>6. Like(e1) /\ e1.z.state = zone.state
        <3>1. Sane(e1) /\ e1.z = z
            BY <1>1, <1>2, <2>3, <2>4, WithStored DEF Sane, Linked, Same
        <3>2. /\ e1.cfg = cfg /\ e1.row = row /\ e1.db = db /\ e1.fired = fired
              /\ e1.horn = horn
            BY <1>1, <1>2 DEF With, Typed, Engines
        <3> QED BY <1>2, <2>4, <3>1, <3>2 DEF Like, Alike, Same
    <2> HIDE DEF e1
    <2>7. ASSUME NEW f \in Faults, zone.state = "arming" PROVE Reaction(e1, CompleteArm(e1, f), f)
        BY <2>6, <2>7 DEF Reaction
    <2> QED BY <1>1, <2>1, <2>2, <2>5, <2>6, <2>7, NoFaults, ReactsBy
<1>5. CASE AutoRearmFires
    <2>1. PICK f \in Faults :
            Writing(f) /\ Becomes(OnAutoRearmElapsed(eng, ready, world, trouble, f))
        BY <1>5 DEF AutoRearmFires
    <2>2. life' = life /\ life # "down" /\ restarts' = restarts
        BY <1>5 DEF AutoRearmFires
    <2>3. Reaction(eng, OnAutoRearmElapsed(eng, ready, world, trouble, f), f)
        BY DEF Reaction
    <2> QED BY <1>1, <2>1, <2>2, <2>3, ReactsBy
<1>6. ASSUME NEW s \in Sensors, HoldElapsed(s) PROVE Reacts
    <2>1. life' = life /\ life # "down" /\ restarts' = restarts
        BY <1>6 DEF HoldElapsed
    <2>2. \/ Becomes(eng) /\ faults' = faults
          \/ /\ s \in cfg.sensors
             /\ \E f \in Faults, keep \in SUBSET zone.hits :
                    Writing(f) /\ Becomes(GateCrossZone(eng, s, keep, f))
        BY <1>6 DEF HoldElapsed
    <2>3. Reaction(eng, eng, {})
        BY <1>1, MinorSelf DEF Reaction
    <2>4. ASSUME NEW f \in Faults, NEW keep, s \in cfg.sensors
          PROVE  Reaction(eng, GateCrossZone(eng, s, keep, f), f)
        BY <1>2, <2>4 DEF Reaction
    <2> QED BY <1>1, <2>1, <2>2, <2>3, <2>4, NoFaults, ReactsBy
<1> QED BY <1>3, <1>4, <1>5, <1>6 DEF Timer

\* Every step is a handler of a running engine, leaves the engine alone, or is a
\* step of the process's life.
LEMMA StepKinds ==
    ASSUME ControlInv, Next
    PROVE  Handled \/ Quiet \/ Reload \/ Stop \/ Exit \/ CrashInSilence \/ Start
<1>1. CASE Environment
    BY <1>1 DEF Environment, SensorChanges, ModelPopulated, HornTimesOut, WriteConfig, Quiet,
                engVars, countVars
<1> QED BY <1>1, ArmKinds, VerbKinds, EventKinds, StatusKinds, TimerKindsOfStep, ReactsHandled
        DEF Next, Process

\* A handler makes one of the moves and saves it.
LEMMA OutcomeDoes ==
    ASSUME Moded(zone), NEW f, NEW e, NEW c, Like(e), Outcome(e, c, f)
    PROVE  Does(eng, c, f) /\ (Clocked(zone) => Punctual(eng, c, f))
<1>1. Sane(e) /\ Alike(eng, e) /\ Stored(e)
    BY DEF Like, Sane
<1>2. eng.z = zone /\ Same(zone, e.z) /\ e.z.timer = zone.timer /\ e.z.rearm = zone.rearm
    BY <1>1, EngFields DEF Alike
<1>3. Moded(e.z) /\ (Clocked(zone) => Clocked(e.z))
    BY <1>2 DEF Moded, Clocked, Same
<1>4. e.z \in Zones /\ e.cfg \in Configs
    BY <1>1 DEF Stored, Typed, Engines
<1>5. SUFFICES Does(e, c, f) /\ (Clocked(e.z) => Punctual(e, c, f))
    BY <1>1, <1>3, AlikeDoes
<1>6. ASSUME e.z.state = "arming", c = CompleteArm(e, f)
      PROVE  Does(e, c, f) /\ Punctual(e, c, f)
    <2>1. e.z.incident = None
        BY <1>1, <1>6 DEF Sane, Linked
    <2>2. PICK b : /\ CompleteArm(e, f) = Persist(b, f)
                   /\ Stored(b) /\ b.cfg = e.cfg /\ b.row = e.row
                   /\ b.z.state = "armed" /\ b.z.mode = e.z.mode
                   /\ b.z.bypassed = e.z.bypassed /\ b.z.openAtArm \subseteq e.cfg.sensors
                   /\ b.z.pendingCause = e.z.pendingCause
                   /\ b.z.preState = e.z.preState /\ b.z.preMode = e.z.preMode
                   /\ b.z.timer = "none" /\ b.z.rearm = e.z.rearm
        BY <1>1, <2>1, CompleteArmFields
    <2>3. Settles(e.cfg, e.z, b.z)
        BY <1>6, <2>2 DEF Settles
    <2> QED BY <1>6, <2>2, <2>3, PersistDoes DEF Moves, Stored
<1>7. CASE Minor(e, c, f)
    BY <1>7 DEF Minor
<1>8. ASSUME e.z.state \notin {"pending", "triggered"}, NEW m \in e.cfg.modes, NEW bypass,
             NEW force, NEW skip, c = BeginArm(e, m, bypass, force, skip, ready, world, trouble, f)
      PROVE  Does(e, c, f) /\ Punctual(e, c, f)
    BY <1>1, <1>8, BeginArmDoes
<1>9. CASE c = DisarmLocked(e, f)
    BY <1>1, <1>9, DisarmLockedDoes
<1>10. CASE e.z.incident # None /\ c = Persist(SilenceIncident(e, f), f)
    BY <1>1, <1>10, SilenceDoes
<1>11. ASSUME NEW cause \in Sensors \cup {None}, NEW loud \in BOOLEAN,
              c = AlwaysOnFire(e, cause, loud, f)
       PROVE  Does(e, c, f) /\ Punctual(e, c, f)
    BY <1>1, <1>11, AlwaysOnFireDoes
<1>12. ASSUME NEW s \in e.cfg.sensors, NEW keep, c = GateCrossZone(e, s, keep, f)
       PROVE  Does(e, c, f) /\ Punctual(e, c, f)
    BY <1>1, <1>12, GateCrossZoneDoes
<1>13. ASSUME e.z.state = "armed", NEW s \in e.cfg.sensors, c = RouteActivation(e, s, f)
       PROVE  Does(e, c, f) /\ Punctual(e, c, f)
    BY <1>1, <1>13, RouteActivationDoes
<1>14. CASE ArmedSide(e.z.state) /\ c = Trigger(e, None, FALSE, f)
    BY <1>1, <1>14, TriggerDoes
<1>15. CASE c = ReEvaluate(e, ready, world, f)
    BY <1>1, <1>15, ReEvaluateDoes
<1>16. CASE e.z.timer # "none" /\ c = OnStateTimerFired(e, f)
    BY <1>1, <1>3, <1>16, OnStateTimerFiredDoes
<1>17. CASE c = OnAutoRearmElapsed(e, ready, world, trouble, f)
    BY <1>1, <1>17, OnAutoRearmElapsedDoes
<1> QED BY <1>6, <1>7, <1>8, <1>9, <1>10, <1>11, <1>12, <1>13, <1>14, <1>15, <1>16, <1>17
        DEF Outcome, Reaction

-----------------------------------------------------------------------------
\* The restores.

\* A restored engine: its zone and its row obey the mode discipline, and the row
\* is current unless its write failed.
Sound(c, f) ==
    /\ Moded(c.z) /\ Moded(c.row)
    /\ "row" \notin f => Agrees(c.row, c.z) /\ c.row.timer = c.z.timer

Even(c) == Matched(c.z) /\ Matched(c.row)

LEMMA SoundPersist ==
    ASSUME NEW b, Typed(b), Moded(b.z), Moded(b.row), NEW f
    PROVE  Sound(Persist(b, f), f) /\ (Even(b) => Even(Persist(b, f)))
<1> DEFINE c == Persist(b, f)
<1>1. c.z = b.z /\ c.row = IF "row" \in f THEN b.row ELSE RowOf(b.z)
    BY PersistTyped DEF Persist, Typed, Engines
<1> HIDE DEF c
<1>2. Sound(c, f) /\ (Even(b) => Even(c))
    BY <1>1, RowOfFields DEF Sound, Even
<1> QED BY <1>2 DEF c

LEMMA SoundDoes ==
    ASSUME NEW e, NEW c, NEW f, Typed(e), c.z \in Zones, Does(e, c, f), Punctual(e, c, f),
           Sound(e, f)
    PROVE  Sound(c, f) /\ (Even(e) => Even(c))
BY DoesKeeps DEF Sound, Even, Punctual

\* A handler that changes what a restart needs writes the row, whatever it was.
LEMMA SoundFresh ==
    ASSUME NEW e, NEW c, NEW f, Typed(e), c.z \in Zones, Does(e, c, f), ~Same(e.z, c.z),
           Moded(e.z), Moded(e.row)
    PROVE  Sound(c, f) /\ (Even(e) => Even(c))
<1>1. Moded(c.z) /\ Moded(c.row) /\ (Even(e) => Even(c))
    BY DoesKeeps DEF Even
<1>2. "row" \notin f => c.row = RowOf(c.z)
    BY DEF Does, Saved
<1> QED BY <1>1, <1>2, RowOfFields DEF Sound

LEMMA SoundReEvaluate ==
    ASSUME NEW e, Sane(e), NEW r, NEW w, NEW f, Sound(e, f)
    PROVE  LET c == ReEvaluate(e, r, w, f)
           IN Sound(c, f) /\ (Even(e) => Even(c)) /\ (r /\ c.z.state = "armed" => Sees(c, w))
<1> DEFINE c == ReEvaluate(e, r, w, f)
<1>1. Sane(c) /\ Does(e, c, f) /\ Punctual(e, c, f) /\ (r /\ c.z.state = "armed" => Sees(c, w))
    BY ReEvaluateSane, ReEvaluateDoes DEF Keeps
<1> HIDE DEF c
<1>2. Typed(e) /\ c.z \in Zones
    BY <1>1 DEF Sane, Stored, Typed, Engines
<1>3. Sound(c, f) /\ (Even(e) => Even(c))
    BY <1>1, <1>2, SoundDoes
<1> QED BY <1>1, <1>3 DEF c

\* What LoadRow has put into the zone.
Loaded(e) ==
    /\ e.z.mode = e.row.mode /\ e.z.bypassed = e.row.bypassed
    /\ e.z.openAtArm = e.row.openAtArm /\ e.z.pendingCause = e.row.pendingCause
    /\ e.z.preState = e.row.preState /\ e.z.preMode = e.row.preMode
    /\ e.z.preAlarm = e.row.preAlarm /\ e.z.rearmMode = e.row.rearmMode
    /\ ~e.z.rearm /\ e.z.timer = "none"

LEMMA LoadRowLoads ==
    ASSUME NEW e, Stored(e), NEW readable, NEW f
    PROVE  LET c == LoadRow(e, readable, f)
           IN Loaded(c) /\ c.row = e.row /\ c.cfg = e.cfg /\ c.view = e.view
<1> DEFINE c == LoadRow(e, readable, f)
           x == ZoneOf(e.row)
<1>1. e.row \in Rows
    BY DEF Stored, Typed, Engines
<1>2. x \in Zones
    BY <1>1 DEF ZoneOf, Zones, Rows, States, TimerKinds
<1>3. /\ x.mode = e.row.mode /\ x.bypassed = e.row.bypassed
      /\ x.openAtArm = e.row.openAtArm /\ x.pendingCause = e.row.pendingCause
      /\ x.preState = e.row.preState /\ x.preMode = e.row.preMode
      /\ x.preAlarm = e.row.preAlarm /\ x.rearmMode = e.row.rearmMode
      /\ ~x.rearm /\ x.timer = "none"
    BY DEF ZoneOf
<1>4. \E sid, inc, d : c = [e EXCEPT !.z = [x EXCEPT !.silencedID = sid, !.incident = inc],
                                     !.db = d]
    BY DEF LoadRow
<1>5. PICK sid, inc, d : c = [e EXCEPT !.z = [x EXCEPT !.silencedID = sid, !.incident = inc],
                                       !.db = d]
    BY <1>4
<1> HIDE DEF c, x
<1> DEFINE y == [x EXCEPT !.silencedID = sid, !.incident = inc]
<1>6. c.z = y /\ c.row = e.row /\ c.cfg = e.cfg /\ c.view = e.view
    BY <1>5 DEF Stored, Typed, Engines
<1>7. /\ y.mode = x.mode /\ y.bypassed = x.bypassed
      /\ y.openAtArm = x.openAtArm /\ y.pendingCause = x.pendingCause
      /\ y.preState = x.preState /\ y.preMode = x.preMode
      /\ y.preAlarm = x.preAlarm /\ y.rearmMode = x.rearmMode
      /\ y.rearm = x.rearm /\ y.timer = x.timer
    BY <1>2 DEF Zones
<1> HIDE DEF y
<1>8. Loaded(c)
    BY <1>3, <1>6, <1>7 DEF Loaded
<1> QED BY <1>6, <1>8 DEF c

\* An engine that has just armed: nothing blocks on the values known now, and a
\* zone that is armed already has every open member in its baseline or bypassed.
Vetted(c, r, w, tr) ==
    /\ Blocking(RefreshSensorValues(c, r, w), tr, c.z.mode) = {}
    /\ r /\ c.z.state = "armed" => Sees(c, w)

LEMMA RefreshFields ==
    ASSUME NEW e, Typed(e), NEW r, NEW w
    PROVE  LET c == RefreshSensorValues(e, r, w)
           IN /\ c.z = e.z /\ c.cfg = e.cfg
              /\ \A s \in Sensors : c.view[s] = IF r /\ s \in e.cfg.sensors
                                               THEN Observed(w[s]) ELSE e.view[s]
BY DEF RefreshSensorValues, Typed, Engines

LEMMA BlockingFields ==
    ASSUME NEW a, NEW b, Typed(a), Typed(b), a.z = b.z, a.cfg = b.cfg, a.view = b.view,
           NEW r, NEW w, NEW tr, NEW m
    PROVE  /\ Blocking(RefreshSensorValues(a, r, w), tr, m)
                = Blocking(RefreshSensorValues(b, r, w), tr, m)
           /\ Vetted(a, r, w, tr) => Vetted(b, r, w, tr)
<1> DEFINE p == RefreshSensorValues(a, r, w)
           q == RefreshSensorValues(b, r, w)
<1>0. a.cfg.sensors \subseteq Sensors
    BY DEF Typed, Engines, Configs
<1>1. p.z = q.z /\ p.cfg = q.cfg /\ p.cfg = a.cfg /\ \A s \in Sensors : p.view[s] = q.view[s]
    BY RefreshFields
<1> HIDE DEF p, q
<1>2. \A n : Blocking(p, tr, n) = Blocking(q, tr, n)
    BY <1>0, <1>1 DEF Blocking
<1>3. Sees(a, w) => Sees(b, w)
    BY DEF Sees
<1> QED BY <1>2, <1>3 DEF Vetted, p, q

LEMMA BeginArmVetted ==
    ASSUME NEW e, Sane(e), e.z.state = "disarmed", e.z.bypassed = {}, NEW m \in e.cfg.modes,
           NEW bypass, NEW force, NEW skip, NEW r, NEW w, NEW tr, NEW f
    PROVE  LET c == BeginArm(e, m, bypass, force, skip, r, w, tr, f)
           IN ArmedSide(c.z.state) => Vetted(c, r, w, tr)
<1> DEFINE z1 == [CancelAutoRearm(e.z) EXCEPT !.walk = FALSE]
           e0 == With(e, z1)
           e1 == RefreshSensorValues(e0, r, w)
           blocking == Blocking(e1, tr, m)
           excluded == (bypass \cap e.cfg.sensors) \cup AutoBypass(blocking)
           remaining == blocking \ excluded
           bp == excluded \cup remaining
           x == CancelTimers(e1.z)
           z2 == [x EXCEPT !.bypassed = bp, !.mode = m, !.pendingCause = None,
                           !.openAtArm = {}]
           z3 == [z2 EXCEPT !.state = "arming", !.timer = "exit_delay"]
           c == BeginArm(e, m, bypass, force, skip, r, w, tr, f)
<1>0. e.z \in Zones /\ e.cfg \in Configs /\ m \in Modes /\ Stored(e) /\ e.z.incident = None
      /\ Typed(e)
    BY DEF Sane, Linked, Stored, Typed, Engines, Configs
<1>1. z1 \in Zones /\ z1.incident = None /\ z1.bypassed = {} /\ z1.state = "disarmed"
    <2>1. CancelAutoRearm(e.z) \in Zones
        BY <1>0, CancelAutoRearmZone
    <2>2. z1 \in Zones
        BY <2>1 DEF Zones
    <2> QED BY <1>0, <2>2 DEF CancelAutoRearm, Zones
<1> HIDE DEF z1
<1>2. Stored(e0) /\ Typed(e0) /\ e0.z = z1 /\ e0.cfg = e.cfg
    BY <1>0, <1>1, WithStored DEF Stored
<1> HIDE DEF e0
<1>3. /\ Stored(e1) /\ Typed(e1) /\ e1.z = z1 /\ e1.cfg = e.cfg
      /\ \A s \in Sensors : e1.view[s] = IF r /\ s \in e.cfg.sensors
                                        THEN Observed(w[s]) ELSE e0.view[s]
    BY <1>2, RefreshStored, RefreshFields DEF Stored
<1>4. bp \subseteq e.cfg.sensors /\ blocking \subseteq bp
    BY <1>3 DEF Blocking, AutoBypass
<1>5. z2 = [CancelTimers(e1.z) EXCEPT !.bypassed = bp, !.mode = m, !.pendingCause = None,
                                      !.openAtArm = {}]
    OBVIOUS
<1> HIDE DEF e1, bp
<1>6. x \in Zones /\ x.incident = None
    BY <1>1, <1>3, CancelTimersZone
<1> HIDE DEF x
<1>7. z2 \in Zones /\ z2.mode = m /\ z2.bypassed = bp /\ z2.incident = None
    <2>1. z2 \in Zones
        BY <1>0, <1>4, <1>6 DEF Zones, Configs
    <2> QED BY <1>6, <2>1 DEF Zones
<1> HIDE DEF z2
<1>8. c \in {e1, Persist(With(e1, z3), f), CompleteArm(With(e1, z2), f)}
    BY <1>5 DEF BeginArm, z1, e0, e1, z3, bp
<1> SUFFICES ArmedSide(c.z.state) => Vetted(c, r, w, tr)
    OBVIOUS
<1> HIDE DEF c
<1>9. ASSUME NEW b, Typed(b), b.cfg = e.cfg, b.view = e1.view, b.z.mode = m, b.z.bypassed = bp
      PROVE  Blocking(RefreshSensorValues(b, r, w), tr, b.z.mode) = {}
    <2> DEFINE q == RefreshSensorValues(b, r, w)
    <2>1. /\ q.z = b.z /\ q.cfg = e.cfg
          /\ \A s \in Sensors : q.view[s] = IF r /\ s \in e.cfg.sensors
                                           THEN Observed(w[s]) ELSE e1.view[s]
        BY <1>9, RefreshFields
    <2>2. \A s \in e.cfg.sensors : q.view[s] = e1.view[s]
        BY <1>0, <1>3, <2>1 DEF Configs
    <2> HIDE DEF q
    <2>3. ASSUME NEW s \in Blocking(q, tr, m) PROVE FALSE
        <3>1. s \in blocking
            BY <1>1, <1>3, <2>1, <2>2 DEF Blocking
        <3> QED BY <1>4, <1>9, <2>1, <3>1 DEF Blocking
    <2> QED BY <1>9, <2>3 DEF q
<1>10. CASE c = e1
    BY <1>1, <1>3, <1>10 DEF ArmedSide
<1>11. CASE c = Persist(With(e1, z3), f)
    <2>0. z2 \in Zones
        BY <1>7
    <2>1. z3 \in Zones
        BY <2>0 DEF Zones, States, TimerKinds
    <2>2. z3.incident = None /\ z3.state = "arming" /\ z3.mode = m /\ z3.bypassed = bp
        BY <1>7 DEF Zones
    <2> HIDE DEF z3
    <2>3. Typed(c) /\ c.z = z3 /\ c.cfg = e.cfg /\ c.view = e1.view
        BY <1>1, <1>3, <1>11, <2>1, <2>2, WithTyped, PersistTyped
    <2>4. Blocking(RefreshSensorValues(c, r, w), tr, c.z.mode) = {}
        BY <1>9, <2>2, <2>3
    <2> QED BY <2>2, <2>3, <2>4 DEF Vetted
<1>12. CASE c = CompleteArm(With(e1, z2), f)
    <2> DEFINE e2 == With(e1, z2)
    <2>1. Stored(e2) /\ e2.z = z2 /\ e2.cfg = e.cfg /\ e2.view = e1.view
        BY <1>1, <1>3, <1>7, WithStored, WithTyped
    <2> HIDE DEF e2
    <2>2. PICK b : /\ CompleteArm(e2, f) = Persist(b, f)
                   /\ Stored(b) /\ b.cfg = e.cfg /\ b.view = e1.view
                   /\ b.z.mode = m /\ b.z.bypassed = bp
                   /\ b.z.openAtArm = {s \in e.cfg.sensors : /\ InMode(s, m)
                                                             /\ s \notin bp
                                                             /\ e1.view[s] = "active"}
        BY <1>7, <2>1, CompleteArmFields
    <2>3. Typed(c) /\ c.z = b.z /\ c.cfg = e.cfg /\ c.view = e1.view
        BY <1>12, <2>2, PersistTyped DEF e2, Stored
    <2>4. r => Sees(c, w)
        <3>1. SUFFICES ASSUME r, NEW s \in e.cfg.sensors, InMode(s, m), w[s]
                       PROVE  s \in c.z.openAtArm \cup c.z.bypassed
            BY <2>2, <2>3 DEF Sees
        <3>2. e1.view[s] = "active"
            BY <1>0, <1>3, <3>1 DEF Observed, Configs
        <3> QED BY <2>2, <2>3, <3>1, <3>2
    <2>5. Blocking(RefreshSensorValues(c, r, w), tr, c.z.mode) = {}
        BY <1>9, <2>2, <2>3
    <2> QED BY <2>4, <2>5 DEF Vetted
<1> QED BY <1>8, <1>10, <1>11, <1>12

LEMMA OnAutoRearmElapsedVetted ==
    ASSUME NEW e, Sane(e), e.z.state = "disarmed", e.z.bypassed = {}, NEW r, NEW w, NEW tr,
           NEW f
    PROVE  LET c == OnAutoRearmElapsed(e, r, w, tr, f)
           IN ArmedSide(c.z.state) => Vetted(c, r, w, tr)
<1> DEFINE z1 == [e.z EXCEPT !.rearm = FALSE, !.rearmMode = None]
           e1 == With(e, z1)
           m == e.z.rearmMode
           b == BeginArm(e1, m, {}, FALSE, FALSE, r, w, tr, f)
           c == OnAutoRearmElapsed(e, r, w, tr, f)
<1>1. z1 \in Zones /\ z1.incident = e.z.incident /\ z1.state = "disarmed" /\ z1.bypassed = {}
    <2>1. z1 \in Zones
        BY DEF Sane, Stored, Typed, Engines, Zones
    <2> QED BY <2>1 DEF Sane, Stored, Typed, Engines, Zones
<1> HIDE DEF z1
<1>2. Sane(e1) /\ Typed(e1) /\ e1.z = z1 /\ e1.cfg = e.cfg
    BY <1>1, WithStored DEF Sane, Stored, Linked
<1> HIDE DEF e1
<1>3. CASE m \notin e.cfg.modes
    <2>1. c = Persist(e1, f)
        BY <1>3 DEF OnAutoRearmElapsed, e1, z1
    <2>2. c.z.state = "disarmed"
        BY <1>1, <1>2, <2>1, PersistTyped
    <2> QED BY <2>2 DEF ArmedSide
<1>4. CASE m \in e.cfg.modes
    <2>1. m \in Modes /\ m \in e1.cfg.modes
        BY <1>2, <1>4 DEF Sane, Stored, Typed, Engines, Configs
    <2>2. c = Persist(b, f)
        BY <1>4 DEF OnAutoRearmElapsed, e1, z1, m
    <2> HIDE DEF m, c
    <2>3. Sane(b) /\ (ArmedSide(b.z.state) => Vetted(b, r, w, tr))
        BY <1>1, <1>2, <2>1, BeginArmSane, BeginArmVetted
    <2> HIDE DEF b
    <2>4. Typed(b) /\ Typed(c) /\ c.z = b.z /\ c.cfg = b.cfg /\ c.view = b.view
        BY <2>2, <2>3, PersistTyped DEF Sane, Stored
    <2>5. ArmedSide(c.z.state) => Vetted(c, r, w, tr)
        BY <2>3, <2>4, BlockingFields
    <2> QED BY <2>5 DEF c
<1> QED BY <1>3, <1>4

\* The incident of a triggered row is at hand, or is not needed.
Recalled(e) ==
    ZoneConfig.postTrigger = "disarm" \/ e.row.state # "triggered" \/ e.z.incident # None

\* What a restore from engine e, whose row obeys the mode discipline, leaves.
Restored(e, c, r, w, f) ==
    /\ Sound(c, f)
    /\ Matched(e.row) /\ Recalled(e) => Even(c)
    /\ r /\ c.z.state = "armed" => Sees(c, w)

LEMMA ScheduleZone ==
    ASSUME NEW z \in Zones, NEW m \in Modes \cup {None}
    PROVE  ScheduleAutoRearm(z, m) \in Zones
BY DEF ScheduleAutoRearm, Zones

LEMMA RestoreDisarmedSound ==
    ASSUME NEW e, Stored(e), Loaded(e), e.z.incident = None, Moded(e.row),
           e.row.state = "disarmed", NEW plausible, NEW elapsed, NEW r, NEW w, NEW tr, NEW f
    PROVE  Restored(e, RestoreDisarmed(e, plausible, elapsed, r, w, tr, f), r, w, f)
<1> DEFINE x == [e.z EXCEPT !.state = "disarmed", !.mode = Off, !.preAlarm = FALSE]
           y == [e.z EXCEPT !.state = "disarmed", !.mode = Off, !.preState = None,
                            !.preMode = None, !.preAlarm = FALSE]
           b == With(e, y)
           z1 == [b.z EXCEPT !.rearmMode = None]
           z2 == ScheduleAutoRearm(b.z, b.z.rearmMode)
           a == OnAutoRearmRestore(b, plausible, elapsed, r, w, tr, f)
           c == RestoreDisarmed(e, plausible, elapsed, r, w, tr, f)
<1>0. e.z \in Zones /\ None \notin Modes \cup States
    BY NoneAssumption DEF Stored, Typed, Engines
<1>1. x \in Zones /\ x.incident = None
    BY <1>0 DEF Zones, States
<1>2. y = [x EXCEPT !.preState = None, !.preMode = None]
    BY <1>0 DEF Zones
<1> HIDE DEF x
<1>3. y \in Zones /\ y.incident = None
    BY <1>1, <1>2, ClearPreTriggerZone
<1>4. /\ y.state = "disarmed" /\ y.mode = Off /\ y.bypassed = {} /\ y.preState = None
      /\ y.preMode = None /\ y.timer = "none" /\ ~y.rearm
    BY <1>0 DEF Zones, Loaded, Moded
<1>5. c = Persist(a, f)
    BY DEF RestoreDisarmed
<1> SUFFICES Restored(e, c, r, w, f)
    OBVIOUS
<1> HIDE DEF y, c
<1>6. Sane(b) /\ Typed(b) /\ b.z = y /\ b.row = e.row /\ b.cfg = e.cfg
    BY <1>3, <1>4, WithStored DEF Sane, Linked, Stored
<1> HIDE DEF b
<1>7. Moded(b.z) /\ Moded(b.row) /\ Matched(b.z)
    BY <1>0, <1>4, <1>6 DEF Moded, Matched, ArmedSide, States
<1>8. b.z \in Zones
    BY <1>3, <1>6
<1>9. a \in {With(b, z1), OnAutoRearmElapsed(b, r, w, tr, f), With(b, z2)}
    BY DEF OnAutoRearmRestore
<1> HIDE DEF a
<1>10. ASSUME NEW z \in Zones, z.state = "disarmed", z.mode = Off, z.bypassed = {},
              z.preState = None, z.preMode = None, z.timer = "none", z.incident = b.z.incident,
              a = With(b, z)
       PROVE  Restored(e, c, r, w, f)
    <2>1. Typed(a) /\ a.z = z /\ a.row = e.row
        BY <1>6, <1>10, WithTyped
    <2>2. Moded(a.z) /\ Moded(a.row) /\ Matched(a.z)
        BY <1>0, <1>10, <2>1 DEF Moded, Matched, ArmedSide, States
    <2>3. Sound(c, f) /\ (Even(a) => Even(c)) /\ c.z = z
        BY <1>5, <2>1, <2>2, SoundPersist, PersistTyped
    <2> QED BY <1>10, <2>1, <2>2, <2>3 DEF Restored, Even
<1>11. CASE a = With(b, z1)
    <2>1. z1 \in Zones
        BY <1>8 DEF Zones
    <2>2. /\ z1.state = "disarmed" /\ z1.mode = Off /\ z1.bypassed = {} /\ z1.preState = None
          /\ z1.preMode = None /\ z1.timer = "none" /\ z1.incident = b.z.incident
        BY <1>4, <1>6, <1>8 DEF Zones
    <2> HIDE DEF z1
    <2> QED BY <1>10, <1>11, <2>1, <2>2
<1>12. CASE a = With(b, z2)
    <2>0. b.z.rearmMode \in Modes \cup {None}
        BY <1>8 DEF Zones
    <2>1. z2 \in Zones
        BY <1>8, <2>0, ScheduleZone
    <2>2. /\ z2.state = "disarmed" /\ z2.mode = Off /\ z2.bypassed = {} /\ z2.preState = None
          /\ z2.preMode = None /\ z2.timer = "none" /\ z2.incident = b.z.incident
        BY <1>4, <1>6, <1>8 DEF Zones, ScheduleAutoRearm
    <2> HIDE DEF z2
    <2> QED BY <1>10, <1>12, <2>1, <2>2
<1>13. CASE a = OnAutoRearmElapsed(b, r, w, tr, f)
    <2>1. Sane(a) /\ Does(b, a, f) /\ (ArmedSide(a.z.state) => Vetted(a, r, w, tr))
        BY <1>4, <1>6, <1>13, OnAutoRearmElapsedSane, OnAutoRearmElapsedDoes,
           OnAutoRearmElapsedVetted
    <2>2. Typed(a) /\ a.z \in Zones
        BY <2>1 DEF Sane, Stored, Typed, Engines
    <2>3. Moded(a.z) /\ Moded(a.row) /\ (Even(b) => Even(a))
        BY <1>6, <1>7, <2>1, <2>2, DoesKeeps DEF Even
    <2>4. Sound(c, f) /\ (Even(a) => Even(c)) /\ c.z = a.z /\ c.cfg = a.cfg
        BY <1>5, <2>2, <2>3, SoundPersist, PersistTyped
    <2>5. r /\ c.z.state = "armed" => Sees(c, w)
        BY <2>1, <2>4 DEF ArmedSide, Vetted, Sees
    <2> QED BY <1>6, <1>7, <2>3, <2>4, <2>5 DEF Restored, Even
<1> QED BY <1>9, <1>11, <1>12, <1>13

\* A restore that ends with a persist and a second look at the sensors.
LEMMA ReEvaluateRestored ==
    ASSUME NEW e, NEW b, Sane(b), Moded(b.z), Moded(b.row), Matched(e.row) /\ Recalled(e) => Even(b),
           NEW r, NEW w, NEW f
    PROVE  Restored(e, ReEvaluate(Persist(b, f), r, w, f), r, w, f)
<1> DEFINE p == Persist(b, f)
<1>1. Sane(p)
    BY PersistSane
<1>2. Sound(p, f) /\ (Even(b) => Even(p))
    BY SoundPersist DEF Sane, Stored
<1> HIDE DEF p
<1>3. Restored(e, ReEvaluate(p, r, w, f), r, w, f)
    BY <1>1, <1>2, SoundReEvaluate DEF Restored
<1> QED BY <1>3 DEF p

LEMMA PersistRestored ==
    ASSUME NEW e, NEW b, Typed(b), Moded(b.z), Moded(b.row), Matched(e.row) /\ Recalled(e) => Even(b),
           NEW r, NEW w, b.z.state # "armed", NEW f
    PROVE  Restored(e, Persist(b, f), r, w, f)
BY SoundPersist, PersistTyped DEF Restored

LEMMA RestoreArmedSound ==
    ASSUME NEW e, Stored(e), Loaded(e), e.z.incident = None, Moded(e.row),
           e.row.state = "armed", NEW r, NEW w, NEW f
    PROVE  Restored(e, ReEvaluate(Persist(With(e, [e.z EXCEPT !.state = "armed"]), f), r, w, f),
                    r, w, f)
<1> DEFINE z == [e.z EXCEPT !.state = "armed"]
           b == With(e, z)
<1>0. e.z \in Zones
    BY DEF Stored, Typed, Engines
<1>1. z \in Zones /\ z.incident = None
    BY <1>0 DEF Zones, States
<1>2. /\ z.state = "armed" /\ z.mode = e.row.mode /\ z.preState = e.row.preState
      /\ z.preMode = e.row.preMode /\ ~z.rearm /\ z.timer = "none"
    BY <1>0 DEF Zones, Loaded
<1> HIDE DEF z
<1>3. Sane(b) /\ b.z = z /\ b.row = e.row
    BY <1>1, <1>2, WithStored DEF Sane, Linked
<1> HIDE DEF b
<1>4. Moded(z) /\ (Matched(e.row) => Matched(z))
    BY <1>2 DEF Moded, Matched
<1>5. Restored(e, ReEvaluate(Persist(b, f), r, w, f), r, w, f)
    BY <1>3, <1>4, ReEvaluateRestored DEF Even
<1> QED BY <1>5 DEF b, z

LEMMA CompleteArmRestored ==
    ASSUME NEW e, NEW b, Stored(b), b.z.incident = None, b.row = e.row, Moded(e.row),
           b.z.preState = None, b.z.preMode = None, ~b.z.rearm,
           Matched(e.row) /\ Recalled(e) => b.z.mode \in Modes, NEW r, NEW w, NEW f
    PROVE  Restored(e, ReEvaluate(CompleteArm(b, f), r, w, f), r, w, f)
<1>1. PICK a : /\ CompleteArm(b, f) = Persist(a, f)
               /\ Stored(a) /\ a.row = b.row
               /\ a.z.state = "armed" /\ a.z.mode = b.z.mode
               /\ a.z.preState = None /\ a.z.preMode = None
               /\ a.z.timer = "none" /\ ~a.z.rearm /\ a.z.incident = None
    BY CompleteArmFields
<1>2. Sane(a)
    BY <1>1 DEF Sane, Linked
<1>3. None \notin Modes \cup States
    BY NoneAssumption
<1>4. Moded(a.z) /\ (Matched(e.row) /\ Recalled(e) => Matched(a.z))
    BY <1>1, <1>3 DEF Moded, Matched, ArmedSide, States
<1>5. Restored(e, ReEvaluate(Persist(a, f), r, w, f), r, w, f)
    BY <1>1, <1>2, <1>4, ReEvaluateRestored DEF Even
<1> QED BY <1>1, <1>5

LEMMA RestoreArmingSound ==
    ASSUME NEW e, Stored(e), Loaded(e), e.z.incident = None, Moded(e.row),
           e.row.state = "arming", NEW plausible, NEW elapsed, NEW r, NEW w, NEW tr, NEW f
    PROVE  Restored(e, RestoreArming(e, plausible, elapsed, r, w, tr, f), r, w, f)
<1> DEFINE z1 == [e.z EXCEPT !.state = "arming"]
           e1 == RefreshSensorValues(With(e, z1), r, w)
           blocking == Blocking(e1, tr, z1.mode)
           bp == z1.bypassed \cup AutoBypass(blocking)
           z2 == [z1 EXCEPT !.bypassed = bp]
           e2 == With(e1, z2)
           z3 == [z1 EXCEPT !.timer = "exit_delay"]
           y == CancelTimers(e2.z)
           z4 == [y EXCEPT !.state = "disarmed", !.mode = Off, !.bypassed = {}]
           c == RestoreArming(e, plausible, elapsed, r, w, tr, f)
<1>0. e.z \in Zones /\ None \notin Modes \cup States /\ e.row.preState = None
      /\ e.row.preMode = None
    BY NoneAssumption DEF Stored, Typed, Engines, Moded
<1>1. z1 \in Zones /\ z1.incident = None
    BY <1>0 DEF Zones, States
<1>2. /\ z1.state = "arming" /\ z1.mode = e.row.mode /\ z1.preState = None
      /\ z1.preMode = None /\ ~z1.rearm /\ z1.timer = "none"
    BY <1>0 DEF Zones, Loaded
<1>3. c \in {Persist(With(e, z3), f), ReEvaluate(CompleteArm(e2, f), r, w, f),
             Persist(With(e2, z4), f)}
    BY DEF RestoreArming
<1> SUFFICES Restored(e, c, r, w, f)
    OBVIOUS
<1> HIDE DEF z1, c
<1>4. Stored(e1) /\ e1.z = z1 /\ e1.row = e.row
    BY <1>1, WithStored, RefreshStored
<1>5. bp \in SUBSET Sensors
    BY <1>1, <1>4 DEF Stored, Typed, Engines, Zones, Configs, Blocking, AutoBypass
<1> HIDE DEF e1, bp
<1>6. z2 \in Zones
    BY <1>1, <1>5 DEF Zones
<1>7. /\ z2.incident = None /\ z2.mode = e.row.mode /\ z2.preState = None
      /\ z2.preMode = None /\ ~z2.rearm
    BY <1>1, <1>2 DEF Zones
<1> HIDE DEF z2
<1>8. Stored(e2) /\ e2.z = z2 /\ e2.row = e.row
    BY <1>1, <1>4, <1>6, <1>7, WithStored
<1> HIDE DEF e2
<1>9. Matched(e.row) => e.row.mode \in Modes
    BY DEF Matched, ArmedSide
<1>10. Restored(e, ReEvaluate(CompleteArm(e2, f), r, w, f), r, w, f)
    BY <1>7, <1>8, <1>9, CompleteArmRestored
<1>11. Restored(e, Persist(With(e, z3), f), r, w, f)
    <2>1. z3 \in Zones
        BY <1>1 DEF Zones, TimerKinds
    <2>2. /\ z3.incident = None /\ z3.state = "arming" /\ z3.mode = e.row.mode
          /\ z3.preState = None /\ z3.preMode = None /\ ~z3.rearm /\ z3.timer = "exit_delay"
        BY <1>1, <1>2 DEF Zones
    <2> HIDE DEF z3
    <2>3. Typed(With(e, z3)) /\ With(e, z3).z = z3 /\ With(e, z3).row = e.row
        BY <2>1, <2>2, WithTyped DEF Stored
    <2>4. Moded(z3) /\ (Matched(e.row) => Matched(z3))
        BY <1>0, <1>9, <2>2 DEF Moded, Matched, ArmedSide, States
    <2> QED BY <2>2, <2>3, <2>4, PersistRestored DEF Even
<1>12. Restored(e, Persist(With(e2, z4), f), r, w, f)
    <2>1. y \in Zones /\ y.incident = None /\ y.timer = "none"
        BY <1>6, <1>7, <1>8, CancelTimersZone
    <2>2. y.preState = None /\ y.preMode = None /\ ~y.rearm
        BY <1>6, <1>7, <1>8 DEF CancelTimers, Zones
    <2> HIDE DEF y
    <2>3. z4 \in Zones
        BY <2>1 DEF Zones, States
    <2>4. /\ z4.incident = None /\ z4.state = "disarmed" /\ z4.mode = Off /\ z4.bypassed = {}
          /\ z4.preState = None /\ z4.preMode = None /\ ~z4.rearm /\ z4.timer = "none"
        BY <2>1, <2>2 DEF Zones
    <2> HIDE DEF z4
    <2>5. Typed(With(e2, z4)) /\ With(e2, z4).z = z4 /\ With(e2, z4).row = e.row
        BY <1>7, <1>8, <2>3, <2>4, WithTyped DEF Stored
    <2>6. Moded(z4) /\ Matched(z4)
        BY <1>0, <2>4 DEF Moded, Matched, ArmedSide, States
    <2> QED BY <2>4, <2>5, <2>6, PersistRestored DEF Even
<1> QED BY <1>3, <1>10, <1>11, <1>12

LEMMA RestorePendingSound ==
    ASSUME NEW e, Stored(e), Loaded(e), e.z.incident = None, Moded(e.row),
           e.row.state = "pending", NEW plausible, NEW elapsed, NEW r, NEW w, NEW f
    PROVE  Restored(e, RestorePending(e, plausible, elapsed, r, w, f), r, w, f)
<1> DEFINE z2 == [e.z EXCEPT !.state = "armed"]
           z1 == [e.z EXCEPT !.state = "armed", !.pendingCause = None]
           z3 == [e.z EXCEPT !.state = "pending", !.timer = "entry_delay"]
           b1 == With(e, z1)
           b2 == With(e, z2)
           b3 == With(e, z3)
           t == Trigger(b2, e.z.pendingCause, TRUE, f)
           c == RestorePending(e, plausible, elapsed, r, w, f)
<1>0. e.z \in Zones /\ None \notin Modes \cup States /\ e.row.preState = None
      /\ e.row.preMode = None
    BY NoneAssumption DEF Stored, Typed, Engines, Moded
<1>1. z2 \in Zones
    BY <1>0 DEF Zones, States
<1>2. /\ z2.incident = None /\ z2.state = "armed" /\ z2.mode = e.row.mode /\ z2.preState = None
      /\ z2.preMode = None /\ ~z2.rearm /\ z2.timer = "none"
    BY <1>0 DEF Zones, Loaded
<1>3. z1 = [z2 EXCEPT !.pendingCause = None]
    BY <1>0 DEF Zones
<1>4. z3 \in Zones
    BY <1>0 DEF Zones, States, TimerKinds
<1>5. /\ z3.incident = None /\ z3.state = "pending" /\ z3.mode = e.row.mode
      /\ z3.preState = None /\ z3.preMode = None /\ ~z3.rearm /\ z3.timer = "entry_delay"
    BY <1>0 DEF Zones, Loaded
<1>6. c \in {ReEvaluate(Persist(b1, f), r, w, f), t, Persist(b3, f)}
    BY DEF RestorePending
<1> SUFFICES Restored(e, c, r, w, f)
    OBVIOUS
<1> HIDE DEF z1, z2, z3, c
<1>7. z1 \in Zones
    BY <1>1, <1>3 DEF Zones
<1>8. /\ z1.incident = None /\ z1.state = "armed" /\ z1.mode = e.row.mode /\ z1.preState = None
      /\ z1.preMode = None /\ ~z1.rearm /\ z1.timer = "none"
    BY <1>1, <1>2, <1>3 DEF Zones
<1>9. Matched(e.row) => e.row.mode \in Modes
    BY DEF Matched, ArmedSide
<1>10. /\ Moded(z1) /\ Moded(z2) /\ Moded(z3)
       /\ Matched(e.row) => Matched(z1) /\ Matched(z2) /\ Matched(z3)
    BY <1>0, <1>2, <1>5, <1>8, <1>9 DEF Moded, Matched, ArmedSide, States
<1>11. Sane(b1) /\ b1.z = z1 /\ b1.row = e.row
    BY <1>7, <1>8, WithStored DEF Sane, Linked
<1>12. Sane(b2) /\ Typed(b2) /\ b2.z = z2 /\ b2.row = e.row
    BY <1>1, <1>2, WithStored DEF Sane, Linked, Stored
<1>13. Typed(b3) /\ b3.z = z3 /\ b3.row = e.row
    BY <1>4, <1>5, WithTyped DEF Stored
<1> HIDE DEF b1, b2, b3
<1>14. Restored(e, ReEvaluate(Persist(b1, f), r, w, f), r, w, f)
    BY <1>10, <1>11, ReEvaluateRestored DEF Even
<1>15. Restored(e, Persist(b3, f), r, w, f)
    BY <1>5, <1>10, <1>13, PersistRestored DEF Even
<1>16. Restored(e, t, r, w, f)
    <2>1. e.z.pendingCause \in Sensors \cup {None}
        BY <1>0 DEF Zones
    <2>2. ArmedSide(b2.z.state) /\ b2.z.state # "triggered"
        BY <1>2, <1>12 DEF ArmedSide
    <2>3. Does(b2, t, f) /\ Alarms(b2.z, t.z) /\ Sane(t)
        BY <1>12, <2>1, <2>2, TriggerDoes, TriggerSane
    <2> HIDE DEF t
    <2>4. ~Same(b2.z, t.z) /\ t.z.state = "triggered" /\ t.z \in Zones
        BY <2>2, <2>3 DEF Alarms, Same, Sane, Stored, Typed, Engines
    <2>5. Sound(t, f) /\ (Even(b2) => Even(t))
        BY <1>10, <1>12, <2>3, <2>4, SoundFresh
    <2> QED BY <1>10, <1>12, <2>4, <2>5 DEF Restored, Even
<1> QED BY <1>6, <1>14, <1>15, <1>16

LEMMA FinishTriggeredOnRestoreSound ==
    ASSUME NEW e, NEW b, Stored(b), b.row = e.row, ~b.z.rearm, Moded(e.row),
           Matched(e.row) /\ Recalled(e) => ZoneConfig.postTrigger = "disarm" \/ b.z.mode \in Modes,
           NEW r, NEW w, NEW f
    PROVE  Restored(e, FinishTriggeredOnRestore(b, r, w, f), r, w, f)
<1> DEFINE e1 == CloseIncident(StopAll(b), f)
           z == [e1.z EXCEPT !.preState = None, !.preMode = None]
           e2 == With(e1, z)
           c == FinishTriggeredOnRestore(b, r, w, f)
<1>1. /\ Stored(e1) /\ e1.z.incident = None /\ Held(b.z, e1.z) /\ e1.row = e.row
      /\ e1.z \in Zones
    BY CloseIncidentHeld DEF Stored, Typed, Engines
<1>2. c = IF ZoneConfig.postTrigger = "disarm" THEN DisarmAfterTrigger(e2, f)
          ELSE ReEvaluate(CompleteArm(e2, f), r, w, f)
    BY DEF FinishTriggeredOnRestore
<1> SUFFICES Restored(e, c, r, w, f)
    OBVIOUS
<1> HIDE DEF e1, c
<1>3. z \in Zones /\ z.incident = None
    BY <1>1, ClearPreTriggerZone
<1>4. z.preState = None /\ z.preMode = None /\ z.mode = b.z.mode /\ ~z.rearm
    BY <1>1 DEF Zones, Held
<1> HIDE DEF z
<1>5. Stored(e2) /\ e2.z = z /\ e2.row = e.row
    BY <1>1, <1>3, WithStored
<1> HIDE DEF e2
<1>6. CASE ZoneConfig.postTrigger = "disarm"
    <2>1. PICK a : /\ DisarmAfterTrigger(e2, f) = Persist(a, f)
                   /\ Stored(a) /\ a.row = e.row /\ Disarms(a.z)
        BY <1>3, <1>5, DisarmAfterTriggerFields
    <2>2. None \notin States /\ a.z.state = "disarmed"
        BY <2>1, NoneAssumption DEF Disarms
    <2>3. Moded(a.z) /\ Matched(a.z)
        BY <2>1, <2>2 DEF Disarms, Moded, Matched, ArmedSide, States
    <2> QED BY <1>2, <1>6, <2>1, <2>2, <2>3, PersistRestored DEF Even, Stored
<1>7. CASE ZoneConfig.postTrigger # "disarm"
    BY <1>2, <1>3, <1>4, <1>5, <1>7, CompleteArmRestored
<1> QED BY <1>6, <1>7

\* The re-fire of a restored incident changes nothing a restart needs.
LEMMA RefireOnRestoreLike ==
    ASSUME NEW e, Sane(e), e.z.state = "triggered", e.z.incident.id # 0, NEW f
    PROVE  LET c == RefireOnRestore(e, f)
           IN Same(e.z, c.z) /\ c.z.timer = e.z.timer /\ c.z.rearm = e.z.rearm /\ c.row = e.row
<1> DEFINE inc == e.z.incident
           i2 == [inc EXCEPT !.refires = @ + 1]
           z == [e.z EXCEPT !.incident = i2]
           d == [e.db EXCEPT ![inc.id].refires = @ + 1]
           b == [e EXCEPT !.z = z, !.db = d]
           c == RefireOnRestore(e, f)
<1>0. e.z \in Zones /\ e.z.incident # None
    BY DEF Sane, Linked, Stored, Typed, Engines
<1>1. inc \in Incidents
    BY <1>0 DEF Zones
<1>2. i2 \in Incidents /\ i2.id = inc.id
    <2> DEFINE n == inc.refires + 1
    <2>1. n \in Nat
        BY <1>1 DEF Incidents
    <2> HIDE DEF n, inc
    <2>2. [inc EXCEPT !.refires = n] \in Incidents /\ [inc EXCEPT !.refires = n].id = inc.id
        BY <1>1, <2>1 DEF Incidents
    <2> QED BY <2>2 DEF n
<1>3. i2 # None
    BY <1>2, NoneAssumption
<1>4. [e EXCEPT !.z.incident.refires = @ + 1, !.db[inc.id].refires = @ + 1] = b
    BY DEF Sane, Stored, Typed, Engines, Zones
<1>5. c \in {e, b, FireCycle(b, TRUE)}
    <2> HIDE DEF b
    <2> QED BY <1>4 DEF RefireOnRestore
<1> HIDE DEF i2
<1>6. /\ z.state = e.z.state /\ z.mode = e.z.mode /\ z.bypassed = e.z.bypassed
      /\ z.openAtArm = e.z.openAtArm /\ z.pendingCause = e.z.pendingCause
      /\ z.preState = e.z.preState /\ z.preMode = e.z.preMode /\ z.preAlarm = e.z.preAlarm
      /\ z.timer = e.z.timer /\ z.rearm = e.z.rearm /\ z.incident = i2
    BY <1>0 DEF Zones
<1> HIDE DEF z, d
<1>7. Same(e.z, z)
    BY <1>0, <1>2, <1>3, <1>6 DEF Same, IncidentId
<1>8. b.z = z /\ b.row = e.row /\ FireCycle(b, TRUE).z = z /\ FireCycle(b, TRUE).row = e.row
    BY DEF Sane, Stored, Typed, Engines, FireCycle
<1>9. Same(e.z, e.z)
    BY DEF Same
<1> HIDE DEF b, c
<1>10. c.z \in {e.z, z} /\ c.row = e.row
    BY <1>5, <1>8
<1> QED BY <1>6, <1>7, <1>9, <1>10 DEF c

LEMMA RestoreTriggeredSound ==
    ASSUME NEW e, Stored(e), Loaded(e), e.z.incident # None => e.z.incident.id # 0,
           Moded(e.row), e.row.state = "triggered", NEW plausible, NEW elapsed, NEW r, NEW w,
           r => \A s \in e.cfg.sensors : w[s] => e.view[s] = "active", NEW f
    PROVE  LET c == RestoreTriggered(e, plausible, elapsed, r, w, f)
           IN /\ Restored(e, c, r, w, f)
              /\ Matched(e.row) /\ e.row.mode = Off /\ e.z.incident # None => c.z.mode = Off
<1> DEFINE z1 == [e.z EXCEPT !.state = "triggered"]
           z2 == [z1 EXCEPT !.preAlarm = FALSE]
           z3 == [z2 EXCEPT !.timer = "trigger_time"]
           b1 == With(e, z1)
           b2 == With(e, z2)
           b3 == With(e, z3)
           e3 == Persist(b3, f)
           c == RestoreTriggered(e, plausible, elapsed, r, w, f)
<1>0. e.z \in Zones /\ None \notin Modes \cup States /\ Off \notin Modes \cup {None}
    BY NoneAssumption DEF Stored, Typed, Engines
<1>1. z1 \in Zones
    BY <1>0 DEF Zones, States
<1>2. /\ z1.incident = e.z.incident /\ z1.state = "triggered" /\ z1.mode = e.row.mode
      /\ z1.preState = e.row.preState /\ z1.preMode = e.row.preMode /\ ~z1.rearm
      /\ z1.timer = "none"
    BY <1>0 DEF Zones, Loaded
<1>3. CASE e.z.incident = None
    <2>1. c = FinishTriggeredOnRestore(b1, r, w, f)
        BY <1>3 DEF RestoreTriggered
    <2> HIDE DEF z1, c
    <2>2. Stored(b1) /\ b1.z = z1 /\ b1.row = e.row
        BY <1>1, <1>2, WithStored
    <2> HIDE DEF b1
    <2>3. Recalled(e) => ZoneConfig.postTrigger = "disarm"
        BY <1>3 DEF Recalled
    <2>4. Restored(e, c, r, w, f)
        BY <1>2, <2>1, <2>2, <2>3, FinishTriggeredOnRestoreSound
    <2> QED BY <1>3, <2>4 DEF c
<1>4. CASE e.z.incident # None
    <2>1. \/ e.z.preState # None /\ c = FinishAlwaysOn(b2, f)
          \/ e.z.preState = None /\ c = FinishTriggeredOnRestore(b2, r, w, f)
          \/ c \in {StopAll(e3), RefireOnRestore(e3, f), e3}
        BY <1>4 DEF RestoreTriggered
    <2> SUFFICES /\ Restored(e, c, r, w, f)
                 /\ Matched(e.row) /\ e.row.mode = Off => c.z.mode = Off
        OBVIOUS
    <2> HIDE DEF z1, c
    <2>2. z2 \in Zones
        BY <1>1 DEF Zones
    <2>3. /\ z2.incident = e.z.incident /\ z2.state = "triggered" /\ z2.mode = e.row.mode
          /\ z2.preState = e.row.preState /\ z2.preMode = e.row.preMode /\ ~z2.rearm
          /\ z2.timer = "none"
        BY <1>1, <1>2 DEF Zones
    <2> HIDE DEF z2
    <2>4. z3 \in Zones
        BY <2>2 DEF Zones, TimerKinds
    <2>5. /\ z3.incident = e.z.incident /\ z3.state = "triggered" /\ z3.mode = e.row.mode
          /\ z3.preState = e.row.preState /\ z3.preMode = e.row.preMode /\ ~z3.rearm
          /\ z3.timer = "trigger_time"
        BY <2>2, <2>3 DEF Zones
    <2> HIDE DEF z3
    <2>6. /\ Moded(z2) /\ Moded(z3)
          /\ Matched(e.row) => Matched(z2) /\ Matched(z3)
        BY <2>3, <2>5 DEF Moded, Matched
    <2>7. Stored(b2) /\ b2.z = z2 /\ b2.row = e.row /\ b2.cfg = e.cfg /\ b2.view = e.view
        BY <2>2, <2>3, WithStored, WithTyped DEF Stored
    <2>8. Sane(b3) /\ Typed(b3) /\ b3.z = z3 /\ b3.row = e.row
        BY <1>4, <2>4, <2>5, WithStored DEF Sane, Linked, Stored
    <2> HIDE DEF b2, b3
    <2>9. CASE e.z.preState # None /\ c = FinishAlwaysOn(b2, f)
        <3>1. PICK b : /\ FinishAlwaysOn(b2, f) = Persist(b, f)
                       /\ Stored(b) /\ b.row = b2.row /\ b.cfg = e.cfg
                       /\ Returns(b2.cfg, b2.z, b.z) \/ Disarms(b.z)
                       /\ b.z.state = "armed" => Based(b2.view, b)
            BY <2>3, <2>7, FinishAlwaysOnFields
        <3>2. b.z \in Zones /\ b2.cfg \in Configs
            BY <2>7, <3>1 DEF Stored, Typed, Engines
        <3>3. Moded(b.z) /\ (Matched(e.row) => Matched(b.z))
            BY <2>2, <2>6, <2>7, <3>1, <3>2, MovesModed, MovesMatched DEF Moves
        <3>4. Sound(c, f) /\ (Even(b) => Even(c)) /\ c.z = b.z /\ c.cfg = b.cfg
            BY <2>7, <2>9, <3>1, <3>3, SoundPersist, PersistTyped DEF Stored
        <3>5. r /\ c.z.state = "armed" => Sees(c, w)
            BY <2>7, <3>1, <3>4 DEF Based, Sees
        <3>6. ASSUME Matched(e.row), e.row.mode = Off PROVE c.z.mode = Off
            <4>1. b2.z.preState = "disarmed" /\ b2.z.preMode = Off
                BY <2>3, <2>7, <3>6 DEF Matched
            <4>2. ~Returns(b2.cfg, b2.z, b.z)
                BY <1>0, <4>1 DEF Returns, States
            <4> QED BY <3>1, <3>4, <4>2 DEF Disarms
        <3> QED BY <2>7, <3>1, <3>3, <3>4, <3>5, <3>6 DEF Restored, Even
    <2>10. CASE e.z.preState = None /\ c = FinishTriggeredOnRestore(b2, r, w, f)
        <3>1. Matched(e.row) => b2.z.mode \in Modes
            <4>1. e.row.preState = None /\ e.row.mode = e.z.mode
                BY <2>10 DEF Loaded
            <4>2. e.row.mode \in Modes \cup {Off}
                BY <1>0, <4>1 DEF Zones
            <4> QED BY <1>0, <2>3, <2>7, <4>1, <4>2 DEF Matched, States
        <3>2. ~(Matched(e.row) /\ e.row.mode = Off)
            BY <1>0, <2>3, <2>7, <3>1
        <3> QED BY <2>3, <2>7, <2>10, <3>1, <3>2, FinishTriggeredOnRestoreSound
    <2>11. CASE c \in {StopAll(e3), RefireOnRestore(e3, f), e3}
        <3>1. Sane(e3) /\ Typed(e3) /\ e3.z = z3
            BY <2>8, PersistSane DEF Sane, Stored
        <3>2. Sound(e3, f) /\ (Matched(e.row) => Even(e3))
            BY <2>6, <2>8, SoundPersist DEF Even
        <3> HIDE DEF e3
        <3>3. StopAll(e3).z = e3.z /\ StopAll(e3).row = e3.row
            BY <3>1 DEF StopAll, Typed, Engines
        <3>4. LET d == RefireOnRestore(e3, f)
              IN /\ Same(e3.z, d.z) /\ d.z.timer = e3.z.timer /\ d.z.rearm = e3.z.rearm
                 /\ d.row = e3.row
            BY <1>4, <2>5, <3>1, RefireOnRestoreLike
        <3>5. Same(e3.z, e3.z)
            BY DEF Same
        <3>6. /\ Same(e3.z, c.z) /\ c.z.timer = e3.z.timer /\ c.z.rearm = e3.z.rearm
              /\ c.row = e3.row
            BY <2>11, <3>3, <3>4, <3>5
        <3>7. c.z.state = "triggered" /\ c.z.mode = e.row.mode
            BY <2>5, <3>1, <3>6 DEF Same
        <3>8. Sound(c, f) /\ (Even(e3) => Even(c))
            BY <3>2, <3>6 DEF Sound, Even, Same, Moded, Matched, Agrees
        <3> QED BY <3>2, <3>7, <3>8 DEF Restored
    <2> QED BY <2>1, <2>9, <2>10, <2>11
<1> QED BY <1>3, <1>4

\* restoreZone, over the states of the row; e1 is the engine after LoadRow.
LEMMA RestoreZoneSound ==
    ASSUME NEW e, Stored(e), Moded(e.row), NEW readable, NEW plausible, NEW elapsed, NEW r,
           NEW w, r => \A s \in e.cfg.sensors : w[s] => e.view[s] = "active", NEW tr, NEW f
    PROVE  Restored(LoadRow(e, readable, f),
                    RestoreZone(e, readable, plausible, elapsed, r, w, tr, f), r, w, f)
<1> DEFINE e1 == LoadRow(e, readable, f)
           z == [e1.z EXCEPT !.state = "armed"]
           p == Persist(With(e1, z), f)
           c == RestoreZone(e, readable, plausible, elapsed, r, w, tr, f)
<1>1. /\ Stored(e1) /\ e1.z.timer = "none"
      /\ e1.z.incident # None => e1.z.incident.id # 0
      /\ e.row.state # "triggered" => e1.z.incident = None
      /\ Loaded(e1) /\ e1.row = e.row /\ e1.cfg = e.cfg /\ e1.view = e.view
    BY LoadRowStored, LoadRowLoads
<1>2. e.row.state \in States
    BY DEF Stored, Typed, Engines, Rows
<1> SUFFICES Restored(e1, c, r, w, f)
    OBVIOUS
<1>3. CASE e.row.state = "disarmed"
    <2>1. c = RestoreDisarmed(e1, plausible, elapsed, r, w, tr, f)
        BY <1>3 DEF RestoreZone
    <2> HIDE DEF e1, c
    <2> QED BY <1>1, <1>3, <2>1, RestoreDisarmedSound
<1>4. CASE e.row.state = "armed"
    <2>1. c = ReEvaluate(p, r, w, f)
        BY <1>4 DEF RestoreZone
    <2> HIDE DEF e1, c
    <2> QED BY <1>1, <1>4, <2>1, RestoreArmedSound
<1>5. CASE e.row.state = "arming"
    <2>1. c = RestoreArming(e1, plausible, elapsed, r, w, tr, f)
        BY <1>5 DEF RestoreZone
    <2> HIDE DEF e1, c
    <2> QED BY <1>1, <1>5, <2>1, RestoreArmingSound
<1>6. CASE e.row.state = "pending"
    <2>1. c = RestorePending(e1, plausible, elapsed, r, w, f)
        BY <1>6 DEF RestoreZone
    <2> HIDE DEF e1, c
    <2> QED BY <1>1, <1>6, <2>1, RestorePendingSound
<1>7. CASE e.row.state = "triggered"
    <2>1. c = RestoreTriggered(e1, plausible, elapsed, r, w, f)
        BY <1>7 DEF RestoreZone
    <2> HIDE DEF e1, c
    <2> QED BY <1>1, <1>7, <2>1, RestoreTriggeredSound
<1> QED BY <1>2, <1>3, <1>4, <1>5, <1>6, <1>7 DEF States

\* The engine Start hands to restoreZone.
Booted(rdy) == RefreshSensorValues([eng EXCEPT !.cfg = stored], rdy, world)

LEMMA BootedFields ==
    ASSUME EngineOK, stored \in Configs, NEW rdy
    PROVE  LET e == Booted(rdy)
           IN /\ Stored(e) /\ e.row = row /\ e.db = db /\ e.cfg = stored
              /\ e.horn = horn /\ e.fired = fired
              /\ rdy => \A s \in e.cfg.sensors : world[s] => e.view[s] = "active"
<1> DEFINE e1 == [eng EXCEPT !.cfg = stored]
           e == Booted(rdy)
<1>1. Sane(eng)
    BY EngSane
<1>2. /\ Stored(e1) /\ e1.row = row /\ e1.db = db /\ e1.cfg = stored /\ e1.horn = horn
      /\ e1.fired = fired
    BY <1>1, EngFields DEF Sane, Stored, Typed, Engines
<1>3. e = RefreshSensorValues(e1, rdy, world)
    BY DEF Booted
<1> HIDE DEF e1
<1>4. Stored(e) /\ e.row = e1.row /\ e.cfg = e1.cfg
    BY <1>2, <1>3, RefreshStored
<1>5. e.db = e1.db /\ e.horn = e1.horn /\ e.fired = e1.fired
    BY <1>2, <1>3 DEF RefreshSensorValues, Stored, Typed, Engines
<1> HIDE DEF e
<1>6. rdy => \A s \in e1.cfg.sensors : world[s] => e.view[s] = "active"
    BY <1>2, <1>3, RefreshLooks DEF Stored
<1> QED BY <1>2, <1>4, <1>5, <1>6 DEF e

LEMMA StartSound ==
    ASSUME EngineOK, stored \in Configs, Moded(row), NEW readable, NEW plausible, NEW elapsed,
           NEW rdy, NEW f
    PROVE  Restored(LoadRow(Booted(rdy), readable, f),
                    StartZone(eng, readable, plausible, elapsed, rdy, f), rdy, world, f)
<1> DEFINE e == Booted(rdy)
           c == RestoreZone(e, readable, plausible, elapsed, rdy, world, [s \in Sensors |-> {}], f)
<1>1. StartZone(eng, readable, plausible, elapsed, rdy, f) = c
    BY DEF StartZone, Booted
<1>2. /\ Stored(e) /\ e.row = row
      /\ rdy => \A s \in e.cfg.sensors : world[s] => e.view[s] = "active"
    BY BootedFields
<1> HIDE DEF e
<1>3. Restored(LoadRow(e, readable, f), c, rdy, world, f)
    BY <1>2, RestoreZoneSound
<1> QED BY <1>1, <1>3 DEF e

\* A zone that was off, with no rearm planned, stays off; at the first start, where
\* nothing is stored, the zone comes up as it was built.
LEMMA StartOff ==
    ASSUME EngineOK, stored \in Configs, row.state = "disarmed", row.rearmMode = None,
           NEW readable, NEW plausible, NEW elapsed, NEW rdy, NEW f
    PROVE  LET c == StartZone(eng, readable, plausible, elapsed, rdy, f)
           IN /\ c.z.mode = Off /\ c.cfg = stored
              /\ row = RowOf(FreshZone) => Refers(stored, c.z)
<1> DEFINE e0 == Booted(rdy)
           e == LoadRow(e0, readable, f)
           tr == [s \in Sensors |-> {}]
           y == [e.z EXCEPT !.state = "disarmed", !.mode = Off, !.preState = None,
                            !.preMode = None, !.preAlarm = FALSE]
           b == With(e, y)
           z1 == [b.z EXCEPT !.rearmMode = None]
           a == OnAutoRearmRestore(b, plausible, elapsed, rdy, world, tr, f)
           c == StartZone(eng, readable, plausible, elapsed, rdy, f)
<1>1. Stored(e0) /\ e0.row = row /\ e0.cfg = stored
    BY BootedFields
<1>2. row = RowOf(FreshZone) =>
        row.bypassed = {} /\ row.openAtArm = {} /\ row.pendingCause = None
    BY DEF RowOf, FreshZone
<1>3. c = RestoreDisarmed(e, plausible, elapsed, rdy, world, tr, f)
    BY <1>1 DEF StartZone, RestoreZone, Booted
<1> HIDE DEF e0
<1>4. Stored(e) /\ Loaded(e) /\ e.row = row /\ e.cfg = stored
    BY <1>1, LoadRowStored, LoadRowLoads
<1> HIDE DEF e
<1>5. e.z \in Zones /\ None \notin Modes /\ stored.modes \subseteq Modes
    BY <1>4, NoneAssumption DEF Stored, Typed, Engines, Configs
<1>6. /\ y.mode = Off /\ y.preMode = None /\ y.rearmMode = None
      /\ y.bypassed = row.bypassed /\ y.openAtArm = row.openAtArm
      /\ y.pendingCause = row.pendingCause
    BY <1>4, <1>5 DEF Zones, Loaded
<1>8. c = Persist(a, f)
    BY <1>3 DEF RestoreDisarmed
<1>9. y \in Zones /\ y.incident = e.z.incident
    <2> DEFINE x == [e.z EXCEPT !.state = "disarmed", !.mode = Off, !.preAlarm = FALSE]
    <2>1. x \in Zones /\ x.incident = e.z.incident
        BY <1>5 DEF Zones, States
    <2>2. y = [x EXCEPT !.preState = None, !.preMode = None]
        BY <1>5 DEF Zones
    <2> HIDE DEF x
    <2> QED BY <2>1, <2>2, ClearPreTriggerZone
<1> HIDE DEF y
<1>10. Typed(b) /\ b.z = y /\ b.cfg = stored
    BY <1>4, <1>9, WithTyped DEF Stored
<1>11. a = With(b, z1)
    BY <1>5, <1>6, <1>10 DEF OnAutoRearmRestore
<1> SUFFICES /\ c.z.mode = Off /\ c.cfg = stored
             /\ row = RowOf(FreshZone) => Refers(stored, c.z)
    OBVIOUS
<1> HIDE DEF b, a, c
<1>12. z1 \in Zones /\ z1.incident = b.z.incident
    BY <1>9, <1>10 DEF Zones
<1>13. /\ z1.mode = Off /\ z1.preMode = None
       /\ z1.bypassed = row.bypassed /\ z1.openAtArm = row.openAtArm
       /\ z1.pendingCause = row.pendingCause
    BY <1>6, <1>9, <1>10 DEF Zones
<1> HIDE DEF z1
<1>14. Typed(a) /\ a.z = z1 /\ a.cfg = stored
    BY <1>10, <1>11, <1>12, WithTyped
<1>15. c.z = z1 /\ c.cfg = stored
    BY <1>8, <1>14, PersistTyped
<1> QED BY <1>2, <1>13, <1>15 DEF Refers

-----------------------------------------------------------------------------
\* Reload and Stop.

LEMMA ReloadConfigSound ==
    ASSUME NEW e, Sane(e), Moded(e.z), Moded(e.row), NEW k \in Configs, NEW r, NEW w, NEW f
    PROVE  LET c == ReloadConfig(e, k, r, w, f)
           IN /\ Sound(c, f) /\ c.cfg = k
              /\ c.z.state \in {e.z.state, "disarmed"} /\ c.z.mode \in {e.z.mode, Off}
              /\ Even(e) => Even(c)
              /\ e.z.preMode \in {e.z.mode, None} => Refers(k, c.z)
<1> DEFINE e1 == [e EXCEPT !.cfg = k]
           e2 == IF e.z.mode \in Modes \ k.modes THEN DisarmLocked(e1, f) ELSE e1
           kept == e.cfg.sensors \cap k.sensors
           z == PruneSensors(e2.z, k.sensors)
           v == [s \in Sensors |-> IF s \in kept THEN e2.view[s] ELSE "unknown"]
           e3 == [e2 EXCEPT !.z = z, !.view = v]
           e4 == RefreshSensorValues(e3, r, w)
           c == ReloadConfig(e, k, r, w, f)
<1>1. Sane(e1) /\ Typed(e1) /\ e1.z = e.z /\ e1.row = e.row /\ e1.cfg = k
    BY DEF Sane, Stored, Typed, Engines
<1>2. c = Persist(e4, f)
    BY DEF ReloadConfig
<1>3. /\ Sane(e2) /\ e2.cfg = k /\ Moded(e2.z) /\ Moded(e2.row) /\ (Even(e) => Even(e2))
      /\ \/ e2.z = e.z
         \/ e2.z.mode = Off /\ e2.z.preMode = None /\ e2.z.state = "disarmed"
      /\ e2.z.mode \in k.modes \cup {Off}
    <2> HIDE DEF e1
    <2>1. CASE e.z.mode \in Modes \ k.modes
        <3> DEFINE d == DisarmLocked(e1, f)
        <3>0. e2 = d
            BY <2>1
        <3>1. Sane(d) /\ Does(e1, d, f) /\ Disarms(d.z)
            BY <1>1, DisarmLockedSane, DisarmLockedDoes
        <3> HIDE DEF d
        <3>2. d.z \in Zones
            BY <3>1 DEF Sane, Stored, Typed, Engines
        <3>3. Moded(d.z) /\ Moded(d.row) /\ (Even(e) => Even(d))
            BY <1>1, <3>1, <3>2, DoesKeeps DEF Even
        <3> HIDE DEF e2
        <3> QED BY <1>1, <3>0, <3>1, <3>3 DEF Does, Disarms
    <2>2. CASE e.z.mode \notin Modes \ k.modes
        <3>0. e2 = e1
            BY <2>2
        <3>1. e.z.mode \in Modes \cup {Off}
            BY DEF Sane, Stored, Typed, Engines, Zones
        <3> HIDE DEF e2
        <3> QED BY <1>1, <2>2, <3>0, <3>1 DEF Even
    <2> QED BY <2>1, <2>2
<1> SUFFICES /\ Sound(c, f) /\ c.cfg = k
             /\ c.z.state \in {e.z.state, "disarmed"} /\ c.z.mode \in {e.z.mode, Off}
             /\ Even(e) => Even(c)
             /\ e.z.preMode \in {e.z.mode, None} => Refers(k, c.z)
    OBVIOUS
<1> HIDE DEF e1, e2, c
<1>4. e2.z \in Zones /\ k.sensors \subseteq Sensors
    BY <1>3 DEF Sane, Stored, Typed, Engines, Configs
<1>5. /\ z \in Zones /\ Rests(e2.z, z) /\ z.incident = e2.z.incident
      /\ z.bypassed \subseteq k.sensors /\ z.openAtArm \subseteq k.sensors
      /\ z.pendingCause \in k.sensors \cup {None}
    <2> DEFINE x == [e2.z EXCEPT !.bypassed = @ \cap k.sensors, !.openAtArm = @ \cap k.sensors]
               p == IF e2.z.pendingCause \in k.sensors THEN e2.z.pendingCause ELSE None
    <2>1. x \in Zones
        BY <1>4 DEF Zones
    <2>2. p \in Sensors \cup {None} /\ p \in {e2.z.pendingCause, None}
          /\ p \in k.sensors \cup {None}
        BY <1>4 DEF Zones
    <2>3. z = [x EXCEPT !.pendingCause = p]
        BY <1>4 DEF PruneSensors, Zones
    <2>4. /\ x.state = e2.z.state /\ x.mode = e2.z.mode /\ x.preState = e2.z.preState
          /\ x.preMode = e2.z.preMode /\ x.timer = e2.z.timer /\ x.rearm = e2.z.rearm
          /\ x.incident = e2.z.incident /\ x.bypassed = e2.z.bypassed \cap k.sensors
          /\ x.openAtArm = e2.z.openAtArm \cap k.sensors
        BY <1>4 DEF Zones
    <2> HIDE DEF x, p, z
    <2>5. z \in Zones
        BY <2>1, <2>2, <2>3 DEF Zones
    <2>6. /\ z.state = e2.z.state /\ z.mode = e2.z.mode /\ z.preState = e2.z.preState
          /\ z.preMode = e2.z.preMode /\ z.timer = e2.z.timer /\ z.rearm = e2.z.rearm
          /\ z.incident = e2.z.incident /\ z.bypassed = e2.z.bypassed \cap k.sensors
          /\ z.openAtArm = e2.z.openAtArm \cap k.sensors /\ z.pendingCause = p
        BY <2>1, <2>3, <2>4 DEF Zones
    <2> QED BY <2>2, <2>5, <2>6 DEF Rests
<1>6. v \in Views
    BY <1>3 DEF Views, Sane, Stored, Typed, Engines
<1> HIDE DEF z, v
<1>7. Typed(e3) /\ e3.z = z /\ e3.row = e2.row /\ e3.cfg = k
    BY <1>3, <1>5, <1>6 DEF Sane, Stored, Typed, Engines
<1> HIDE DEF e3
<1>8. Typed(e4) /\ e4.z = z /\ e4.row = e2.row /\ e4.cfg = k
    <2>1. Stored(e3)
        BY <1>3, <1>7 DEF Stored, Sane
    <2> QED BY <1>7, <2>1, RefreshStored DEF Stored
<1> HIDE DEF e4
<1>9. Moded(z) /\ (Matched(e2.z) => Matched(z))
    BY <1>3, <1>4, <1>5, MovesModed, MovesMatched DEF Moves
<1>10. Sound(c, f) /\ (Even(e4) => Even(c)) /\ c.z = z /\ c.cfg = k
    BY <1>2, <1>3, <1>8, <1>9, SoundPersist, PersistTyped
<1>11. Even(e) => Even(c)
    BY <1>3, <1>8, <1>9, <1>10 DEF Even
<1>12. /\ e.z.preMode \in {e.z.mode, None} => Refers(k, z)
       /\ z.state \in {e.z.state, "disarmed"} /\ z.mode \in {e.z.mode, Off}
    BY <1>3, <1>5 DEF Refers, Rests
<1> QED BY <1>10, <1>11, <1>12

\* Stop writes the row before it cancels the timers.
LEMMA StopZoneSound ==
    ASSUME NEW e, Sane(e), Moded(e.z), Moded(e.row), NEW f
    PROVE  LET c == StopZone(e, f)
           IN /\ c.cfg = e.cfg /\ c.z.state = e.z.state /\ c.z.mode = e.z.mode
              /\ Moded(c.z) /\ Moded(c.row)
              /\ Even(e) => Even(c)
              /\ Refers(e.cfg, e.z) => Refers(c.cfg, c.z)
              /\ "row" \notin f => Agrees(c.row, c.z)
              /\ c.db = e.db /\ c.z.incident = e.z.incident
              /\ c.row \in {e.row, RowOf(e.z)}
              /\ "row" \notin f => c.row = RowOf(e.z)
<1> DEFINE p == Persist(e, f)
           y == CancelTimers(e.z)
           z == CancelAutoRearm(y)
           c == StopZone(e, f)
<1>1. e.z \in Zones /\ Typed(e)
    BY DEF Sane, Stored, Typed, Engines
<1>2. Sound(p, f) /\ (Even(e) => Even(p))
    BY <1>1, SoundPersist
<1>3. /\ Typed(p) /\ p.z = e.z /\ p.cfg = e.cfg /\ p.db = e.db
      /\ p.row = IF "row" \in f THEN e.row ELSE RowOf(e.z)
    BY <1>1, PersistTyped DEF Persist, Typed, Engines
<1>4. c = With(p, z)
    BY <1>3 DEF StopZone
<1> SUFFICES /\ c.cfg = e.cfg /\ c.z.state = e.z.state /\ c.z.mode = e.z.mode
             /\ Moded(c.z) /\ Moded(c.row)
             /\ Even(e) => Even(c)
             /\ Refers(e.cfg, e.z) => Refers(c.cfg, c.z)
             /\ "row" \notin f => Agrees(c.row, c.z)
             /\ c.db = e.db /\ c.z.incident = e.z.incident
             /\ c.row \in {e.row, RowOf(e.z)}
             /\ "row" \notin f => c.row = RowOf(e.z)
    OBVIOUS
<1> HIDE DEF p, c
<1>5. y \in Zones
    BY <1>1, CancelTimersZone
<1>6. Same(e.z, y) /\ y.timer = "none" /\ y.rearm = e.z.rearm /\ y.incident = e.z.incident
    BY <1>1 DEF CancelTimers, Zones, Same, IncidentId
<1> HIDE DEF y
<1>7. z \in Zones
    BY <1>5, CancelAutoRearmZone
<1>8. Same(e.z, z) /\ z.timer = "none" /\ ~z.rearm /\ z.incident = e.z.incident
    BY <1>5, <1>6 DEF CancelAutoRearm, Zones, Same, IncidentId
<1> HIDE DEF z
<1>9. c.z = z /\ c.row = p.row /\ c.cfg = e.cfg /\ c.db = e.db
    BY <1>3, <1>4, <1>7, <1>8, WithTyped
<1>10. Rests(e.z, z)
    BY <1>8 DEF Same, Rests
<1>11. e.cfg \in Configs
    BY <1>1 DEF Typed, Engines
<1>12. Moded(z) /\ (Matched(e.z) => Matched(z)) /\ (Refers(e.cfg, e.z) => Refers(e.cfg, z))
    BY <1>1, <1>7, <1>10, <1>11, MovesModed, MovesMatched, MovesRefers DEF Moves
<1>13. "row" \notin f => Agrees(c.row, c.z)
    BY <1>2, <1>3, <1>8, <1>9 DEF Sound, Agrees, Same
<1> QED BY <1>2, <1>3, <1>9, <1>8, <1>10, <1>12, <1>13 DEF Sound, Even, Rests

-----------------------------------------------------------------------------
\* The inductive invariant.  It adds to the mode discipline of zone and row:
\* where a restart cannot have lost an incident on the way back to armed, both
\* agree with ModeMatchesState; before the first restart the zone refers to what
\* is configured; and while every write succeeds the row is current.

Settled == restarts = 0 \/ ZoneConfig.postTrigger = "disarm"

Current ==
    /\ faults = 0 /\ life # "down" => Agrees(row, zone)
    /\ faults = 0 /\ life = "up" => row.timer = zone.timer

ModeInv ==
    /\ ControlInv
    /\ Moded(zone) /\ Moded(row)
    /\ Settled => Matched(zone) /\ Matched(row)
    /\ restarts = 0 => IF life = "down" THEN row = RowOf(FreshZone) ELSE Refers(cfg, zone)
    /\ Current

LEMMA FreshZoneSound ==
    /\ Moded(FreshZone) /\ Matched(FreshZone)
    /\ Moded(RowOf(FreshZone)) /\ Matched(RowOf(FreshZone))
<1>1. /\ FreshZone.state = "disarmed" /\ FreshZone.mode = Off /\ FreshZone.bypassed = {}
      /\ FreshZone.preState = None /\ FreshZone.preMode = None /\ FreshZone.timer = "none"
      /\ FreshZone.rearm = FALSE
    BY DEF FreshZone
<1>2. None \notin States
    BY NoneAssumption
<1>3. Moded(FreshZone) /\ Matched(FreshZone)
    BY <1>1, <1>2 DEF Moded, Matched, ArmedSide, States
<1> QED BY <1>3, RowOfFields

LEMMA InitModeInv ==
    ASSUME Init
    PROVE  ModeInv
<1>1. zone = FreshZone /\ row = RowOf(FreshZone) /\ life = "down"
    BY DEF Init
<1>2. ControlInv
    BY InitControlInv
<1> QED BY <1>1, <1>2, FreshZoneSound DEF ModeInv, Current

LEMMA WritingClean ==
    ASSUME NEW f, Writing(f), faults \in Nat, faults' = 0
    PROVE  f = {} /\ faults = 0
BY DEF Writing

LEMMA BecomesFields ==
    ASSUME NEW c, Becomes(c)
    PROVE  /\ zone' = c.z /\ cfg' = c.cfg /\ view' = c.view /\ row' = c.row
           /\ db' = c.db /\ horn' = c.horn /\ fired' = c.fired
BY DEF Becomes

\* A handler of a running engine: the facts of the contract.
LEMMA HandledMode ==
    ASSUME ModeInv, Handled, ControlInv'
    PROVE  ModeInv'
<1>1. PICK f \in Faults : \E e, c : Writing(f) /\ Like(e) /\ Becomes(c) /\ Outcome(e, c, f)
    BY DEF Handled
<1>2. PICK e, c : Writing(f) /\ Like(e) /\ Becomes(c) /\ Outcome(e, c, f)
    BY <1>1
<1>3. /\ EngineOK /\ (life = "up" => Clocked(zone)) /\ faults \in Nat
    BY ControlInvParts DEF ModeInv, AroundOK
<1>4. zone' \in Zones
    BY DEF ControlInv, TypeOK
<1>5. /\ zone' = c.z /\ cfg' = c.cfg /\ row' = c.row
    BY <1>2, BecomesFields
<1>6. Does(eng, c, f) /\ (Clocked(zone) => Punctual(eng, c, f))
    BY <1>2, OutcomeDoes DEF ModeInv
<1>7. Typed(eng) /\ eng.z = zone /\ eng.row = row /\ eng.cfg = cfg
    BY <1>3, LikeEng, EngFields
<1>8. c.z \in Zones
    BY <1>4, <1>5
<1>9. /\ Moded(c.z) /\ Moded(c.row)
      /\ Matched(zone) /\ Matched(row) => Matched(c.z) /\ Matched(c.row)
      /\ "row" \notin f /\ Agrees(row, zone) => Agrees(c.row, c.z)
      /\ Refers(cfg, zone) => Refers(c.cfg, c.z)
    <2>1. Moded(eng.z) /\ Moded(eng.row)
        BY <1>7 DEF ModeInv
    <2> QED BY <1>6, <1>7, <1>8, <2>1, DoesKeeps
<1>10. life' = life /\ life # "down" /\ restarts' = restarts
    BY DEF Handled
<1>11. faults' = 0 => faults = 0 /\ "row" \notin f
    BY <1>2, <1>3, WritingClean
<1>12. Current'
    BY <1>3, <1>5, <1>6, <1>7, <1>9, <1>10, <1>11 DEF ModeInv, Current, Punctual
<1> QED BY <1>5, <1>9, <1>10, <1>12 DEF ModeInv, Settled

LEMMA ReloadMode ==
    ASSUME ModeInv, Reload, ControlInv'
    PROVE  ModeInv'
<1>1. PICK f \in Faults : Writing(f) /\ Becomes(ReloadConfig(eng, stored, ready, world, f))
    BY DEF Reload
<1>2. life = "up" /\ life' = "up" /\ restarts' = restarts
    BY DEF Reload
<1>3. EngineOK /\ faults \in Nat /\ stored \in Configs
    BY ControlInvParts DEF ModeInv, AroundOK
<1>4. Sane(eng) /\ eng.z = zone /\ eng.row = row /\ eng.cfg = cfg
    BY <1>3, EngSane, EngFields
<1> DEFINE c == ReloadConfig(eng, stored, ready, world, f)
<1>5. /\ Sound(c, f) /\ c.cfg = stored
      /\ Even(eng) => Even(c)
      /\ zone.preMode \in {zone.mode, None} => Refers(stored, c.z)
    <2>1. Moded(eng.z) /\ Moded(eng.row)
        BY <1>4 DEF ModeInv
    <2> QED BY <1>3, <1>4, <2>1, ReloadConfigSound
<1>6. zone' = c.z /\ cfg' = c.cfg /\ row' = c.row
    BY <1>1, BecomesFields
<1> HIDE DEF c
<1>7. faults' = 0 => "row" \notin f
    BY <1>1, <1>3, WritingClean
<1>8. Current'
    BY <1>5, <1>6, <1>7 DEF Sound, Current
<1>9. restarts = 0 => Refers(cfg', zone')
    BY <1>2, <1>5, <1>6 DEF ModeInv, Refers
<1>10. Settled' => Matched(zone') /\ Matched(row')
    BY <1>2, <1>4, <1>5, <1>6 DEF ModeInv, Settled, Even
<1> QED BY <1>2, <1>5, <1>6, <1>8, <1>9, <1>10 DEF ModeInv, Sound

LEMMA StopMode ==
    ASSUME ModeInv, Stop, ControlInv'
    PROVE  ModeInv'
<1>1. PICK f \in Faults : Writing(f) /\ Becomes(StopZone(eng, f))
    BY DEF Stop
<1>2. life = "up" /\ life' = "stopped" /\ restarts' = restarts
    BY DEF Stop
<1>3. EngineOK /\ faults \in Nat
    BY ControlInvParts DEF ModeInv, AroundOK
<1>4. Sane(eng) /\ eng.z = zone /\ eng.row = row /\ eng.cfg = cfg
    BY <1>3, EngSane, EngFields
<1> DEFINE c == StopZone(eng, f)
<1>5. /\ c.cfg = cfg /\ Moded(c.z) /\ Moded(c.row)
      /\ Even(eng) => Even(c)
      /\ Refers(cfg, zone) => Refers(c.cfg, c.z)
      /\ "row" \notin f => Agrees(c.row, c.z)
    <2>1. Moded(eng.z) /\ Moded(eng.row)
        BY <1>4 DEF ModeInv
    <2> QED BY <1>4, <2>1, StopZoneSound
<1>6. zone' = c.z /\ cfg' = c.cfg /\ row' = c.row
    BY <1>1, BecomesFields
<1> HIDE DEF c
<1>7. faults' = 0 => "row" \notin f
    BY <1>1, <1>3, WritingClean
<1>8. Current'
    BY <1>2, <1>5, <1>6, <1>7 DEF Current
<1>9. restarts = 0 => Refers(cfg', zone')
    BY <1>2, <1>5, <1>6 DEF ModeInv
<1>10. Settled' => Matched(zone') /\ Matched(row')
    BY <1>2, <1>4, <1>5, <1>6 DEF ModeInv, Settled, Even
<1> QED BY <1>2, <1>5, <1>6, <1>8, <1>9, <1>10 DEF ModeInv

LEMMA ExitMode ==
    ASSUME ModeInv, Exit \/ CrashInSilence, ControlInv'
    PROVE  ModeInv'
<1>1. Memoryless /\ row' = row
    BY DEF Exit, CrashInSilence
<1>2. life' = "down" /\ zone' = FreshZone /\ restarts' = restarts + 1
    BY <1>1 DEF Memoryless
<1>3. restarts' # 0
    BY <1>2 DEF ModeInv, ControlInv, TypeOK
<1> QED BY <1>1, <1>2, <1>3, FreshZoneSound DEF ModeInv, Settled, Current

LEMMA StartMode ==
    ASSUME ModeInv, Start, ControlInv'
    PROVE  ModeInv'
<1>1. PICK readable \in BOOLEAN, plausible \in BOOLEAN, elapsed \in BOOLEAN, rdy \in BOOLEAN,
           f \in Faults :
        /\ Writing(f) /\ ready' = rdy
        /\ Becomes(StartZone(eng, readable, plausible, elapsed, rdy, f))
    BY DEF Start
<1>2. life = "down" /\ life' = "up" /\ restarts' = restarts
    BY DEF Start
<1>3. EngineOK /\ faults \in Nat /\ stored \in Configs
    BY ControlInvParts DEF ModeInv, AroundOK
<1> DEFINE e == LoadRow(Booted(rdy), readable, f)
           c == StartZone(eng, readable, plausible, elapsed, rdy, f)
<1>4. Restored(e, c, rdy, world, f)
    BY <1>3, StartSound DEF ModeInv
<1>5. restarts = 0 => Refers(stored, c.z) /\ c.cfg = stored
    <2>1. row = RowOf(FreshZone) => row.state = "disarmed" /\ row.rearmMode = None
        BY DEF RowOf, FreshZone
    <2> QED BY <1>2, <1>3, <2>1, StartOff DEF ModeInv
<1>6. zone' = c.z /\ cfg' = c.cfg /\ row' = c.row
    BY <1>1, BecomesFields
<1>7. e.row = row
    <2>1. Stored(Booted(rdy)) /\ Booted(rdy).row = row
        BY <1>3, BootedFields
    <2> QED BY <2>1, LoadRowLoads
<1> HIDE DEF e, c
<1>8. restarts = 0 => e.row.state # "triggered"
    BY <1>2, <1>7 DEF ModeInv, RowOf, FreshZone
<1>9. Settled => Even(c)
    BY <1>4, <1>7, <1>8 DEF ModeInv, Restored, Recalled, Settled
<1>10. faults' = 0 => "row" \notin f
    BY <1>1, <1>3, WritingClean
<1>11. Current'
    BY <1>4, <1>6, <1>10 DEF Current, Restored, Sound
<1> QED BY <1>2, <1>4, <1>5, <1>6, <1>9, <1>11 DEF ModeInv, Restored, Sound, Settled, Even

LEMMA NextMode ==
    ASSUME ModeInv, Next
    PROVE  ModeInv'
<1>1. ControlInv /\ ControlInv'
    BY NextStep DEF ModeInv
<1>2. CASE Quiet
    BY <1>1, <1>2 DEF Quiet, ModeInv, Settled, Current
<1> QED BY <1>1, <1>2, StepKinds, HandledMode, ReloadMode, StopMode, ExitMode, StartMode

\* Zone and row keep the mode discipline, the references and the record of the
\* zone: for every configuration and every interleaving of verbs, events, timers,
\* reloads, failing writes and restarts.
THEOREM ModeInvariant == Spec => []ModeInv
<1>1. Init => ModeInv
    BY InitModeInv
<1>2. ModeInv /\ [Next]_vars => ModeInv'
    <2>1. ASSUME ModeInv, UNCHANGED vars PROVE ModeInv'
        <3>1. ControlInv'
            BY <2>1 DEF ModeInv, ControlInv, TypeOK, IncidentIffTriggered, TimerDiscipline,
                        Unlinked, vars, engVars, sensorVars, envVars, countVars
        <3> QED BY <2>1, <3>1 DEF ModeInv, Settled, Current, vars, engVars, countVars
    <2> QED BY <2>1, NextMode
<1> QED BY <1>1, <1>2, PTL DEF Spec

\* Once its alarm has ended, no pre-trigger tuple is left behind: the next intrusion
\* alarm cannot end through finishAlwaysOn (trigger, alwaysOnFire, restoreTriggered).
THEOREM PreTriggerCleared == Spec => []NoPreTriggerResidue
<1>1. ModeInv => NoPreTriggerResidue
    BY DEF ModeInv, Moded, NoPreTriggerResidue
<1> QED BY <1>1, ModeInvariant, PTL

\* An auto-rearm never waits behind a zone that is armed, pending or in an
\* intrusion alarm (scheduleAutoRearm, beginArm, restoreZone).
THEOREM RearmBehindOff == Spec => []RearmOnlyWhileOff
<1>1. ModeInv => RearmOnlyWhileOff
    BY DEF ModeInv, Moded, RearmOnlyWhileOff
<1> QED BY <1>1, ModeInvariant, PTL

\* While every store write succeeds, the alarm_state row of a running engine is what
\* a restart needs (persist at the end of every handler that changes the zone).
THEOREM RowKeptCurrent == Spec => []RowIsCurrent
<1>1. ModeInv => RowIsCurrent
    BY DEF ModeInv, Current, Agrees, IncidentId, RowIsCurrent, Critical
<1> QED BY <1>1, ModeInvariant, PTL

\* Reload leaves no reference to a removed sensor or mode, whatever is in flight
\* (Reload, pruneSensors).
THEOREM ReferencesPruned == Spec => []ReferencesAreConfigured
<1>1. ModeInv => ReferencesAreConfigured
    <2>1. ASSUME ModeInv PROVE Off \notin Modes /\ zone.mode \in Modes \cup {Off}
        BY <2>1, NoneAssumption DEF ModeInv, ControlInv, TypeOK, Zones
    <2>2. ASSUME ModeInv, life = "up", restarts = 0 PROVE Refers(cfg, zone) /\ Matched(zone)
        BY <2>2 DEF ModeInv, Settled
    <2> QED BY <2>1, <2>2 DEF Refers, Matched, ReferencesAreConfigured
<1> QED BY <1>1, ModeInvariant, PTL

-----------------------------------------------------------------------------
\* Action properties.

\* Of the handlers other than arm, only the auto-rearm arms a zone that was off.
LEMMA ReactionArms ==
    ASSUME Moded(zone), zone.state = "disarmed", NEW f, NEW e, NEW c, Like(e),
           Reaction(e, c, f), ArmedSide(c.z.state)
    PROVE  c = OnAutoRearmElapsed(e, ready, world, trouble, f)
<1>1. Sane(e) /\ Typed(e)
    BY DEF Like, Sane, Stored
<1>2. e.z.state = "disarmed" /\ e.z.bypassed = {} /\ e.z.incident = None
    BY <1>1, EngFields DEF Like, Alike, Same, Moded, Sane, Linked
<1>3. OnStateTimerFired(e, f).z.state = "disarmed"
    <2> DEFINE z == [e.z EXCEPT !.timer = "none"]
    <2>1. OnStateTimerFired(e, f) = With(e, z)
        BY <1>2 DEF OnStateTimerFired
    <2>2. z.state = "disarmed"
        BY <1>1, <1>2 DEF Typed, Engines, Zones
    <2> HIDE DEF z
    <2>3. With(e, z).z = z
        BY <1>1 DEF With, Typed, Engines
    <2> QED BY <2>1, <2>2, <2>3
<1>4. c.z.state # "disarmed" /\ c.z.state # "triggered"
    BY DEF ArmedSide
<1>5. ~Minor(e, c, f)
    BY <1>2, <1>4 DEF Minor, Rests
<1>6. c # DisarmLocked(e, f)
    BY <1>1, <1>4, DisarmLockedDoes DEF Disarms
<1>7. ASSUME NEW cause \in Sensors \cup {None}, NEW loud \in BOOLEAN
      PROVE  c # AlwaysOnFire(e, cause, loud, f)
    <2>1. SUFFICES ASSUME c = AlwaysOnFire(e, cause, loud, f) PROVE FALSE
        OBVIOUS
    <2>2. Rests(e.z, c.z) \/ Interrupts(e.z, c.z)
        BY <1>1, <2>1, AlwaysOnFireDoes
    <2> QED BY <1>2, <1>4, <2>2 DEF Rests, Interrupts
<1>8. ASSUME NEW s \in e.cfg.sensors, NEW keep
      PROVE  c # GateCrossZone(e, s, keep, f)
    <2> DEFINE x == [e.z EXCEPT !.hits = {}]
               y == [e.z EXCEPT !.hits = {s}]
    <2>1. e.z \in Zones /\ s \in Sensors
        BY <1>1 DEF Typed, Engines, Configs
    <2>2. x \in Zones /\ y \in Zones
        BY <2>1 DEF Zones
    <2>3. /\ x.state = "disarmed" /\ x.incident = e.z.incident
          /\ y.state = "disarmed" /\ y.incident = e.z.incident
        BY <1>2, <2>1 DEF Zones
    <2> HIDE DEF x, y
    <2>4. With(e, x).z = x /\ With(e, y).z = y
        BY <1>1, <2>2, <2>3, WithTyped
    <2>5. \A b : b.z.state = "disarmed" => DispatchSensorActivation(b, s, f) = b
        BY DEF DispatchSensorActivation
    <2>6. GateCrossZone(e, s, keep, f) \in
              {DispatchSensorActivation(e, s, f), DispatchSensorActivation(With(e, x), s, f),
               With(e, y)}
        BY DEF GateCrossZone, x, y
    <2>7. GateCrossZone(e, s, keep, f) \in {e, With(e, x), With(e, y)}
        BY <1>2, <2>3, <2>4, <2>5, <2>6
    <2> QED BY <1>2, <1>4, <2>3, <2>4, <2>7
<1>9. c # ReEvaluate(e, ready, world, f)
    BY <1>2, <1>4 DEF ReEvaluate
<1>10. c # OnStateTimerFired(e, f)
    BY <1>3, <1>4
<1> QED BY <1>2, <1>5, <1>6, <1>7, <1>8, <1>9, <1>10 DEF Reaction, ArmedSide

\* And whoever arms it has looked at the sensors.
LEMMA OutcomeVetted ==
    ASSUME Moded(zone), zone.state = "disarmed", NEW f, NEW e, NEW c, Like(e),
           Outcome(e, c, f), ArmedSide(c.z.state)
    PROVE  Vetted(c, ready, world, trouble) /\ Typed(c)
<1>1. Sane(e) /\ Typed(e)
    BY DEF Like, Sane, Stored
<1>2. e.z.state = "disarmed" /\ e.z.bypassed = {} /\ e.z.incident = None
    BY <1>1, EngFields DEF Like, Alike, Same, Moded, Sane, Linked
<1>3. \/ \E m \in e.cfg.modes : \E bypass, force, skip :
            c = BeginArm(e, m, bypass, force, skip, ready, world, trouble, f)
      \/ c = OnAutoRearmElapsed(e, ready, world, trouble, f)
    BY ReactionArms DEF Outcome
<1>4. Sane(c)
    <2>1. e.cfg.modes \subseteq Modes
        BY <1>1 DEF Typed, Engines, Configs
    <2> QED BY <1>1, <1>2, <1>3, <2>1, BeginArmSane, OnAutoRearmElapsedSane
<1> QED BY <1>1, <1>2, <1>3, <1>4, BeginArmVetted, OnAutoRearmElapsedVetted DEF Sane, Stored

LEMMA ArmingVetted ==
    ASSUME ModeInv, Next, ControlInv', life = "up", zone.state = "disarmed",
           ArmedSide(zone'.state)
    PROVE  Blocking(RefreshSensorValues(eng', ready, world), trouble, zone'.mode) = {}
<1>1. ControlInv /\ EngineOK /\ Clocked(zone) /\ stored \in Configs
    BY ControlInvParts DEF ModeInv, AroundOK
<1>2. Sane(eng) /\ eng.z = zone /\ eng.row = row /\ Moded(eng.z) /\ Moded(eng.row)
    BY <1>1, EngSane, EngFields DEF ModeInv
<1>3. zone'.state # zone.state /\ zone'.state # "disarmed"
    BY DEF ArmedSide
<1>4. CASE Handled
    <2>1. PICK f \in Faults : \E e, c : Like(e) /\ Becomes(c) /\ Outcome(e, c, f)
        BY <1>4 DEF Handled
    <2>2. PICK e, c : Like(e) /\ Becomes(c) /\ Outcome(e, c, f)
        BY <2>1
    <2>3. /\ zone' = c.z /\ cfg' = c.cfg /\ view' = c.view /\ row' = c.row
          /\ db' = c.db /\ horn' = c.horn /\ fired' = c.fired
        BY <2>2, BecomesFields
    <2>4. Vetted(c, ready, world, trouble) /\ Typed(c)
        BY <1>1, <2>2, <2>3, OutcomeVetted DEF ModeInv
    <2>5. PICK d : d = eng'
        OBVIOUS
    <2>6. Typed(d) /\ d.z = zone' /\ d.cfg = cfg' /\ d.view = view'
        BY <2>5 DEF eng, Typed, Engines, ControlInv, TypeOK
    <2>7. Blocking(RefreshSensorValues(d, ready, world), trouble, zone'.mode) = {}
        BY <2>3, <2>4, <2>6, BlockingFields DEF Vetted
    <2> QED BY <2>5, <2>7
<1>5. CASE Quiet
    BY <1>3, <1>5 DEF Quiet
<1>6. CASE Reload
    BY <1>1, <1>2, <1>3, <1>6, ReloadConfigSound, BecomesFields DEF Reload
<1>7. CASE Stop
    BY <1>1, <1>2, <1>3, <1>7, StopZoneSound, BecomesFields DEF Stop
<1>8. CASE Exit \/ CrashInSilence
    BY <1>3, <1>8, FreshZoneOK DEF Exit, CrashInSilence, Memoryless
<1>9. ~Start
    BY DEF Start
<1> QED BY <1>1, <1>4, <1>5, <1>6, <1>7, <1>8, <1>9, StepKinds

\* Whoever arms a zone that was off (arm, the auto-rearm), whatever was forced or
\* skipped: each sensor that blocks on the values known now is on the bypass list
\* (beginArm, readinessDetail).
THEOREM BypassesAreListed == Spec => NothingBypassedSilently
<1> DEFINE A == life = "up" /\ zone.state = "disarmed" /\ ArmedSide(zone'.state) =>
                    Blocking(RefreshSensorValues(eng', ready, world), trouble, zone'.mode) = {}
<1>1. ModeInv /\ [Next]_vars => [A]_vars
    <2>1. ASSUME ModeInv, Next PROVE A
        <3>1. ControlInv'
            BY <2>1, NextStep DEF ModeInv
        <3> QED BY <2>1, <3>1, ArmingVetted
    <2> HIDE DEF A
    <2> QED BY <2>1
<1> QED BY <1>1, ModeInvariant, PTL DEF Spec, NothingBypassedSilently

LEMMA StartSeesOpenings ==
    ASSUME ModeInv, Next, life = "down", life' = "up", ready', zone'.state = "armed"
    PROVE  \A s \in cfg'.sensors :
              InMode(s, zone'.mode) /\ world[s] => s \in zone'.openAtArm \cup zone'.bypassed
<1>1. ControlInv /\ EngineOK /\ stored \in Configs
    BY ControlInvParts DEF ModeInv, AroundOK
<1>2. Start
    <2>1. ~Handled /\ ~Quiet
        BY DEF Handled, Quiet
    <2>2. ~Reload /\ ~Stop
        BY DEF Reload, Stop
    <2>3. ~Exit /\ ~CrashInSilence
        BY DEF Exit, CrashInSilence
    <2> QED BY <1>1, <2>1, <2>2, <2>3, StepKinds
<1>3. PICK readable \in BOOLEAN, plausible \in BOOLEAN, elapsed \in BOOLEAN, rdy \in BOOLEAN,
           f \in Faults :
        /\ ready' = rdy
        /\ Becomes(StartZone(eng, readable, plausible, elapsed, rdy, f))
    BY <1>2 DEF Start
<1> DEFINE c == StartZone(eng, readable, plausible, elapsed, rdy, f)
<1>4. Restored(LoadRow(Booted(rdy), readable, f), c, rdy, world, f)
    BY <1>1, StartSound DEF ModeInv
<1>5. zone' = c.z /\ cfg' = c.cfg
    BY <1>3, BecomesFields
<1> HIDE DEF c
<1> QED BY <1>3, <1>4, <1>5 DEF Restored, Sees

\* A restart loses no opening: a zone that Start leaves armed, with the sensor values
\* known, has each open member in its baseline or bypassed, whatever state the row
\* was in (restoreZone, reEvaluateAfterRestore, recaptureOpenBaseline).
THEOREM OpeningsSurviveRestart == Spec => RestartSeesOpenings
<1> DEFINE A == life = "down" /\ life' = "up" /\ ready' /\ zone'.state = "armed" =>
                  \A s \in cfg'.sensors : InMode(s, zone'.mode) /\ world[s]
                                              => s \in zone'.openAtArm \cup zone'.bypassed
<1>1. ModeInv /\ [Next]_vars => [A]_vars
    <2>1. ASSUME ModeInv, Next PROVE A
        BY <2>1, StartSeesOpenings
    <2> HIDE DEF A
    <2> QED BY <2>1
<1> QED BY <1>1, ModeInvariant, PTL DEF Spec, RestartSeesOpenings

\* gateCrossZone lets a grouped sensor through only after another member's hit.
LEMMA GateHolds ==
    ASSUME EngineOK, NEW e, Like(e), NEW s \in Sensors, SensorConfig[s].group,
           NEW keep \in SUBSET zone.hits, NEW f, zone.hits \ {s} = {}
    PROVE  GateCrossZone(e, s, keep, f).z.state = zone.state
<1> DEFINE y == [e.z EXCEPT !.hits = {s}]
<1>1. GateCrossZone(e, s, keep, f) = With(e, y)
    BY DEF GateCrossZone
<1>2. e.z \in Zones /\ Typed(e) /\ e.z.state = zone.state
    BY EngFields DEF Like, Alike, Same, Sane, Stored, Typed, Engines
<1>3. y \in Zones
    BY <1>2 DEF Zones
<1>4. y.state = e.z.state /\ y.incident = e.z.incident
    BY <1>2 DEF Zones
<1> HIDE DEF y
<1>5. With(e, y).z = y
    BY <1>2, <1>3, <1>4, WithTyped
<1> QED BY <1>1, <1>2, <1>4, <1>5

LEMMA AlarmVerified ==
    ASSUME ControlInv, NEW s \in Sensors, SensorConfig[s].group, ~SensorConfig[s].alwaysOn,
           zone.state = "armed", zone'.state # "armed", SensorEvent(s) \/ HoldElapsed(s)
    PROVE  zone.hits \ {s} # {}
<1>1. EngineOK /\ world \in [Sensors -> BOOLEAN]
    BY ControlInvParts DEF AroundOK
<1>2. /\ Like(eng) /\ eng.z = zone
      /\ Like(Seen(s)) /\ Typed(Seen(s)) /\ Seen(s).z = zone
    BY <1>1, LikeEng, LikeSeen, EngFields
<1>3. ASSUME NEW e, Becomes(e) PROVE e.z.state # "armed"
    BY <1>3, BecomesFields
<1>4. SUFFICES ASSUME zone.hits \ {s} = {} PROVE FALSE
    OBVIOUS
<1>5. ~AlwaysOnEvent(s)
    BY DEF AlwaysOnEvent, Hazard
<1>6. ~ClearEvent(s)
    <2> DEFINE z == [zone EXCEPT !.openAtArm = @ \ {s}]
               e2(f) == IF s \in zone.openAtArm THEN Persist(With(Seen(s), z), f) ELSE Seen(s)
    <2>1. SUFFICES ASSUME ClearEvent(s) PROVE FALSE
        OBVIOUS
    <2>2. PICK f \in Faults : Becomes(e2(f))
        BY <2>1 DEF ClearEvent
    <2>3. zone \in Zones
        BY <1>1 DEF EngineOK
    <2>4. z \in Zones
        BY <2>3 DEF Zones
    <2>5. z.state = zone.state /\ z.incident = zone.incident
        BY <2>3 DEF Zones
    <2> HIDE DEF z
    <2>6. Typed(With(Seen(s), z)) /\ With(Seen(s), z).z = z
        BY <1>2, <2>4, <2>5, WithTyped
    <2>7. e2(f).z \in {zone, z}
        BY <1>2, <2>6, PersistTyped
    <2> HIDE DEF e2
    <2> QED BY <1>3, <2>2, <2>5, <2>7
<1>7. ~ActivityWhileDisarmed(s)
    BY DEF ActivityWhileDisarmed
<1>8. ~ActivationEvent(s)
    BY <1>1, <1>2, <1>3, <1>4, GateHolds DEF ActivationEvent
<1>9. ~IgnoredEvent(s)
    BY <1>2, <1>3 DEF IgnoredEvent
<1>10. ~HoldElapsed(s)
    BY <1>1, <1>2, <1>3, <1>4, GateHolds DEF HoldElapsed
<1> QED BY <1>5, <1>6, <1>7, <1>8, <1>9, <1>10 DEF SensorEvent

\* Cross-zoning: no event and no elapsed hold of one grouped sensor alone starts the
\* entry delay or the alarm of an armed zone, however often it repeats (gateCrossZone).
THEOREM GroupNeedsTwo == Spec => VerifiedAlarm
<1> DEFINE A == \A s \in Sensors :
                  /\ SensorConfig[s].group /\ ~SensorConfig[s].alwaysOn
                  /\ zone.state = "armed" /\ zone'.state \in {"pending", "triggered"}
                  /\ SensorEvent(s) \/ HoldElapsed(s)
                  => zone.hits \ {s} # {}
<1>1. ControlInv /\ [Next]_vars => [A]_vars
    <2>1. ASSUME ControlInv PROVE A
        BY <2>1, AlarmVerified
    <2> HIDE DEF A
    <2> QED BY <2>1
<1> QED BY <1>1, ControlInvariant, PTL DEF Spec, VerifiedAlarm

=============================================================================
