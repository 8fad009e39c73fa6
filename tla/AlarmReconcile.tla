--------------------------- MODULE AlarmReconcile ---------------------------
(***************************************************************************)
(* The reconciliation pass of the alarm service (service.go, S4) composed   *)
(* with the zone machine.  The pass takes a snapshot of the zone, asks the  *)
(* output manager whether a siren sounds, and then adopts or stops: three   *)
(* steps, and the engine lock is held only inside the first and the last.   *)
(***************************************************************************)
EXTENDS AlarmZone

VARIABLES
    pass,  \* "idle", "snapshot" (zone read), "sounding" (a siren was heard)
    snap   \* the zone state the pass has read

reconcileVars == <<vars, pass, snap>>

ReconcileInit ==
    /\ Init
    /\ pass = "idle"
    /\ snap = "disarmed"

\* External: a direct link or a CCU program sounds the siren.
LinkSounds ==
    /\ ~horn
    /\ horn' = TRUE
    /\ UNCHANGED <<life, zone, cfg, view, row, db, fired, hushed, sensorVars, envVars,
                   stored, countVars, pass, snap>>

ReconcileBegin ==
    /\ life = "up"
    /\ pass = "idle"
    /\ pass' = "snapshot"
    /\ snap' = zone.state
    /\ UNCHANGED vars

ReconcileListen ==
    /\ pass = "snapshot"
    /\ pass' = IF horn THEN "sounding" ELSE "idle"
    /\ UNCHANGED <<vars, snap>>

\* Mutant of AdoptSounding: the alarm has no bounded trigger time.
AdoptUnbounded(e, f) ==
    LET e1 == IF e.z.incident = None THEN OpenIncident(e, None, f) ELSE e
    IN IF e.z.state = "triggered" /\ e.z.incident # None THEN e
       ELSE Persist(With(e1, [e1.z EXCEPT !.state = "triggered"]), f)

\* AdoptSounding: no output cycle, the siren already sounds.
AdoptSounding(e, f) ==
    LET e1 == IF e.z.incident = None THEN OpenIncident(e, None, f) ELSE e
    IN IF e.z.state = "triggered" /\ e.z.incident # None THEN e
       ELSE Persist(With(e1, [e1.z EXCEPT !.state = "triggered", !.timer = "trigger_time"]), f)

ReconcileAct ==
    /\ pass = "sounding"
    /\ pass' = "idle"
    /\ \E f \in Faults :
        /\ Writing(f)
        /\ Becomes(IF snap # "disarmed" THEN AdoptSounding(eng, f) ELSE StopAll(eng))
    /\ UNCHANGED <<life, sensorVars, envVars, stored, restarts, writes, snap>>

\* A step of the zone; the pass dies with the process.
ZoneStep ==
    /\ Next
    /\ pass' = IF life' = "down" THEN "idle" ELSE pass
    /\ UNCHANGED snap

ReconcileNext ==
    \/ LinkSounds
    \/ ReconcileBegin
    \/ ReconcileListen
    \/ ReconcileAct
    \/ ZoneStep

ReconcileSpec == ReconcileInit /\ [][ReconcileNext]_reconcileVars

\* "sounding sirens of armed zones are adopted as incidents; sounding sirens of
\* disarmed, unshared zones are stopped" (reconcile): the pass does not put a zone
\* that is off into alarm, although its snapshot may be older than the disarm.
OffZonesAreNotAdopted ==
    [][pass = "sounding" /\ pass' = "idle" /\ life' = life /\ zone.state = "disarmed"
            => zone'.state = "disarmed"]_reconcileVars

=============================================================================
