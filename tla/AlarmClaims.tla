---------------------------- MODULE AlarmClaims ----------------------------
(***************************************************************************)
(* Statements the comments and the concept document make about the zone     *)
(* machine and that the code does not keep.  Each is checked by a run of    *)
(* its own that shows the shortest behaviour against it.                    *)
(***************************************************************************)
EXTENDS AlarmZone

\* Stop "cancels all timers" (engine.go): a stopped engine starts no alarm.  The
\* hold-time timers of the sensors are not cancelled and not gated.
StoppedEngineIsQuiet ==
    [][life = "stopped" /\ life' = "stopped" /\ zone'.state # zone.state
            => zone'.state = "disarmed"]_vars

\* A member sensor that is not delayed triggers an armed zone instantly (concept,
\* entry delay): the event of an opening that is neither bypassed, gated nor in the
\* open-at-arm baseline takes the zone out of armed.  When refreshSensorValues has
\* taken over the value before the event is delivered, the event is a repetition
\* that nobody routes.
OpeningIsAnswered ==
    [][\A s \in cfg.sensors :
          /\ life = "up" /\ life' = "up"
          /\ s \in events /\ s \notin events'
          /\ zone.state = "armed" /\ world[s]
          /\ InMode(s, zone.mode) /\ s \notin zone.bypassed \cup zone.openAtArm
          /\ ~SensorConfig[s].holdTime /\ ~SensorConfig[s].group
          => zone'.state # "armed"]_vars

=============================================================================
