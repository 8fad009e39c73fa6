---------------------------- MODULE AlarmHistory ----------------------------
(***************************************************************************)
(* The zone machine with a history variable that says, across restarts,     *)
(* what the operator wants: off is true when the last arm or disarm verb a   *)
(* running engine took was a disarm.                                        *)
(***************************************************************************)
EXTENDS AlarmZone

VARIABLE off

historyVars == <<vars, off>>

HistoryInit == Init /\ off = TRUE

HistoryNext ==
    \/ ArmVerb /\ off' = FALSE
    \/ Disarm /\ off' = (off \/ life = "up")
    \/ /\ \/ OtherVerb
          \/ \E s \in Sensors : SensorEvent(s)
          \/ SensorStatus
          \/ Timer
          \/ Process
          \/ Environment
       /\ UNCHANGED off

HistorySpec == HistoryInit /\ [][HistoryNext]_historyVars

FairHistorySpec == HistorySpec /\ Fairness

\* An explicit disarm is durable: "the operator wants the zone to stay off"
\* (disarmIdle), so only another arm verb turns it on again, whatever timers run
\* and however often the process restarts.
StaysOff ==
    off /\ life = "up" =>
        \/ zone.state = "disarmed"
        \/ zone.state = "triggered" /\ zone.preState = "disarmed"

=============================================================================
