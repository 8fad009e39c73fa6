---------------------------- MODULE MCAlarmZone ----------------------------
(***************************************************************************)
(* Small instances of AlarmZone: the sensor classes and zone policies whose *)
(* interplay the properties are about.  A cfg picks one constant of each.   *)
(***************************************************************************)
EXTENDS AlarmZone

\* A perimeter sensor as the defaults of config.go leave it.
Plain ==
    [modes |-> Modes, useExitDelay |-> TRUE, useEntryDelay |-> TRUE,
     entryOverride |-> "unset", alwaysOn |-> FALSE, allowOpenAfterArming |-> FALSE,
     armAfterClosing |-> FALSE, bypassAuto |-> FALSE, triggerWhenUnavailable |-> FALSE,
     holdTime |-> FALSE, group |-> FALSE, panicSilent |-> FALSE]

CONSTANTS door, motion, smoke, away, home

Order == [s \in Sensors |-> IF s = door THEN 1 ELSE 2]

\* An entry door that ends the exit delay when it closes and may stay open.
EntryDoor ==
    [s \in Sensors |-> [Plain EXCEPT !.armAfterClosing = TRUE, !.allowOpenAfterArming = TRUE]]

\* An instant door that is excluded when it would block an arm, and an entry door
\* that is excluded likewise and answers when it cannot be reached.
Guarded ==
    [s \in Sensors |-> [Plain EXCEPT !.bypassAuto = TRUE, !.useEntryDelay = FALSE,
                                     !.useExitDelay = FALSE]]

FrontDoor ==
    [s \in Sensors |-> [Plain EXCEPT !.bypassAuto = TRUE, !.armAfterClosing = TRUE,
                                     !.triggerWhenUnavailable = TRUE]]

\* A verified pair: a held door and an instant motion detector in one group.
VerifiedPair ==
    [s \in Sensors |->
        IF s = door THEN [Plain EXCEPT !.group = TRUE, !.holdTime = TRUE, !.bypassAuto = TRUE]
        ELSE [Plain EXCEPT !.group = TRUE, !.useExitDelay = FALSE, !.useEntryDelay = FALSE,
                           !.triggerWhenUnavailable = TRUE]]

\* A door of the mode "away" only, and a smoke detector.
DoorAndSmoke ==
    [s \in Sensors |->
        IF s = door THEN [Plain EXCEPT !.modes = Modes \ {home}, !.entryOverride = "zero"]
        ELSE [Plain EXCEPT !.modes = {}, !.alwaysOn = TRUE]]

\* Delays, one re-trigger cycle, disarm and auto-rearm afterwards.
DisarmingZone ==
    [exitDelay |-> Modes, entryDelay |-> Modes, preAlarm |-> {},
     maxRetriggerCycles |-> 1, postTrigger |-> "disarm", centralLoss |-> "alert",
     autoRearm |-> TRUE, blockers |-> {"open"}]

\* Delays, a pre-alarm, one re-trigger cycle, back to armed afterwards.
ReturningZone ==
    [DisarmingZone EXCEPT !.preAlarm = Modes, !.postTrigger = "return_to_armed",
                          !.autoRearm = FALSE, !.centralLoss = "trigger",
                          !.blockers = {"open", "unreachable", "low_battery"}]

\* As DisarmingZone, and nothing in an unknown condition is armed unnoticed.
StrictZone ==
    [DisarmingZone EXCEPT !.blockers = {"open", "unreachable", "low_battery"}]

=============================================================================
