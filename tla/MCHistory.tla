---------------------------- MODULE MCHistory ----------------------------
\* The instances of MCAlarmZone for module AlarmHistory.
EXTENDS MCAlarmZone, AlarmHistory

=============================================================================
