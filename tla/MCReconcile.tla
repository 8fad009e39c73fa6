---------------------------- MODULE MCReconcile ----------------------------
\* The instances of MCAlarmZone for module AlarmReconcile.
EXTENDS MCAlarmZone, AlarmReconcile

=============================================================================
