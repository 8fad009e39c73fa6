---------------------------- MODULE MCClaims ----------------------------
\* The instances of MCAlarmZone for module AlarmClaims.
EXTENDS MCAlarmZone, AlarmClaims

=============================================================================
