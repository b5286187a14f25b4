-------------------------------- MODULE MCAlarm --------------------------------
\* Alarm on a few seconds; the constants are given by the .cfg files.
EXTENDS Alarm
=============================================================================
