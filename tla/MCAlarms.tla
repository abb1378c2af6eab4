------------------------------ MODULE MCAlarms ------------------------------
EXTENDS Alarms, TLC

============================================================================
