---------------------------- MODULE MCHostWorkers ----------------------------
EXTENDS HostWorkers

CONSTANTS c1, c2

===============================================================================
