---------------------------- MODULE MCMaintenance ----------------------------
EXTENDS Maintenance

CONSTANTS c1, j1
================================================================================
