------------------------------ MODULE MCCloudSync -----------------------------
EXTENDS CloudSync
CONSTANTS o1, p1
===============================================================================
