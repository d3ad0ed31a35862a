----------------------------- MODULE MCPosTablet ------------------------------
EXTENDS PosTablet
CONSTANTS s1, s2
===============================================================================
