------------------------------ MODULE MCSessions ------------------------------
EXTENDS Sessions
CONSTANTS anna, ben
===============================================================================
