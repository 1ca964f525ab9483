------------------------------ MODULE MCGasClock ------------------------------
EXTENDS GasClock
MCConfigs ==
  {[scaling |-> 1, min |-> 1, static |-> FALSE], [scaling |-> 5, min |-> 2, static |-> FALSE],
   [scaling |-> 1, min |-> 3, static |-> TRUE]}
=============================================================================
