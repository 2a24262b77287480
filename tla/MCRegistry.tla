------------------------------ MODULE MCRegistry ------------------------------
EXTENDS Registry, TLC

CONSTANTS d1, d2, n1, n2
FirstNames == d1 :> n1 @@ d2 :> n2
===============================================================================
