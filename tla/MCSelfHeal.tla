------------------------------ MODULE MCSelfHeal ------------------------------
EXTENDS SelfHeal
=============================================================================
