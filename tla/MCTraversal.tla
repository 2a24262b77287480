------------------------------ MODULE MCTraversal ------------------------------
EXTENDS Traversal, TLC
===============================================================================
