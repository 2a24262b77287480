------------------------------- MODULE MCUpdate -------------------------------
EXTENDS Update

\* The wrapper, __init__.py and a module that only release 2 brings.
PackageFiles == [v \in 1..3 |-> IF v = 2 THEN 1..3 ELSE 1..2]
NoRelease == -1
===============================================================================
