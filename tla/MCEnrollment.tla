----------------------------- MODULE MCEnrollment -----------------------------
(* Instances of Enrollment checked by TLC: MCEnrollment.cfg (safety) and     *)
(* LiveEnrollment.cfg (liveness, without symmetry).                          *)
EXTENDS Enrollment, TLC

\* Invites, names and threads are interchangeable: no definition tells one from
\* another, and no liveness property is checked under the symmetry.
Symm == Permutations(Invites) \cup Permutations(Names) \cup Permutations(Handlers)
=============================================================================
