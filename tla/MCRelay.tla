------------------------------- MODULE MCRelay -------------------------------
(* Instances of Relay checked by TLC: MCRelay.cfg (safety), LiveRelay.cfg    *)
(* (lifetimes and liveness, without symmetry), and RevokedRelay.cfg (a       *)
(* promise that does not hold).                                              *)
EXTENDS Relay, TLC

\* Sessions and threads are interchangeable, and so are devices: no definition
\* tells one from another, and no liveness property is checked under it.
Symm == Permutations(Devices) \cup Permutations(Sessions) \cup Permutations(Threads)
=============================================================================
