------------------------------ MODULE MCNucleus ------------------------------
(***************************************************************************)
(* Instances of Nucleus for TLC.  Pcbs are interchangeable: the allocator  *)
(* takes any free one and no property names one.  So are the semaphores of *)
(* programs.                                                               *)
(***************************************************************************)
EXTENDS Nucleus

Symmetry == Permutations(Pcb) \cup Permutations(UserSem)
==============================================================================
