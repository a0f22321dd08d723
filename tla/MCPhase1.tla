------------------------------ MODULE MCPhase1 ------------------------------
(***************************************************************************)
(* PcbList and instances of ProcTree and Asl for TLC.  They share no field *)
(* that one of them writes while another uses it, and none calls another,  *)
(* so a run explores each of them, chosen at the start as `part', while    *)
(* the others stay as they were initialised.                               *)
(***************************************************************************)
EXTENDS PcbList

CONSTANTS TreePcb, AslPcb, MaxAdd

ASSUME TreePcbAssumption == IsFiniteSet(TreePcb) /\ NULL \notin TreePcb
ASSUME AslPcbAssumption ==
  IsFiniteSet(AslPcb) /\ AslPcb # {} /\ NULL \notin AslPcb /\ MaxAdd \in Nat

VARIABLES
  part,
  p_prnt, p_child, p_next_sib, p_prev_sib, treeResult,
  semd_h, semdFree_h, s_next, s_semAdd, s_procQ, p_semAdd, aslResult

treeVars == <<p_prnt, p_child, p_next_sib, p_prev_sib, treeResult>>
aslVars  == <<semd_h, semdFree_h, s_next, s_semAdd, s_procQ, p_semAdd, aslResult>>

Tree == INSTANCE ProcTree WITH Pcb <- TreePcb, result <- treeResult
Asl  == INSTANCE Asl      WITH Pcb <- AslPcb, result <- aslResult

Phase1Init == Init /\ Tree!Init /\ Asl!Init /\ part \in {"list", "tree", "asl"}

Phase1Next ==
  \/ part = "list" /\ Next      /\ UNCHANGED <<part, treeVars, aslVars>>
  \/ part = "tree" /\ Tree!Next /\ UNCHANGED <<part, vars, aslVars>>
  \/ part = "asl"  /\ Asl!Next  /\ UNCHANGED <<part, vars, treeVars>>

Phase1Spec == Phase1Init /\ [][Phase1Next]_<<part, vars, treeVars, aslVars>>

\* The pcbs of Asl are interchangeable, its descriptors are not pcbs; and so
\* are the queues of PcbList, but not its pcbs: the table has an order.
Symmetry == Permutations(AslPcb) \cup Permutations(Queue)

\* See ProcTree and Asl.
SiblingsLinked     == Tree!SiblingsLinked
ImplementsForest   == Tree!ImplementsForest
AslSorted          == Asl!AslSorted
ImplementsBlockedQ == Asl!ImplementsBlockedQ
==============================================================================
