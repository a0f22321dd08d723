------------------------------ MODULE ProcTree ------------------------------
(***************************************************************************)
(* The process tree of src/src/pcb.c as it is in memory: a pcb points to   *)
(* its parent, its first child and its next and previous sibling.  A pcb   *)
(* comes from allocPcb and goes to freePcb, which clear all four; a caller *)
(* does either only while it is in no tree and has no child.               *)
(***************************************************************************)
EXTENDS Links, ProcQ

CONSTANT Pcb   \* pcb_table

NULL == 0

VARIABLES
  p_prnt, p_child, p_next_sib, p_prev_sib,  \* the links of each pcb
  result                                    \* what the last function returned

links == <<p_prnt, p_child, p_next_sib, p_prev_sib>>
vars  == <<p_prnt, p_child, p_next_sib, p_prev_sib, result>>

Init ==
  /\ p_prnt     = [p \in Pcb |-> NULL]
  /\ p_child    = [p \in Pcb |-> NULL]
  /\ p_next_sib = [p \in Pcb |-> NULL]
  /\ p_prev_sib = [p \in Pcb |-> NULL]
  /\ result     = NULL

emptyChild(p) == p_child[p] = NULL

\* The siblings met from p along p_next_sib, where insertChild's loop goes.
Siblings(p) == Walk(p_next_sib, p, NULL)

\* Callers make no pcb its own ancestor: createProcess inserts a new one.
Descends(p, q) ==
  LET above[i \in 0 .. Cardinality(Pcb)] ==
        IF i = 0 THEN p ELSE IF above[i-1] = NULL THEN NULL ELSE p_prnt[above[i-1]]
  IN  \E i \in DOMAIN above : above[i] = q

(***************************************************************************)
(* insertChild.  A first child keeps the sibling links it has.             *)
(***************************************************************************)
insertChild_OneWay(prnt, p) ==
  /\ p_prnt[p] = NULL /\ ~Descends(prnt, p)
  /\ p_prnt' = [p_prnt EXCEPT ![p] = prnt]
  /\ IF emptyChild(prnt)
       THEN /\ p_child' = [p_child EXCEPT ![prnt] = p]
            /\ UNCHANGED p_next_sib
       ELSE /\ p_next_sib' = [p_next_sib EXCEPT ![Last(Siblings(p_child[prnt]))] = p,
                                                ![p] = NULL]
            /\ UNCHANGED p_child
  /\ UNCHANGED <<p_prev_sib, result>>

insertChild(prnt, p) ==
  /\ p_prnt[p] = NULL /\ ~Descends(prnt, p)
  /\ p_prnt' = [p_prnt EXCEPT ![p] = prnt]
  /\ IF emptyChild(prnt)
       THEN /\ p_child' = [p_child EXCEPT ![prnt] = p]
            /\ UNCHANGED <<p_next_sib, p_prev_sib>>
       ELSE LET last == Last(Siblings(p_child[prnt])) IN
            /\ p_next_sib' = [p_next_sib EXCEPT ![last] = p, ![p] = NULL]
            /\ p_prev_sib' = [p_prev_sib EXCEPT ![p] = last]
            /\ UNCHANGED p_child
  /\ UNCHANGED result

(***************************************************************************)
(* removeChild takes the first child, which leaves its p_prev_sib and, if  *)
(* it is the only one, its p_next_sib as they are.                         *)
(***************************************************************************)
removeChild(p) ==
  LET curr == p_child[p] IN
  \/ emptyChild(p) /\ result' = NULL /\ UNCHANGED links
  \/ /\ ~emptyChild(p)
     /\ result'  = curr
     /\ p_prnt'  = [p_prnt EXCEPT ![curr] = NULL]
     /\ p_child' = [p_child EXCEPT ![p] = p_next_sib[curr]]
     /\ IF p_next_sib[curr] = NULL
          THEN UNCHANGED <<p_next_sib, p_prev_sib>>
          ELSE /\ p_next_sib' = [p_next_sib EXCEPT ![curr] = NULL]
               /\ p_prev_sib' = [p_prev_sib EXCEPT ![p_next_sib[curr]] = NULL]

(***************************************************************************)
(* outChild, by the place of p among its siblings.                         *)
(***************************************************************************)
outChild_First(p) == p_child[p_prnt[p]] = p /\ removeChild(p_prnt[p])

outChild_Last(p) ==
  /\ p_child[p_prnt[p]] # p /\ p_next_sib[p] = NULL
  /\ p_next_sib' = [p_next_sib EXCEPT ![p_prev_sib[p]] = NULL]
  /\ p_prev_sib' = [p_prev_sib EXCEPT ![p] = NULL]
  /\ p_prnt'     = [p_prnt EXCEPT ![p] = NULL]
  /\ result'     = p
  /\ UNCHANGED p_child

outChild_Middle_CutsRest(p) ==
  /\ p_child[p_prnt[p]] # p /\ p_next_sib[p] # NULL
  /\ p_next_sib' = [p_next_sib EXCEPT ![p_prev_sib[p]] = NULL, ![p] = NULL]
  /\ p_prev_sib' = [p_prev_sib EXCEPT ![p_next_sib[p]] = p_prev_sib[p], ![p] = NULL]
  /\ p_prnt'     = [p_prnt EXCEPT ![p] = NULL]
  /\ result'     = p
  /\ UNCHANGED p_child

outChild_Middle(p) ==
  /\ p_child[p_prnt[p]] # p /\ p_next_sib[p] # NULL
  /\ p_next_sib' = [p_next_sib EXCEPT ![p_prev_sib[p]] = p_next_sib[p], ![p] = NULL]
  /\ p_prev_sib' = [p_prev_sib EXCEPT ![p_next_sib[p]] = p_prev_sib[p], ![p] = NULL]
  /\ p_prnt'     = [p_prnt EXCEPT ![p] = NULL]
  /\ result'     = p
  /\ UNCHANGED p_child

outChild(p) ==
  \/ p_prnt[p] = NULL /\ result' = NULL /\ UNCHANGED links
  \/ /\ p_prnt[p] # NULL
     /\ outChild_First(p) \/ outChild_Last(p) \/ outChild_Middle(p)

Next ==
  \E p \in Pcb : \/ removeChild(p) \/ outChild(p)
                 \/ \E prnt \in Pcb : insertChild(prnt, p)

Spec == Init /\ [][Next]_vars

------------------------------------------------------------------------------
(***************************************************************************)
(* The next and previous sibling of each pcb agree, siblings have the same *)
(* parent, the first one and only it has no previous one; and a pcb        *)
(* without a parent has no sibling links left, on which insertChild relies *)
(* when it makes it a first child.                                         *)
(***************************************************************************)
SiblingsLinked ==
  \A p \in Pcb :
    /\ p_next_sib[p] # NULL =>
         p_prev_sib[p_next_sib[p]] = p /\ p_prnt[p_next_sib[p]] = p_prnt[p]
    /\ p_prev_sib[p] # NULL => p_next_sib[p_prev_sib[p]] = p
    /\ p_prnt[p] # NULL => (p_prev_sib[p] = NULL <=> p_child[p_prnt[p]] = p)
    /\ p_prnt[p] = NULL => p_next_sib[p] = NULL /\ p_prev_sib[p] = NULL
    /\ ~emptyChild(p) => p_prnt[p_child[p]] = p

(***************************************************************************)
(* The functions of the tree compute what Forest says of sequences of      *)
(* children, which is how module Nucleus has them.                         *)
(***************************************************************************)
Abstract ==
  INSTANCE Forest WITH
    children <- [p \in Pcb |-> IF emptyChild(p) THEN <<>> ELSE Siblings(p_child[p])]

ImplementsForest == Abstract!Spec
==============================================================================
