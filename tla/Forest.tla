------------------------------- MODULE Forest -------------------------------
(***************************************************************************)
(* What the nucleus is promised of the process tree: each process has a    *)
(* parent or none, and its children in the order they were inserted.       *)
(***************************************************************************)
EXTENDS ProcQ

CONSTANTS Pcb, NULL

VARIABLES p_prnt, children, result
vars == <<p_prnt, children, result>>

Init ==
  /\ p_prnt   = [p \in Pcb |-> NULL]
  /\ children = [p \in Pcb |-> <<>>]
  /\ result   = NULL

\* S contains its members' children: so does the set of p and its progeny.
Closed(S) == \A p \in S : ToSet(children[p]) \subseteq S

\* prnt does not descend from p.
Insert(prnt, p) ==
  /\ p_prnt[p] = NULL
  /\ p_prnt'   = [p_prnt EXCEPT ![p] = prnt]
  /\ children' = [children EXCEPT ![prnt] = Append(@, p)]
  /\ \E S \in SUBSET Pcb : p \in S /\ prnt \notin S /\ Closed(S)
  /\ UNCHANGED result

TakeFirst(prnt) ==
  \/ children[prnt] = <<>> /\ result' = NULL /\ UNCHANGED <<p_prnt, children>>
  \/ /\ children[prnt] # <<>>
     /\ result'   = Head(children[prnt])
     /\ p_prnt'   = [p_prnt EXCEPT ![result'] = NULL]
     /\ children' = [children EXCEPT ![prnt] = Tail(@)]

TakeOut(p) ==
  \/ p_prnt[p] = NULL /\ result' = NULL /\ UNCHANGED <<p_prnt, children>>
  \/ /\ p_prnt[p] # NULL
     /\ result'   = p
     /\ p_prnt'   = [p_prnt EXCEPT ![p] = NULL]
     /\ children' = [children EXCEPT ![p_prnt[p]] = Without(@, p)]

Next ==
  \E p \in Pcb : \/ TakeFirst(p) \/ TakeOut(p)
                 \/ \E prnt \in Pcb : Insert(prnt, p)

Spec == Init /\ [][Next]_vars
==============================================================================
