------------------------------ MODULE BlockedQ ------------------------------
(***************************************************************************)
(* What the nucleus is promised by asl.c: for each semaphore the queue of  *)
(* the processes blocked on it, of which at most MaxActive are not empty.  *)
(* Module Nucleus has its processes blocked in queues like these.          *)
(***************************************************************************)
EXTENDS ProcQ, FiniteSets

CONSTANTS Pcb, Add, MaxActive, NULL

VARIABLES procQ, p_semAdd, result
vars == <<procQ, p_semAdd, result>>

Init ==
  /\ procQ    = [a \in Add |-> mkEmptyProcQ]
  /\ p_semAdd = [p \in Pcb |-> NULL]
  /\ result   = NULL

Queued(p) == \E a \in Add : p \in ToSet(procQ[a])

NoRoom(a) ==
  LET active == {b \in Add : ~emptyProcQ(procQ[b])}
  IN  a \notin active /\ Cardinality(active) = MaxActive

\* The answer is 1, TRUE, if the queue would be one too many.
Block(a, p) ==
  \/ /\ result' = 1
     /\ ~Queued(p) /\ NoRoom(a)
     /\ UNCHANGED <<procQ, p_semAdd>>
  \/ /\ result' = 0
     /\ p_semAdd' = [p_semAdd EXCEPT ![p] = a]
     /\ ~Queued(p) /\ ~NoRoom(a)
     /\ procQ' = [procQ EXCEPT ![a] = insertProcQ(@, p)]

Wake(a) ==
  /\ UNCHANGED p_semAdd
  /\ LET q == procQ[a] IN
       \/ emptyProcQ(q) /\ result' = NULL /\ UNCHANGED procQ
       \/ /\ ~emptyProcQ(q)
          /\ result' = headProcQ(q)
          /\ procQ'  = [procQ EXCEPT ![a] = removeProcQ(q)]

\* p leaves the queue it is in, and is looked for in no other.
Withdraw(p) ==
  /\ UNCHANGED p_semAdd
  /\ \/ result' = NULL /\ ~Queued(p) /\ UNCHANGED procQ
     \/ /\ result' = p
        /\ \E a \in Add :
             /\ p \in ToSet(procQ[a])
             /\ procQ'  = [procQ EXCEPT ![a] = outProcQ(@, p)]

Oldest(a) ==
  /\ UNCHANGED <<procQ, p_semAdd>>
  /\ result' = LET q == procQ[a] IN IF emptyProcQ(q) THEN NULL ELSE headProcQ(q)

\* A process the nucleus takes for new or woken up: p_semAdd is reset.
Reset(p) ==
  /\ p_semAdd' = [p_semAdd EXCEPT ![p] = NULL]
  /\ ~Queued(p)
  /\ UNCHANGED <<procQ, result>>

Next ==
  \/ \E a \in Add : Wake(a) \/ Oldest(a) \/ \E p \in Pcb : Block(a, p)
  \/ \E p \in Pcb : Withdraw(p) \/ Reset(p)

Spec == Init /\ [][Next]_vars
==============================================================================
