------------------------------- MODULE PcbPool -------------------------------
(***************************************************************************)
(* What the rest of the kernel is promised by the lists of pcb.c: a pool   *)
(* of pcbs handed out in the order they were returned, and queues that     *)
(* behave as the operators of ProcQ say.  `held' are the pcbs a caller has *)
(* in hand: allocated, and in no queue.                                    *)
(***************************************************************************)
EXTENDS ProcQ

CONSTANTS Pcb, Queue, NULL

VARIABLES free, queue, held, result
vars == <<free, queue, held, result>>

Init ==
  /\ free \in SetToSeqs(Pcb)
  /\ queue  = [q \in Queue |-> mkEmptyProcQ]
  /\ held   = {}
  /\ result = NULL

Alloc ==
  \/ free = <<>> /\ result' = NULL /\ UNCHANGED <<free, queue, held>>
  \/ /\ free # <<>>
     /\ result' = Head(free)
     /\ free'   = Tail(free)
     /\ held'   = held \cup {Head(free)}
     /\ UNCHANGED queue

Free(p) ==
  /\ p \in held
  /\ free' = Append(free, p)
  /\ held' = held \ {p}
  /\ UNCHANGED <<queue, result>>

Enqueue(q, p) ==
  /\ p \in held
  /\ queue' = [queue EXCEPT ![q] = insertProcQ(@, p)]
  /\ held'  = held \ {p}
  /\ UNCHANGED <<free, result>>

Dequeue(q) ==
  \/ emptyProcQ(queue[q]) /\ result' = NULL /\ UNCHANGED <<free, queue, held>>
  \/ /\ ~emptyProcQ(queue[q])
     /\ result' = headProcQ(queue[q])
     /\ queue'  = [queue EXCEPT ![q] = removeProcQ(@)]
     /\ held'   = held \cup {headProcQ(queue[q])}
     /\ UNCHANGED free

\* p may be in this queue, in another one or in none.
Withdraw(q, p) ==
  /\ p \notin ToSet(free)
  /\ queue' = [queue EXCEPT ![q] = outProcQ(@, p)]
  /\ IF p \in ToSet(queue[q])
       THEN result' = p /\ held' = held \cup {p}
       ELSE result' = NULL /\ UNCHANGED held
  /\ UNCHANGED free

Next ==
  \/ Alloc
  \/ \E p \in Pcb : Free(p)
  \/ \E q \in Queue : Dequeue(q) \/ \E p \in Pcb : Enqueue(q, p) \/ Withdraw(q, p)

Spec == Init /\ [][Next]_vars
==============================================================================
