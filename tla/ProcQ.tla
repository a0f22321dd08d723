-------------------------------- MODULE ProcQ --------------------------------
(***************************************************************************)
(* The process queues of the nucleus (src/src/pcb.c), as the rest of the   *)
(* kernel sees them.  In memory a queue is a circular, doubly linked list  *)
(* reached through a pointer tp to its newest element, whose p_prev is the *)
(* oldest one.  Here a queue is the sequence of its elements, oldest       *)
(* first; module PcbList has the pointers and shows that the functions of  *)
(* pcb.c compute these operators.                                          *)
(***************************************************************************)
EXTENDS SequencesExt

\* mkEmptyProcQ, emptyProcQ: tp = NULL.
mkEmptyProcQ == <<>>

emptyProcQ(q) == q = <<>>

\* The new element becomes the newest.
insertProcQ(q, p) == Append(q, p)

\* The oldest element, tp->p_prev.
headProcQ(q) == Head(q)

\* What is left once removeProcQ has taken the oldest element.
removeProcQ(q) == Tail(q)

\* The queue without one element, the others in their order: what a queue
\* function that only unlinks a node leaves behind.
Without(q, p) ==
  IF p \in ToSet(q)
    THEN RemoveAt(q, CHOOSE i \in DOMAIN q : q[i] = p)
    ELSE q

\* outProcQ when p is the newest element: *tp moves to (*tp)->p_prev, the
\* oldest element of the ring, which so becomes the newest.
DropNewest(q) ==
  IF Len(q) = 1
    THEN mkEmptyProcQ
    ELSE LET rest == Front(q) IN insertProcQ(removeProcQ(rest), headProcQ(rest))

\* What outProcQ leaves of the queue.  It returns p if p is in the queue and
\* NULL, the queue untouched, if it is not.
outProcQ(q, p) ==
  IF ~emptyProcQ(q) /\ Last(q) = p THEN DropNewest(q) ELSE Without(q, p)
==============================================================================
