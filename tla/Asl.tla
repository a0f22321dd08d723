--------------------------------- MODULE Asl ---------------------------------
(***************************************************************************)
(* The active semaphore list of src/src/asl.c as it is in memory: the      *)
(* descriptors of semdTable are on one of two lists through s_next, the    *)
(* ASL (from semd_h, by ascending address of the semaphore) or the free    *)
(* ones (from semdFree_h).  An address is a number.  The queues s_procQ    *)
(* are sequences here, with the operators of ProcQ, which module PcbList   *)
(* shows pcb.c to compute.                                                 *)
(***************************************************************************)
EXTENDS Links, ProcQ

CONSTANTS
  Pcb,     \* pcb_table
  MaxAdd   \* bound: the highest address of a semaphore

NULL == 0

TableSize == Cardinality(Pcb)   \* MAXPROC, of pcbs and of descriptors
Semd      == 1 .. TableSize   \* semdTable
Add       == 1 .. MaxAdd

VARIABLES
  semd_h, semdFree_h,         \* the first descriptor of each list
  s_next, s_semAdd, s_procQ,  \* the fields of each descriptor
  p_semAdd,                   \* the semaphore each pcb was last blocked on
  result                      \* what the last function returned

list == <<semd_h, semdFree_h, s_next, s_semAdd>>
vars == <<semd_h, semdFree_h, s_next, s_semAdd, s_procQ, p_semAdd, result>>

\* The descriptors met from d along s_next.
From(d) == Walk(s_next, d, NULL)

ASL == From(semd_h)

\* findSemd stops at the first address that is not lower, or at the end.
findSemd(a) ==
  IF semd_h = NULL
    THEN NULL
    ELSE LET stop == SelectInSeq(ASL, LAMBDA d : s_semAdd[d] >= a \/ s_next[d] = NULL)
             i    == ASL[stop]
         IN  IF s_semAdd[i] = a THEN i ELSE NULL

\* initASL
Init ==
  /\ semd_h     = NULL
  /\ semdFree_h = 1
  /\ s_next     = [d \in Semd |-> IF d = TableSize THEN NULL ELSE d + 1]
  /\ s_semAdd   = [d \in Semd |-> NULL]
  /\ s_procQ    = [d \in Semd |-> mkEmptyProcQ]
  /\ p_semAdd   = [p \in Pcb |-> NULL]
  /\ result     = NULL

(***************************************************************************)
(* freeSemd: descriptor d leaves the ASL for the head of the free list.    *)
(***************************************************************************)
freeSemd_NotReturned(d) ==
  /\ IF semd_h = d
       THEN semd_h' = s_next[d] /\ UNCHANGED s_next
       ELSE LET before == CHOOSE i \in ToSet(ASL) : s_next[i] = d IN
            /\ s_next' = [s_next EXCEPT ![before] = s_next[d]]
            /\ UNCHANGED semd_h
  /\ UNCHANGED <<semdFree_h, s_semAdd>>

freeSemd(d) ==
  /\ semdFree_h' = d
  /\ IF semd_h = d
       THEN /\ semd_h' = s_next[d]
            /\ s_next' = [s_next EXCEPT ![d] = semdFree_h]
       ELSE LET before == CHOOSE i \in ToSet(ASL) : s_next[i] = d IN
            /\ s_next' = [s_next EXCEPT ![before] = s_next[d], ![d] = semdFree_h]
            /\ UNCHANGED semd_h
  /\ UNCHANGED s_semAdd

\* The end of removeBlocked and outBlocked: the queue of d is q now.
ReleaseIfEmpty(d, q) ==
  /\ s_procQ' = [s_procQ EXCEPT ![d] = q]
  /\ IF emptyProcQ(q) THEN freeSemd(d) ELSE UNCHANGED list

(***************************************************************************)
(* allocFree: the first free descriptor goes to its place in the ASL, with *)
(* p alone in its queue.                                                   *)
(***************************************************************************)
\* The descriptor the new one is put behind: the last one before a higher
\* address.  The head of the list has a case of its own.
Before_AfterNext(a) ==
  LET higher == SelectInSeq(Tail(ASL), LAMBDA d : s_semAdd[d] >= a)
  IN  IF higher = 0 THEN Last(ASL) ELSE ASL[higher + 1]

Before(a) ==
  LET higher == SelectInSeq(Tail(ASL), LAMBDA d : s_semAdd[d] >= a)
  IN  IF higher = 0 THEN Last(ASL) ELSE ASL[higher]

allocFree(a, p) ==
  LET alloc == semdFree_h
      next  == [s_next EXCEPT ![alloc] = NULL]
  IN  /\ semdFree_h' = s_next[alloc]
      /\ s_semAdd'   = [s_semAdd EXCEPT ![alloc] = a]
      /\ IF semd_h = NULL \/ a < s_semAdd[semd_h]
           THEN /\ s_next' = [next EXCEPT ![alloc] = semd_h]
                /\ semd_h' = alloc
           ELSE /\ s_next' = [next EXCEPT ![alloc] = s_next[Before(a)],
                                          ![Before(a)] = alloc]
                /\ UNCHANGED semd_h
      /\ s_procQ' = [s_procQ EXCEPT ![alloc] = insertProcQ(mkEmptyProcQ, p)]

(***************************************************************************)
(* The functions the nucleus calls.  A process that is in no queue can be  *)
(* inserted; any can be taken out.  TRUE is 1, as in C.                    *)
(***************************************************************************)
insertBlocked(a, p) ==
  /\ \A d \in ToSet(ASL) : p \notin ToSet(s_procQ[d])
  /\ \/ /\ findSemd(a) = NULL /\ semdFree_h = NULL
        /\ result' = 1
        /\ UNCHANGED <<list, s_procQ, p_semAdd>>
     \/ /\ result' = 0
        /\ p_semAdd' = [p_semAdd EXCEPT ![p] = a]
        /\ \/ /\ findSemd(a) = NULL /\ semdFree_h # NULL
              /\ allocFree(a, p)
           \/ /\ findSemd(a) # NULL
              /\ s_procQ' = [s_procQ EXCEPT ![findSemd(a)] = insertProcQ(@, p)]
              /\ UNCHANGED list

removeBlocked(a) ==
  LET i == findSemd(a) IN
    /\ IF i = NULL
         THEN result' = NULL /\ UNCHANGED <<list, s_procQ>>
         ELSE /\ result' = headProcQ(s_procQ[i])
              /\ ReleaseIfEmpty(i, removeProcQ(s_procQ[i]))
    /\ UNCHANGED p_semAdd

outBlocked(p) ==
  LET i == findSemd(p_semAdd[p]) IN
    /\ IF i = NULL
         THEN result' = NULL /\ UNCHANGED <<list, s_procQ>>
         ELSE /\ result' = IF p \in ToSet(s_procQ[i]) THEN p ELSE NULL
              /\ ReleaseIfEmpty(i, outProcQ(s_procQ[i], p))
    /\ UNCHANGED p_semAdd

headBlocked(a) ==
  LET i == findSemd(a) IN
    /\ result' = IF i = NULL THEN NULL ELSE headProcQ(s_procQ[i])
    /\ UNCHANGED <<list, s_procQ, p_semAdd>>

\* allocPcb and verhogen reset p_semAdd, interrupts leave it.
Reset(p) ==
  /\ \A d \in ToSet(ASL) : p \notin ToSet(s_procQ[d])
  /\ p_semAdd' = [p_semAdd EXCEPT ![p] = NULL]
  /\ UNCHANGED <<list, s_procQ, result>>

Next ==
  \/ \E a \in Add : removeBlocked(a) \/ headBlocked(a)
                      \/ \E p \in Pcb : insertBlocked(a, p)
  \/ \E p \in Pcb : outBlocked(p) \/ Reset(p)

Spec == Init /\ [][Next]_vars

------------------------------------------------------------------------------
(***************************************************************************)
(* The addresses on the ASL ascend, which findSemd relies on when it gives *)
(* up at the first higher one; every descriptor is on exactly one list,    *)
(* and those on the ASL have a process waiting.                            *)
(***************************************************************************)
AslSorted ==
  /\ \A i, j \in DOMAIN ASL : i < j => s_semAdd[ASL[i]] < s_semAdd[ASL[j]]
  /\ Len(ASL) + Len(From(semdFree_h)) = TableSize
  /\ ToSet(ASL) \cup ToSet(From(semdFree_h)) = Semd
  /\ \A d \in ToSet(ASL) : ~emptyProcQ(s_procQ[d])

(***************************************************************************)
(* The functions of asl.c compute what BlockedQ says, returned value       *)
(* included: a descriptor's place in the list, its reuse for another       *)
(* semaphore and the addresses woken processes keep show nowhere.          *)
(***************************************************************************)
BlockedOn ==
  LET on == ToSet(ASL) IN
  [a \in Add |-> LET active == {d \in on : s_semAdd[d] = a} IN
                IF active = {} THEN mkEmptyProcQ
                ELSE s_procQ[CHOOSE d \in active : TRUE]]

Queues == INSTANCE BlockedQ WITH MaxActive <- TableSize, procQ <- BlockedOn

ImplementsBlockedQ == Queues!Spec
==============================================================================
