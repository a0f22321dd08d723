------------------------------- MODULE PcbList -------------------------------
(***************************************************************************)
(* The lists of src/src/pcb.c as they are in memory.  The free list and    *)
(* the queues thread the same two fields of a pcb, and a pcb taken out of  *)
(* a list may keep its old links.  A queue is the pointer tp to its newest *)
(* element, NULL if it is empty; p_next leads from an element to the next  *)
(* older one, from the oldest back to the newest; p_prev the other way.    *)
(***************************************************************************)
EXTENDS Links, SequencesExt

CONSTANTS MAXPROC, Queue

ASSUME TableAssumption == MAXPROC \in Nat \ {0}

NULL == 0
Pcb  == 1 .. MAXPROC      \* pcb_table

VARIABLES
  pcbfree_h,      \* the first free pcb
  tp,             \* the queues
  p_next, p_prev, \* the links of each pcb
  held,           \* the pcbs a caller has: allocated and in no queue
  result          \* what the last function returned

vars == <<pcbfree_h, tp, p_next, p_prev, held, result>>

\* The loops of insertPCBList and outProcQ, and a queue in the order of its age.
FreeList  == Walk(p_next, pcbfree_h, NULL)
Ring(t)   == IF t = NULL THEN <<>> ELSE Walk(p_prev, p_prev[t], t)
Search(t) == IF t = NULL THEN {} ELSE ToSet(Walk(p_next, p_next[t], t))

\* initPcbs: insertPCBList for each entry of the table in turn.
Init ==
  /\ pcbfree_h = 1
  /\ tp     = [q \in Queue |-> NULL]
  /\ p_next = [p \in Pcb |-> IF p = MAXPROC THEN NULL ELSE p + 1]
  /\ p_prev = [p \in Pcb |-> NULL]
  /\ held   = {}
  /\ result = NULL

\* allocPcb
allocPcb_SameHead ==
  /\ pcbfree_h # NULL
  /\ result'    = pcbfree_h
  /\ p_next'    = [p_next EXCEPT ![pcbfree_h] = NULL]
  /\ p_prev'    = [p_prev EXCEPT ![pcbfree_h] = NULL]
  /\ held'      = held \cup {pcbfree_h}
  /\ UNCHANGED <<pcbfree_h, tp>>

allocPcb ==
  \/ pcbfree_h = NULL /\ result' = NULL
     /\ UNCHANGED <<pcbfree_h, tp, p_next, p_prev, held>>
  \/ /\ pcbfree_h # NULL
     /\ result'    = pcbfree_h
     /\ pcbfree_h' = p_next[pcbfree_h]
     /\ p_next'    = [p_next EXCEPT ![pcbfree_h] = NULL]
     /\ p_prev'    = [p_prev EXCEPT ![pcbfree_h] = NULL]
     /\ held'      = held \cup {pcbfree_h}
     /\ UNCHANGED tp

\* freePcb: the links are cleared and insertPCBList goes to the list's end.
freePcb(p) ==
  /\ p \in held
  /\ held'   = held \ {p}
  /\ p_prev' = [p_prev EXCEPT ![p] = NULL]
  /\ IF pcbfree_h = NULL
       THEN pcbfree_h' = p /\ p_next' = [p_next EXCEPT ![p] = NULL]
       ELSE /\ p_next' = [p_next EXCEPT ![Last(FreeList)] = p, ![p] = NULL]
            /\ UNCHANGED pcbfree_h
  /\ UNCHANGED <<tp, result>>

\* insertProcQ(&tp[q], p)
insertProcQ(q, p) ==
  /\ p \in held
  /\ held' = held \ {p}
  /\ tp'   = [tp EXCEPT ![q] = p]
  /\ IF tp[q] = NULL
       THEN /\ p_next' = [p_next EXCEPT ![p] = p]
            /\ p_prev' = [p_prev EXCEPT ![p] = p]
       ELSE LET last == p_prev[tp[q]] IN
            /\ p_next' = [p_next EXCEPT ![p] = tp[q], ![last] = p]
            /\ p_prev' = [p_prev EXCEPT ![p] = last, ![tp[q]] = p]
  /\ UNCHANGED <<pcbfree_h, result>>

\* removeProcQ(&tp[q]).  The pcb it returns keeps its links.
removeProcQ_Newest(q) ==
  /\ tp[q] # NULL
  /\ result' = tp[q]
  /\ held'   = held \cup {tp[q]}
  /\ IF p_next[tp[q]] = tp[q]
       THEN tp' = [tp EXCEPT ![q] = NULL] /\ UNCHANGED <<p_next, p_prev>>
       ELSE /\ tp' = [tp EXCEPT ![q] = p_next[tp[q]]]
            /\ p_next' = [p_next EXCEPT ![p_prev[tp[q]]] = p_next[tp[q]]]
            /\ p_prev' = [p_prev EXCEPT ![p_next[tp[q]]] = p_prev[tp[q]]]
  /\ UNCHANGED pcbfree_h

removeProcQ(q) ==
  \/ /\ tp[q] = NULL
     /\ result' = NULL
     /\ UNCHANGED <<pcbfree_h, tp, p_next, p_prev, held>>
  \/ /\ tp[q] # NULL
     /\ IF p_next[tp[q]] = tp[q]
          THEN /\ result' = tp[q]
               /\ tp' = [tp EXCEPT ![q] = NULL]
               /\ UNCHANGED <<p_next, p_prev>>
          ELSE LET curr == p_prev[tp[q]]
                   prev_1 == p_prev[curr] IN
               /\ result' = curr
               /\ p_next' = [p_next EXCEPT ![prev_1] = tp[q]]
               /\ p_prev' = [p_prev EXCEPT ![tp[q]] = prev_1]
               /\ UNCHANGED tp
     /\ held' = held \cup {result'}
     /\ UNCHANGED pcbfree_h

\* The neighbours of p are linked to each other.
Unlink(p, next, prev) ==
  /\ p_next' = [next EXCEPT ![p_prev[p]] = p_next[p]]
  /\ p_prev' = [prev EXCEPT ![p_next[p]] = p_prev[p]]

\* outProcQ(&tp[q], p), by the place of p in the queue.
outProcQ_Only(q, p) ==
  /\ tp[q] = p /\ p_next[p] = p
  /\ tp' = [tp EXCEPT ![q] = NULL]
  /\ UNCHANGED <<p_next, p_prev>>

outProcQ_Newest(q, p) ==
  /\ tp[q] = p /\ p_next[p] # p
  /\ Unlink(p, p_next, p_prev)
  /\ tp' = [tp EXCEPT ![q] = p_prev[p]]

outProcQ_Older_OneWay(q, p) ==
  /\ tp[q] \notin {NULL, p}
  /\ p \in Search(tp[q])
  /\ p_next' = [p_next EXCEPT ![p_prev[p]] = p_next[p], ![p] = NULL]
  /\ p_prev' = [p_prev EXCEPT ![p] = NULL]
  /\ UNCHANGED tp

outProcQ_Older(q, p) ==
  /\ tp[q] \notin {NULL, p}
  /\ p \in Search(tp[q])
  /\ Unlink(p, [p_next EXCEPT ![p] = NULL], [p_prev EXCEPT ![p] = NULL])
  /\ UNCHANGED tp

outProcQ_Absent(q, p) ==
  /\ tp[q] # p
  /\ p \notin Search(tp[q])
  /\ UNCHANGED <<tp, p_next, p_prev>>

\* Callers pass any pcb in use: outBlocked one that has left the queue since.
outProcQ(q, p) ==
  /\ p \notin ToSet(FreeList)
  /\ \/ /\ outProcQ_Only(q, p) \/ outProcQ_Newest(q, p) \/ outProcQ_Older(q, p)
        /\ result' = p /\ held' = held \cup {p}
     \/ outProcQ_Absent(q, p) /\ result' = NULL /\ UNCHANGED held
  /\ UNCHANGED pcbfree_h

Next ==
  \/ allocPcb
  \/ \E p \in Pcb : freePcb(p)
  \/ \E q \in Queue : removeProcQ(q) \/ \E p \in Pcb : insertProcQ(q, p) \/ outProcQ(q, p)

Spec == Init /\ [][Next]_vars

------------------------------------------------------------------------------
(***************************************************************************)
(* In every queue p_next and p_prev are each other's inverse and lead back *)
(* to tp, so that the search loop of outProcQ, which only stops at tp,     *)
(* stops; and the links a removed pcb keeps lead no queue astray.          *)
(***************************************************************************)
RingsClosed ==
  \A q \in Queue : tp[q] # NULL =>
    /\ Last(Ring(tp[q])) = tp[q]
    /\ \A p \in ToSet(Ring(tp[q])) : p_next[p_prev[p]] = p /\ p_prev[p_next[p]] = p
    /\ Search(tp[q]) = ToSet(Ring(tp[q]))

(***************************************************************************)
(* The free list ends, and every pcb is on it, in one queue, or held.      *)
(***************************************************************************)
PoolComplete ==
  /\ FreeList # <<>> => p_next[Last(FreeList)] = NULL
  /\ Len(FreeList) + Cardinality(held)
       + Cardinality(UNION {ToSet(Ring(tp[q])) : q \in Queue}) = MAXPROC
  /\ \A q, r \in Queue : q # r => ToSet(Ring(tp[q])) \cap ToSet(Ring(tp[r])) = {}
  /\ held \cup ToSet(FreeList) \cup UNION {ToSet(Ring(tp[q])) : q \in Queue} = Pcb

(***************************************************************************)
(* The functions of pcb.c compute what PcbPool and the operators of ProcQ  *)
(* say of sequences, returned value included.                              *)
(***************************************************************************)
Pool == INSTANCE PcbPool WITH
          free  <- FreeList,
          queue <- [q \in Queue |-> Ring(tp[q])]

ImplementsPool == Pool!Spec
==============================================================================
