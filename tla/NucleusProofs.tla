---------------------------- MODULE NucleusProofs ----------------------------
(***************************************************************************)
(* The safety properties of the nucleus for every number of pcbs,          *)
(* semaphores and devices.  IInv is the inductive invariant; each of its   *)
(* parts has a lemma with one step per action, and the theorems follow     *)
(* from it at the end.                                                     *)
(***************************************************************************)
EXTENDS Nucleus, ProcQProofs, FiniteSetTheorems

(* The types of the variables; that processCount is at most MAXPROC        *)
(* follows from ProcessCountExact.                                         *)
Types ==
  /\ pcbFree \subseteq Pcb
  /\ p_prnt \in [Pcb -> Pcb \cup {NULL}]
  /\ p_child \in [Pcb -> Seq(Pcb)]
  /\ p_semAdd \in [Pcb -> Sem \cup {NULL}]
  /\ p_supportStruct \in [Pcb -> BOOLEAN]
  /\ readyQueue \in Seq(Pcb)
  /\ currentProcess \in Pcb \cup {NULL}
  /\ processCount \in Int
  /\ softBlockCount \in Int
  /\ semVal \in [Sem -> Int]
  /\ procQ \in [Sem -> Seq(Pcb)]
  /\ busy \subseteq Device
  /\ cpu \in Cpu
  /\ heads \in Seq(Pcb)
  /\ reg_v0 \in {NULL, 0, -1}

(* What the processor executes tells whether there is a current process,   *)
(* a call of sys2Helper, and a ready process.                              *)
CpuOK ==
  /\ cpu \in {"run", "kill", "trap"} => currentProcess # NULL
  /\ cpu \in {"wait", "halt", "panic"} => currentProcess = NULL /\ readyQueue = <<>>
  /\ cpu = "halt" => processCount = 0
  /\ cpu \in {"wait", "panic"} => processCount > 0
  /\ cpu = "kill" <=> heads # <<>>

(* Where each process is.  A process in the queue of a semaphore has it as *)
(* its p_semAdd, so it is in the queue of one semaphore only; and a        *)
(* process whose p_semAdd is a semaphore of programs is in its queue.      *)
Places ==
  /\ IsInjective(readyQueue)
  /\ \A s \in Sem : IsInjective(procQ[s])
  /\ currentProcess \notin pcbFree
  /\ \A p \in ToSet(readyQueue) : p \notin pcbFree /\ p # currentProcess
  /\ \A s \in Sem : \A p \in ToSet(procQ[s]) :
       /\ p_semAdd[p] = s
       /\ p \notin pcbFree /\ p # currentProcess /\ p \notin ToSet(readyQueue)
  /\ \A p \in Live : \/ p = currentProcess \/ p \in ToSet(readyQueue)
                    \/ \E s \in Sem : p \in ToSet(procQ[s])
  /\ \A p \in Live : p_semAdd[p] \in UserSem => p \in ToSet(procQ[p_semAdd[p]])

(* The links of the process tree, and the calls of sys2Helper: the first   *)
(* is for the current process, the others are for processes taken from     *)
(* their parents, and none is free.                                        *)
Tree ==
  /\ \A p, q \in Pcb : q \in ToSet(p_child[p]) <=> p_prnt[q] = p
  /\ \A p \in Pcb : IsInjective(p_child[p])
  /\ \A p \in pcbFree : p_prnt[p] = NULL /\ p_child[p] = <<>>

Calls ==
  /\ heads # <<>> => heads[1] = currentProcess
  /\ \A i \in 1 .. Len(heads) : heads[i] \notin pcbFree
  /\ \A i \in 1 .. Len(heads) : i # 1 => p_prnt[heads[i]] = NULL

(* No cycle in the tree: each process is deeper than its parent and, while *)
(* sys2Helper runs, than the processes of the calls around its own.        *)
Deeper(d) ==
  /\ \A p \in Pcb : p_prnt[p] # NULL => d[p_prnt[p]] < d[p]
  /\ \A i, j \in 1 .. Len(heads) : i < j => d[heads[i]] < d[heads[j]]

Acyclic == \E d \in [Pcb -> Nat] : Deeper(d)

IInv ==
  /\ Types /\ CpuOK /\ Places /\ Tree /\ Calls /\ Acyclic
  /\ ProcessCountExact
  /\ SemaphoreCountsWaiters

------------------------------------------------------------------------------
(***************************************************************************)
(* How a step moves processes.  A is the set of those that are ready or    *)
(* current after it, when the queues have no repetitions and the current   *)
(* process is not ready too.                                               *)
(***************************************************************************)
Moved(A) ==
  /\ readyQueue' \in Seq(Pcb) /\ IsInjective(readyQueue')
  /\ currentProcess' \in Pcb \cup {NULL}
  /\ currentProcess' \notin ToSet(readyQueue')
  /\ \A p \in Pcb : p = currentProcess' \/ p \in ToSet(readyQueue') <=> p \in A
  /\ procQ' \in [Sem -> Seq(Pcb)]
  /\ \A s \in Sem : IsInjective(procQ'[s])

Running == {p \in Pcb : p = currentProcess \/ p \in ToSet(readyQueue)}

(* Places' from the processes of A and those in the queues.                *)
LEMMA PlacesFrom ==
  ASSUME NEW A, Moved(A), pcbFree' \subseteq Pcb,
         \A p \in A : p \notin pcbFree',
         \A s \in Sem : \A p \in ToSet(procQ'[s]) :
           p_semAdd'[p] = s /\ p \notin pcbFree' /\ p \notin A,
         \A p \in Pcb : p \notin pcbFree' =>
           /\ p \in A \/ \E s \in Sem : p \in ToSet(procQ'[s])
           /\ p_semAdd'[p] \in UserSem => p \in ToSet(procQ'[p_semAdd'[p]])
  PROVE  Places'
<1>1. /\ IsInjective(readyQueue') /\ ToSet(readyQueue') \subseteq Pcb
      /\ currentProcess' \in Pcb \cup {NULL}
      /\ currentProcess' \notin ToSet(readyQueue')
      /\ \A s \in Sem : ToSet(procQ'[s]) \subseteq Pcb
  BY SeqFacts DEF Moved
<1>2. \A p \in Pcb : p = currentProcess' \/ p \in ToSet(readyQueue') <=> p \in A
  BY DEF Moved
<1>3. currentProcess' \notin pcbFree'
  BY <1>1, <1>2, PcbAssumption
<1>4. \A p \in ToSet(readyQueue') : p \notin pcbFree' /\ p # currentProcess'
  BY <1>1, <1>2
<1>5. \A s \in Sem : IsInjective(procQ'[s])
  BY DEF Moved
<1>6. \A s \in Sem : \A p \in ToSet(procQ'[s]) :
        /\ p_semAdd'[p] = s
        /\ p \notin pcbFree' /\ p # currentProcess' /\ p \notin ToSet(readyQueue')
  BY <1>1, <1>2
<1>7. \A p \in Live' :
        /\ \/ p = currentProcess' \/ p \in ToSet(readyQueue')
           \/ \E s \in Sem : p \in ToSet(procQ'[s])
        /\ p_semAdd'[p] \in UserSem => p \in ToSet(procQ'[p_semAdd'[p]])
  BY <1>2 DEF Live
<1>. QED  BY <1>1, <1>3, <1>4, <1>5, <1>6, <1>7 DEF Places

(* One process x ends: it leaves its queue or the processor.               *)
LEMMA PlacesLeave ==
  ASSUME Types, Places, NEW x \in Pcb, Moved(Running \ {x}),
         pcbFree' = pcbFree \cup {x}, UNCHANGED p_semAdd,
         \A s \in Sem : ToSet(procQ'[s]) = ToSet(procQ[s]) \ {x}
  PROVE  Places'
<1>1. \A p \in Running \ {x} : p \notin pcbFree'
  BY DEF Places, Running
<1>2. \A s \in Sem : \A p \in ToSet(procQ'[s]) :
        p_semAdd'[p] = s /\ p \notin pcbFree' /\ p \notin Running \ {x}
  BY DEF Places, Running
<1>3. ASSUME NEW p \in Pcb, p \notin pcbFree'
      PROVE  /\ p \in Running \ {x} \/ \E s \in Sem : p \in ToSet(procQ'[s])
             /\ p_semAdd'[p] \in UserSem => p \in ToSet(procQ'[p_semAdd'[p]])
  BY <1>3 DEF Places, Running, Live, Sem
<1>4. pcbFree' \subseteq Pcb
  BY DEF Types
<1> DEFINE A == Running \ {x}
<1> HIDE DEF A
<1>. QED  BY <1>1, <1>2, <1>3, <1>4, PlacesFrom DEF A

(* The processes of W leave the queue of semaphore t and become ready.     *)
(* Only the semaphore of a device may stay in their p_semAdd.              *)
LEMMA PlacesWake ==
  ASSUME Types, Places, NEW t \in Sem, NEW W \in SUBSET ToSet(procQ[t]),
         Moved(Running \cup W), UNCHANGED pcbFree,
         \A s \in Sem : ToSet(procQ'[s]) = IF s = t THEN ToSet(procQ[s]) \ W
                                                  ELSE ToSet(procQ[s]),
         \A p \in Pcb : p_semAdd'[p] = p_semAdd[p] \/ (p \in W /\ p_semAdd'[p] = NULL),
         \A p \in W : p_semAdd'[p] \notin UserSem
  PROVE  Places'
<1>0. \A s \in Sem : ToSet(procQ[s]) \subseteq Pcb
  BY SeqFacts DEF Types
<1>1. \A p \in Running \cup W : p \notin pcbFree'
  BY DEF Places, Running
<1>2. \A s \in Sem : \A p \in ToSet(procQ'[s]) :
        p_semAdd'[p] = s /\ p \notin pcbFree' /\ p \notin Running \cup W
  <2> SUFFICES ASSUME NEW s \in Sem, NEW p \in ToSet(procQ'[s])
               PROVE  p_semAdd'[p] = s /\ p \notin pcbFree' /\ p \notin Running \cup W
    OBVIOUS
  <2>1. p \in ToSet(procQ[s]) /\ p \in Pcb /\ (s = t => p \notin W)
    BY <1>0
  <2>2. p_semAdd[p] = s /\ p \notin pcbFree /\ p \notin Running
    BY <2>1 DEF Places, Running
  <2>3. p \notin W
    BY <2>1, <2>2 DEF Places
  <2>. QED  BY <2>1, <2>2, <2>3
<1>3. ASSUME NEW p \in Pcb, p \notin pcbFree'
      PROVE  /\ p \in Running \cup W \/ \E s \in Sem : p \in ToSet(procQ'[s])
             /\ p_semAdd'[p] \in UserSem => p \in ToSet(procQ'[p_semAdd'[p]])
  <2>1. p \in Running \/ \E s \in Sem : p \in ToSet(procQ[s])
    BY <1>3 DEF Places, Running, Live
  <2>2. p_semAdd[p] \in UserSem => p \in ToSet(procQ[p_semAdd[p]])
    BY <1>3 DEF Places, Live
  <2>3. p_semAdd'[p] \in UserSem => p \notin W /\ p_semAdd'[p] = p_semAdd[p]
    BY SemAssumption DEF Sem
  <2>. QED  BY <2>1, <2>2, <2>3 DEF Sem
<1>. QED  BY <1>1, <1>2, <1>3, PlacesFrom DEF Types

------------------------------------------------------------------------------
(***************************************************************************)
(* The scheduler, and the end of an interrupt handler: the processes in rq *)
(* and the process c that may go on are now ready or current.              *)
(***************************************************************************)
Dispatched(rq, c, n) ==
  /\ readyQueue' \in Seq(Pcb) /\ IsInjective(readyQueue')
  /\ currentProcess' \in Pcb \cup {NULL}
  /\ currentProcess' \notin ToSet(readyQueue')
  /\ ToSet(readyQueue') \cup ({currentProcess'} \ {NULL}) = ToSet(rq) \cup (c \ {NULL})
  /\ cpu' \in {"run", "wait", "halt", "panic", "lost"}
  /\ cpu' = "run" <=> currentProcess' # NULL
  /\ cpu' \in {"wait", "halt", "panic"} => readyQueue' = <<>>
  /\ cpu' = "halt" => n = 0
  /\ cpu' \in {"wait", "panic"} => n > 0
  /\ reg_v0' \in {NULL, 0, -1}

(* What Dispatched says of each process: it is ready or current afterwards if *)
(* it was in rq or c.                                                      *)
LEMMA DispatchedLemma ==
  ASSUME NEW rq, NEW c, NEW n, Dispatched(rq, c, n)
  PROVE  /\ \A p \in Pcb : p = currentProcess' \/ p \in ToSet(readyQueue')
                            <=> p \in ToSet(rq) \/ p \in c
         /\ ToSet(readyQueue') \subseteq Pcb
         /\ currentProcess' \notin ToSet(readyQueue')
         /\ currentProcess' \in Pcb \cup {NULL}
         /\ IsInjective(readyQueue')
<1>1. NULL \notin Pcb /\ ToSet(readyQueue') \subseteq Pcb
  BY PcbAssumption, SeqFacts DEF Dispatched
<1>. QED  BY <1>1 DEF Dispatched

(* The scheduler dispatches the processes of rq, of which no one is current. *)
LEMMA SchedulerLemma ==
  ASSUME NEW rq \in Seq(Pcb), IsInjective(rq), NEW n \in Int, NEW soft \in Int,
         scheduler(rq, n, soft)
  PROVE  Dispatched(rq, {}, n)
<1>1. CASE emptyProcQ(rq)
  <2>1. /\ rq = <<>> /\ ToSet(rq) = {}
        /\ readyQueue' = rq /\ currentProcess' = NULL /\ reg_v0' = NULL
    BY <1>1, SeqFacts DEF scheduler, emptyProcQ
  <2>2. /\ cpu' \in {"wait", "halt", "panic", "lost"}
        /\ cpu' = "halt" => n = 0
        /\ cpu' \in {"wait", "panic"} => n > 0
    BY <1>1 DEF scheduler
  <2>. QED  BY <2>1, <2>2 DEF Dispatched
<1>2. CASE ~emptyProcQ(rq)
  <2>1. /\ currentProcess' = headProcQ(rq) /\ readyQueue' = removeProcQ(rq)
        /\ cpu' = "run" /\ reg_v0' = NULL
    BY <1>2 DEF scheduler
  <2>2. /\ headProcQ(rq) \in Pcb
        /\ removeProcQ(rq) \in Seq(Pcb) /\ IsInjective(removeProcQ(rq))
        /\ headProcQ(rq) \notin ToSet(removeProcQ(rq))
        /\ ToSet(rq) = ToSet(removeProcQ(rq)) \cup {headProcQ(rq)}
    BY <1>2, RemoveLemma
  <2>. QED  BY <2>1, <2>2, PcbAssumption DEF Dispatched
<1>. QED  BY <1>1, <1>2

(* An interrupt handler's end keeps the current process, or dispatches rq. *)
LEMMA LoadLemma ==
  ASSUME Types, CpuOK, Enabled, NEW rq \in Seq(Pcb), IsInjective(rq),
         currentProcess \notin ToSet(rq), NEW soft \in Int,
         LoadOrSchedule(rq, soft)
  PROVE  Dispatched(rq, {currentProcess}, processCount)
<1>1. CASE currentProcess # NULL
  BY <1>1 DEF LoadOrSchedule, Dispatched, Types, CpuOK, Enabled
<1>2. CASE currentProcess = NULL
  <2>1. scheduler(rq, processCount, soft)
    BY <1>2 DEF LoadOrSchedule
  <2>2. Dispatched(rq, {}, processCount)
    BY <2>1, SchedulerLemma DEF Types
  <2>. QED  BY <1>2, <2>2 DEF Dispatched
<1>. QED  BY <1>1, <1>2

------------------------------------------------------------------------------
(***************************************************************************)
(* What a step leaves alone.                                               *)
(***************************************************************************)
LEMMA TreeFrame ==
  ASSUME IInv, UNCHANGED <<pcbVars, processCount>>, heads' = <<>>
  PROVE  Tree' /\ Calls' /\ Acyclic' /\ ProcessCountExact'
<1>1. Tree'
  BY DEF IInv, Tree, pcbVars
<1>2. Calls'
  BY DEF Calls
<1>3. Acyclic'
  <2>1. PICK d \in [Pcb -> Nat] : Deeper(d)
    BY DEF IInv, Acyclic
  <2>2. Deeper(d)'
    BY <2>1 DEF Deeper, pcbVars
  <2>. QED  BY <2>2 DEF Acyclic
<1>4. ProcessCountExact'
  BY DEF IInv, ProcessCountExact, Live, pcbVars
<1>. QED  BY <1>1, <1>2, <1>3, <1>4

(* Semaphores that do not change keep agreeing with their queues.          *)
LEMMA SemFrame ==
  ASSUME IInv, UNCHANGED <<semVal, procQ>>
  PROVE  SemaphoreCountsWaiters'
BY DEF IInv, SemaphoreCountsWaiters

(***************************************************************************)
(* The innermost call of sys2Helper.                                       *)
(***************************************************************************)
LEMMA HeadFacts ==
  ASSUME IInv, cpu = "kill"
  PROVE  /\ currentProcess \in Pcb
         /\ Len(heads) \in Nat \ {0}
         /\ head \in Pcb /\ head = heads[Len(heads)]
         /\ head \in Live
         /\ head = currentProcess <=> Len(heads) = 1
         /\ head # currentProcess => p_prnt[head] = NULL
<1>1. /\ heads \in Seq(Pcb) /\ heads # <<>> /\ currentProcess \in Pcb
      /\ heads[1] = currentProcess
      /\ \A i \in 1 .. Len(heads) : heads[i] \notin pcbFree
      /\ \A i \in 1 .. Len(heads) : i # 1 => p_prnt[heads[i]] = NULL
  BY DEF IInv, Types, CpuOK, Calls
<1>2. Len(heads) \in Nat \ {0} /\ Len(heads) \in 1 .. Len(heads) /\ 1 \in 1 .. Len(heads)
  BY <1>1
<1>3. head = heads[Len(heads)] /\ head \in Pcb
  BY <1>1, <1>2 DEF head, Last
<1>4. Len(heads) # 1 => head # currentProcess
  <2>1. PICK d \in [Pcb -> Nat] : Deeper(d)
    BY DEF IInv, Acyclic
  <2> DEFINE n == Len(heads)
  <2>0. n \in Nat \ {0} /\ n \in 1 .. n /\ 1 \in 1 .. n
        /\ \A i, j \in 1 .. n : i < j => d[heads[i]] < d[heads[j]]
    BY <1>2, <2>1 DEF Deeper
  <2> HIDE DEF n
  <2>2. n # 1 => d[heads[1]] < d[heads[n]]
    BY <2>0
  <2>3. d[heads[1]] \in Nat
    BY <1>1
  <2>. QED  BY <1>1, <1>3, <2>2, <2>3 DEF n
<1>. QED  BY <1>1, <1>2, <1>3, <1>4 DEF Live

(***************************************************************************)
(* The current process is released: SYS2 of a leaf, and the end of         *)
(* sys2Helper.                                                             *)
(***************************************************************************)
LEMMA ReleaseCurrentStep ==
  ASSUME IInv, currentProcess \in Pcb, p_child[currentProcess] = <<>>,
         ReleaseCurrent
  PROVE  IInv'
<1> DEFINE c == currentProcess
<1>1. /\ Types /\ CpuOK /\ Places /\ Tree
      /\ p_child' = [outChild(c) EXCEPT ![c] = <<>>]
      /\ p_prnt'  = [p_prnt EXCEPT ![c] = NULL]
      /\ pcbFree' = pcbFree \cup {c}
      /\ processCount' = processCount - 1
      /\ heads' = <<>>
      /\ UNCHANGED <<semVal, procQ, p_semAdd, p_supportStruct, softBlockCount, busy>>
  BY DEF IInv, ReleaseCurrent, outChildAndFree, semVars
<1>2. Dispatched(readyQueue, {}, processCount')
  <2>1. scheduler(readyQueue, processCount - 1, softBlockCount)
    BY DEF ReleaseCurrent
  <2>2. readyQueue \in Seq(Pcb) /\ IsInjective(readyQueue)
        /\ processCount - 1 \in Int /\ softBlockCount \in Int
    BY <1>1 DEF Types, Places
  <2>. QED  BY <1>1, <2>1, <2>2, SchedulerLemma
<1>3. /\ p_child' \in [Pcb -> Seq(Pcb)]
      /\ \A p \in Pcb : IsInjective(p_child'[p])
      /\ \A p \in Pcb : ToSet(p_child'[p]) = ToSet(p_child[p]) \ {c}
      /\ \A p \in pcbFree : p_child'[p] = <<>>
      /\ p_child'[c] = <<>>
  <2>1. p_child \in [Pcb -> Seq(Pcb)] /\ p_prnt \in [Pcb -> Pcb \cup {NULL}]
    BY <1>1 DEF Types
  <2>2. ToSet(p_child[c]) = {} /\ IsInjective(<<>>) /\ <<>> \in Seq(Pcb)
    BY <2>1, SeqFacts DEF IsInjective
  <2>3. CASE p_prnt[c] = NULL
    <3>1. outChild(c) = p_child
      BY <2>3 DEF outChild
    <3>2. \A p \in Pcb : c \notin ToSet(p_child[p])
      BY <1>1, <2>3, PcbAssumption DEF Tree
    <3>. QED  BY <1>1, <2>1, <2>2, <3>1, <3>2 DEF Tree
  <2>4. CASE p_prnt[c] # NULL
    <3> DEFINE q == p_prnt[c]
    <3>1. q \in Pcb /\ c \in ToSet(p_child[q]) /\ q # c /\ q \notin pcbFree
      BY <1>1, <2>1, <2>2, <2>4 DEF Tree
    <3>2. outChild(c) = [p_child EXCEPT ![q] = Without(p_child[q], c)]
      BY <2>4 DEF outChild
    <3>3. /\ Without(p_child[q], c) \in Seq(Pcb)
          /\ IsInjective(Without(p_child[q], c))
          /\ ToSet(Without(p_child[q], c)) = ToSet(p_child[q]) \ {c}
      BY <1>1, <2>1, <3>1, WithoutLemma DEF Tree
    <3>4. \A p \in Pcb : p # q => c \notin ToSet(p_child[p])
      BY <1>1 DEF Tree
    <3> DEFINE w == Without(p_child[q], c)
    <3>5. \A p \in Pcb : p_child'[p] = IF p = c THEN <<>>
                                      ELSE IF p = q THEN w ELSE p_child[p]
      BY <1>1, <2>1, <3>1, <3>2
    <3>6. p_child' \in [Pcb -> Seq(Pcb)]
      BY <1>1, <2>1, <2>2, <3>1, <3>2, <3>3
    <3> HIDE DEF q, w
    <3>7. \A p \in Pcb : IsInjective(p_child'[p])
      BY <1>1, <2>2, <3>3, <3>5 DEF Tree, w
    <3>8. \A p \in Pcb : ToSet(p_child'[p]) = ToSet(p_child[p]) \ {c}
      BY <2>2, <3>3, <3>4, <3>5 DEF w
    <3>9. \A p \in pcbFree : p_child'[p] = <<>>
      BY <1>1, <3>1, <3>5 DEF Tree, Types
    <3>. QED  BY <3>5, <3>6, <3>7, <3>8, <3>9
  <2>. QED  BY <2>3, <2>4
<1>4. Types'
  BY <1>1, <1>2, <1>3 DEF Types, Dispatched, Cpu
<1>5. CpuOK'
  BY <1>1, <1>2 DEF CpuOK, Dispatched
<1>6. Places'
  <2>1. Moved(Running \ {c})
    <3>1. /\ \A p \in Pcb : p = currentProcess' \/ p \in ToSet(readyQueue')
                            <=> p \in ToSet(readyQueue) \/ p \in {}
          /\ readyQueue' \in Seq(Pcb) /\ IsInjective(readyQueue')
          /\ currentProcess' \in Pcb \cup {NULL}
          /\ currentProcess' \notin ToSet(readyQueue')
      BY <1>2, DispatchedLemma DEF Dispatched
    <3>2. \A p \in Pcb : p \in ToSet(readyQueue) <=> p \in Running \ {c}
      BY <1>1 DEF Places, Running
    <3>. QED  BY <1>1, <3>1, <3>2 DEF Moved, Places, Types
  <2>2. \A s \in Sem : ToSet(procQ'[s]) = ToSet(procQ[s]) \ {c}
    BY <1>1 DEF Places
  <2>. QED  BY <1>1, <2>1, <2>2, PlacesLeave
<1>7. Tree'
  BY <1>1, <1>3, PcbAssumption DEF Types, Tree
<1>8. Calls'
  BY <1>1 DEF Calls
<1>9. Acyclic'
  <2>1. PICK d \in [Pcb -> Nat] : Deeper(d)
    BY DEF IInv, Acyclic
  <2>2. Deeper(d)'
    BY <1>1, <2>1 DEF Deeper, Types
  <2>. QED  BY <2>2 DEF Acyclic
<1>10. ProcessCountExact'
  <2>1. Live' = Live \ {c} /\ c \in Live /\ IsFiniteSet(Live)
    BY <1>1, PcbAssumption, FS_Subset DEF Places, Live
  <2>2. Cardinality(Live \ {c}) = Cardinality(Live) - 1
    BY <2>1, FS_RemoveElement
  <2>. QED  BY <1>1, <2>1, <2>2 DEF IInv, ProcessCountExact
<1>11. SemaphoreCountsWaiters'
  BY <1>1, SemFrame
<1>. QED  BY <1>4, <1>5, <1>6, <1>7, <1>8, <1>9, <1>10, <1>11 DEF IInv

(***************************************************************************)
(* SYS2 starts: of a leaf, it ends at once.                                *)
(***************************************************************************)
LEMMA TerminateStep ==
  ASSUME IInv, cpu \in {"run", "trap"}, terminateProcess
  PROVE  IInv'
<1>0. currentProcess \in Pcb /\ currentProcess \notin pcbFree
  BY DEF IInv, Types, CpuOK, Places
<1>1. CASE p_child[currentProcess] = <<>>
  BY <1>0, <1>1, ReleaseCurrentStep DEF terminateProcess
<1>2. CASE p_child[currentProcess] # <<>>
  <2>1. /\ cpu' = "kill" /\ heads' = <<currentProcess>>
        /\ UNCHANGED <<pcbFree, p_prnt, p_child, p_supportStruct, processCount,
                       semVal, procQ, p_semAdd, readyQueue, currentProcess,
                       softBlockCount, busy, reg_v0>>
    BY <1>2 DEF terminateProcess, treeVars, pcbVars, semVars
  <2>2. Types'
    BY <1>0, <2>1 DEF IInv, Types, Cpu
  <2>3. CpuOK'
    BY <1>0, <2>1 DEF IInv, CpuOK, Types
  <2>4. Places' /\ Tree' /\ ProcessCountExact' /\ SemaphoreCountsWaiters'
    BY <2>1 DEF IInv, Places, Tree, ProcessCountExact, SemaphoreCountsWaiters, Live
  <2>5. Calls'
    BY <1>0, <2>1 DEF Calls
  <2>6. Acyclic'
    <3>1. PICK d \in [Pcb -> Nat] : Deeper(d)
      BY DEF IInv, Acyclic
    <3>2. Deeper(d)'
      BY <2>1, <3>1 DEF Deeper
    <3>. QED  BY <3>2 DEF Acyclic
  <2>. QED  BY <2>2, <2>3, <2>4, <2>5, <2>6 DEF IInv
<1>. QED  BY <1>1, <1>2

(***************************************************************************)
(* A call of sys2Helper for the first child of the innermost call's pcb.   *)
(***************************************************************************)
LEMMA KillChildStep ==
  ASSUME IInv, KillChild
  PROVE  IInv'
<1> DEFINE son == Head(p_child[head])  h == head  n == Len(heads)
<1>1. /\ Types /\ CpuOK /\ Places /\ Tree /\ Calls
      /\ cpu = "kill" /\ p_child[h] # <<>>
      /\ p_child' = [p_child EXCEPT ![h] = Tail(@)]
      /\ p_prnt'  = [p_prnt EXCEPT ![son] = NULL]
      /\ heads'   = Append(heads, son)
      /\ UNCHANGED <<pcbFree, p_supportStruct, processCount, semVal, procQ, p_semAdd,
                     readyQueue, currentProcess, softBlockCount, busy, cpu, reg_v0>>
  BY DEF IInv, KillChild, semVars
<1>2. h \in Pcb /\ n \in Nat \ {0} /\ h = heads[n] /\ h \notin pcbFree
  BY <1>1, HeadFacts DEF Live
<1>3. /\ son \in Pcb /\ son \in ToSet(p_child[h])
      /\ Tail(p_child[h]) \in Seq(Pcb) /\ IsInjective(Tail(p_child[h]))
      /\ ToSet(Tail(p_child[h])) = ToSet(p_child[h]) \ {son}
  <2>1. p_child[h] \in Seq(Pcb) /\ IsInjective(p_child[h]) /\ ~emptyProcQ(p_child[h])
    BY <1>1, <1>2 DEF Types, Tree, emptyProcQ
  <2>. QED  BY <2>1, RemoveLemma DEF headProcQ, removeProcQ
<1>4. p_prnt[son] = h /\ son \notin pcbFree /\ NULL \notin Pcb
  BY <1>1, <1>2, <1>3, PcbAssumption DEF Tree
<1> DEFINE rest == Tail(p_child[h])
<1>5. /\ \A p \in Pcb : p_child'[p] = IF p = h THEN rest ELSE p_child[p]
      /\ \A p \in Pcb : p_prnt'[p] = IF p = son THEN NULL ELSE p_prnt[p]
      /\ p_child' \in [Pcb -> Seq(Pcb)] /\ p_prnt' \in [Pcb -> Pcb \cup {NULL}]
  BY <1>1, <1>2, <1>3 DEF Types
<1>6. /\ heads' \in Seq(Pcb) /\ Len(heads') = n + 1 /\ heads'[n+1] = son
      /\ \A i \in 1 .. n : heads'[i] = heads[i] /\ heads[i] \in Pcb
      /\ heads' # <<>>
  <2>1. heads \in Seq(Pcb) /\ heads' = Append(heads, son) /\ son \in Pcb
    BY <1>1, <1>3 DEF Types
  <2> HIDE DEF son, h, rest
  <2>. QED  BY <2>1
<1> HIDE DEF son, h, n, rest
<1>7. Types' /\ CpuOK'
  BY <1>1, <1>5, <1>6 DEF Types, CpuOK
<1>8. Places' /\ ProcessCountExact' /\ SemaphoreCountsWaiters'
  BY <1>1 DEF IInv, Places, ProcessCountExact, SemaphoreCountsWaiters, Live
<1>9. Tree'
  <2>1. \A p, q \in Pcb : q \in ToSet(p_child'[p]) <=> p_prnt'[q] = p
    BY <1>1, <1>3, <1>4, <1>5 DEF Tree, rest
  <2>2. \A p \in Pcb : IsInjective(p_child'[p])
    BY <1>1, <1>3, <1>5 DEF Tree, rest
  <2>3. \A p \in pcbFree' : p_prnt'[p] = NULL /\ p_child'[p] = <<>>
    BY <1>1, <1>2, <1>5 DEF Tree, Types
  <2>. QED  BY <2>1, <2>2, <2>3 DEF Tree
<1>10. Calls'
  <2>1. \A i \in 1 .. n + 1 : i = n + 1 \/ i \in 1 .. n
    BY <1>2
  <2>2. heads'[1] = currentProcess'
    BY <1>1, <1>2, <1>6 DEF Calls, n
  <2>3. \A i \in 1 .. n + 1 : heads'[i] \notin pcbFree'
    BY <1>1, <1>4, <1>6, <2>1 DEF Calls, n
  <2>4. \A i \in 1 .. n + 1 : i # 1 => p_prnt'[heads'[i]] = NULL
    BY <1>1, <1>3, <1>5, <1>6, <2>1 DEF Calls, n
  <2>. QED  BY <1>6, <2>2, <2>3, <2>4 DEF Calls
<1>11. Acyclic'
  <2>1. PICK d \in [Pcb -> Nat] : Deeper(d)
    BY DEF IInv, Acyclic
  <2>2. \A p \in Pcb : p_prnt'[p] # NULL => d[p_prnt'[p]] < d[p]
    BY <1>5, <2>1 DEF Deeper
  <2>3. d[h] < d[son]
    BY <1>2, <1>3, <1>4, <2>1 DEF Deeper
  <2>4. \A i, j \in 1 .. n : i < j => d[heads[i]] < d[heads[j]]
    BY <2>1 DEF Deeper, n
  <2>5. ASSUME NEW i \in 1 .. n + 1, NEW j \in 1 .. n + 1, i < j
        PROVE  d[heads'[i]] < d[heads'[j]]
    <3>1. i \in 1 .. n /\ n \in 1 .. n /\ (j = n + 1 \/ j \in 1 .. n) /\ (i # n => i < n)
      BY <1>2, <2>5
    <3>2. d[heads[i]] \in Nat /\ d[h] \in Nat /\ d[son] \in Nat
      BY <1>2, <1>3, <1>6, <3>1
    <3>3. CASE j \in 1 .. n
      BY <1>6, <2>4, <2>5, <3>1, <3>3
    <3>4. CASE j = n + 1
      <4>1. i # n => d[heads[i]] < d[h]
        BY <1>2, <2>4, <3>1
      <4>2. d[heads[i]] < d[son]
        BY <1>2, <2>3, <3>2, <4>1
      <4>. QED  BY <1>6, <3>1, <3>4, <4>2
    <3>. QED  BY <3>1, <3>3, <3>4
  <2>6. Deeper(d)'
    BY <1>6, <2>2, <2>5 DEF Deeper
  <2>. QED  BY <2>6 DEF Acyclic
<1>. QED  BY <1>7, <1>8, <1>9, <1>10, <1>11 DEF IInv

(***************************************************************************)
(* FreeHead, for a pcb with neither child nor parent.                      *)
(***************************************************************************)
LEMMA FreeHeadLemma ==
  ASSUME IInv, KillSelf, FreeHead, head # currentProcess
  PROVE  /\ Tree' /\ Calls' /\ Acyclic' /\ ProcessCountExact'
         /\ heads' \in Seq(Pcb) /\ heads' # <<>>
         /\ pcbFree' = pcbFree \cup {head}
         /\ processCount' \in Int
<1> DEFINE h == head  n == Len(heads)
<1>1. /\ Types /\ Tree /\ Calls
      /\ cpu = "kill" /\ p_child[h] = <<>>
      /\ pcbFree' = pcbFree \cup {h}
      /\ processCount' = processCount - 1
      /\ heads' = Front(heads)
      /\ UNCHANGED <<p_prnt, p_child, currentProcess>>
  BY DEF IInv, KillSelf, FreeHead
<1>2. /\ h \in Pcb /\ n \in Nat \ {0} /\ h = heads[n] /\ h \notin pcbFree
      /\ p_prnt[h] = NULL /\ n # 1
  BY <1>1, HeadFacts DEF Live
<1>3. /\ heads' \in Seq(Pcb) /\ Len(heads') = n - 1
      /\ \A i \in 1 .. n - 1 : heads'[i] = heads[i]
  BY <1>1, <1>2, FrontLemma DEF Types
<1>4. heads' # <<>> /\ 1 \in 1 .. n - 1 /\ \A i \in 1 .. n - 1 : i \in 1 .. n
  BY <1>2, <1>3
<1> HIDE DEF h, n
<1>5. PICK d \in [Pcb -> Nat] : Deeper(d)
  BY DEF IInv, Acyclic
<1>6. \A i \in 1 .. n - 1 : heads[i] # h /\ heads[i] \in Pcb
  <2>1. \A i, j \in 1 .. n : i < j => d[heads[i]] < d[heads[j]]
    BY <1>5 DEF Deeper, n
  <2>2. \A i \in 1 .. n : heads[i] \in Pcb /\ d[heads[i]] \in Nat
    <3>1. heads \in Seq(Pcb)
      BY <1>1 DEF Types
    <3>2. \A i \in 1 .. n : heads[i] \in Pcb
      BY <3>1 DEF n
    <3>. QED  BY <1>5, <3>2
  <2>3. \A i \in 1 .. n - 1 : i < n /\ n \in 1 .. n
    BY <1>2
  <2>4. \A i \in 1 .. n - 1 : d[heads[i]] < d[heads[n]]
    BY <1>4, <2>1, <2>3
  <2>5. \A i \in 1 .. n - 1 : heads[i] \in Pcb /\ d[heads[i]] \in Nat
    BY <1>4, <2>2
  <2>. QED  BY <1>2, <2>4, <2>5
<1>7. Tree'
  BY <1>1, <1>2 DEF Tree
<1>8. Calls'
  <2>1. heads'[1] = currentProcess'
    BY <1>1, <1>2, <1>3, <1>4 DEF Calls, n
  <2>2. \A i \in 1 .. n - 1 : heads'[i] \notin pcbFree'
    BY <1>1, <1>3, <1>4, <1>6 DEF Calls, n
  <2>3. \A i \in 1 .. n - 1 : i # 1 => p_prnt'[heads'[i]] = NULL
    BY <1>1, <1>3, <1>4 DEF Calls, n
  <2>. QED  BY <1>3, <2>1, <2>2, <2>3 DEF Calls
<1>9. Acyclic'
  <2>1. \A p \in Pcb : p_prnt'[p] # NULL => d[p_prnt'[p]] < d[p]
    BY <1>1, <1>5 DEF Deeper
  <2>2. \A i, j \in 1 .. n - 1 : i < j => d[heads'[i]] < d[heads'[j]]
    BY <1>3, <1>4, <1>5 DEF Deeper, n
  <2>3. Deeper(d)'
    BY <1>3, <2>1, <2>2 DEF Deeper
  <2>. QED  BY <2>3 DEF Acyclic
<1>10. ProcessCountExact' /\ processCount' \in Int
  <2>1. Live' = Live \ {h} /\ h \in Live /\ IsFiniteSet(Live)
    BY <1>1, <1>2, PcbAssumption, FS_Subset DEF Live
  <2>2. Cardinality(Live \ {h}) = Cardinality(Live) - 1
    BY <2>1, FS_RemoveElement
  <2>. QED  BY <1>1, <2>1, <2>2 DEF IInv, ProcessCountExact, Types
<1>. QED  BY <1>1, <1>3, <1>4, <1>7, <1>8, <1>9, <1>10 DEF h

(***************************************************************************)
(* A ready process ends.                                                   *)
(***************************************************************************)
LEMMA KillReadyStep ==
  ASSUME IInv, KillReady
  PROVE  IInv'
<1> DEFINE h == head
<1>1. /\ Types /\ CpuOK /\ Places
      /\ KillSelf /\ FreeHead /\ cpu = "kill" /\ h # currentProcess
      /\ p_semAdd[h] = NULL /\ readyQueue' = outProcQ(readyQueue, h)
      /\ UNCHANGED <<p_prnt, p_child, p_supportStruct, p_semAdd, currentProcess,
                     busy, cpu, reg_v0, semVal, procQ, softBlockCount>>
  BY DEF IInv, KillReady, KillSelf, FreeHead
<1>2. /\ Tree' /\ Calls' /\ Acyclic' /\ ProcessCountExact'
      /\ heads' \in Seq(Pcb) /\ heads' # <<>>
      /\ pcbFree' = pcbFree \cup {h}
      /\ processCount' \in Int
      /\ h \in Pcb
  BY <1>1, FreeHeadLemma, HeadFacts
<1>3. /\ readyQueue' \in Seq(Pcb) /\ IsInjective(readyQueue')
      /\ ToSet(readyQueue') = ToSet(readyQueue) \ {h}
  <2>1. readyQueue \in Seq(Pcb) /\ IsInjective(readyQueue)
    BY <1>1 DEF Types, Places
  <2>2. readyQueue' = outProcQ(readyQueue, h)
    BY <1>1
  <2> HIDE DEF h
  <2>. QED  BY <2>1, <2>2, OutLemma
<1> HIDE DEF h
<1>4. Types' /\ CpuOK'
  BY <1>1, <1>2, <1>3 DEF Types, CpuOK
<1>5. Places'
  <2>1. Moved(Running \ {h})
    BY <1>1, <1>3 DEF Moved, Running, Types, Places
  <2>2. \A s \in Sem : h \notin ToSet(procQ[s])
    BY <1>1, SemAssumption DEF Places
  <2>. QED  BY <1>1, <1>2, <2>1, <2>2, PlacesLeave
<1>6. SemaphoreCountsWaiters'
  BY <1>1, SemFrame
<1>. QED  BY <1>2, <1>4, <1>5, <1>6 DEF IInv

(***************************************************************************)
(* A blocked process ends, and its semaphore or the soft-block count is    *)
(* adjusted.                                                               *)
(***************************************************************************)
LEMMA KillBlockedStep ==
  ASSUME IInv, KillBlocked
  PROVE  IInv'
<1> DEFINE h == head
<1>1. PICK s \in Sem : /\ s = p_semAdd[h]
                       /\ h \in ToSet(procQ[s])
                       /\ procQ' = [procQ EXCEPT ![s] = outProcQ(procQ[s], h)]
                       /\ LeaveSemaphore(s)
  BY DEF KillBlocked
<1>2. /\ Types /\ CpuOK /\ Places /\ SemaphoreCountsWaiters
      /\ KillSelf /\ FreeHead /\ cpu = "kill"
      /\ UNCHANGED <<p_prnt, p_child, p_supportStruct, p_semAdd, currentProcess,
                     busy, cpu, reg_v0, readyQueue>>
  BY DEF IInv, KillBlocked, KillSelf, FreeHead
<1>3. h # currentProcess /\ h \notin ToSet(readyQueue)
  BY <1>1, <1>2 DEF Places
<1>4. /\ Tree' /\ Calls' /\ Acyclic' /\ ProcessCountExact'
      /\ heads' \in Seq(Pcb) /\ heads' # <<>>
      /\ pcbFree' = pcbFree \cup {h}
      /\ processCount' \in Int
      /\ h \in Pcb
  BY <1>2, <1>3, FreeHeadLemma, HeadFacts
<1> DEFINE q == procQ[s]  r == outProcQ(q, h)
<1>5. /\ q \in Seq(Pcb) /\ IsInjective(q)
      /\ r \in Seq(Pcb) /\ IsInjective(r)
      /\ ToSet(r) = ToSet(q) \ {h}
      /\ Len(r) = Len(q) - 1
  BY <1>1, <1>2, OutLemma DEF Types, Places
<1> HIDE DEF h, r
<1>6. /\ \A t \in Sem : procQ'[t] = IF t = s THEN r ELSE procQ[t]
      /\ procQ' \in [Sem -> Seq(Pcb)]
  BY <1>1, <1>2, <1>5 DEF Types, r
<1>7. softBlockCount' \in Int /\ semVal' \in [Sem -> Int]
  BY <1>1, <1>2 DEF LeaveSemaphore, Types
<1>8. Types' /\ CpuOK'
  BY <1>2, <1>4, <1>6, <1>7 DEF Types, CpuOK
<1>9. Places'
  <2>1. \A t \in Sem : ToSet(procQ'[t]) = ToSet(procQ[t]) \ {h}
    BY <1>1, <1>2, <1>5, <1>6 DEF Places
  <2>2. Moved(Running \ {h})
    <3>1. \A t \in Sem : IsInjective(procQ'[t])
      BY <1>2, <1>5, <1>6 DEF Places
    <3>2. \A p \in Pcb : p = currentProcess \/ p \in ToSet(readyQueue)
                         <=> p \in Running \ {h}
      BY <1>3 DEF Running
    <3>. QED  BY <1>2, <1>6, <3>1, <3>2 DEF Moved, Types, Places
  <2>. QED  BY <1>2, <1>4, <2>1, <2>2, PlacesLeave
<1>10. SemaphoreCountsWaiters'
  <2>1. \A t \in Sem : Len(procQ[t]) \in Nat
    BY <1>2 DEF Types
  <2>2. Len(q) # 0
    BY <1>5, <2>1
  <2>3. CASE s \in DeviceSem
    <3>1. semVal' = semVal
      BY <1>1, <2>3 DEF LeaveSemaphore
    <3>2. s \notin UserSem /\ UserSem \subseteq Sem /\ Clock \in Sem
      BY <2>3, SemAssumption DEF DeviceSem, Sem
    <3>3. \A t \in UserSem : procQ'[t] = procQ[t] /\ semVal'[t] = semVal[t]
      BY <1>6, <3>1, <3>2
    <3>4. \A t \in UserSem : Len(procQ'[t]) = IF semVal'[t] < 0 THEN -semVal'[t] ELSE 0
      BY <1>2, <3>3 DEF SemaphoreCountsWaiters
    <3>5. Len(procQ'[Clock]) <= Len(procQ[Clock]) /\ Len(procQ'[Clock]) \in Nat
      BY <1>5, <1>6, <2>1, <3>2
    <3>6. semVal'[Clock] = semVal[Clock] /\ semVal[Clock] \in Int
      BY <1>2, <3>1, <3>2 DEF Types
    <3>7. Len(procQ'[Clock]) <= -semVal'[Clock]
      BY <1>2, <2>1, <3>2, <3>5, <3>6 DEF SemaphoreCountsWaiters
    <3>. QED  BY <3>4, <3>7 DEF SemaphoreCountsWaiters
  <2>4. CASE s \notin DeviceSem
    <3>1. /\ s \in UserSem /\ UserSem \subseteq Sem /\ Clock \in Sem /\ s # Clock
      BY <2>4 DEF DeviceSem, Sem
    <3>2. \A t \in Sem : semVal'[t] = IF t = s THEN semVal[t] + 1 ELSE semVal[t]
      BY <1>1, <1>2, <2>4 DEF LeaveSemaphore, Types
    <3>3. \A t \in Sem : semVal[t] \in Int
      BY <1>2 DEF Types
    <3>4. Len(q) = IF semVal[s] < 0 THEN -semVal[s] ELSE 0
      BY <1>2, <3>1 DEF SemaphoreCountsWaiters
    <3>5. Len(r) = IF semVal[s] + 1 < 0 THEN -(semVal[s] + 1) ELSE 0
      BY <1>1, <1>5, <2>1, <2>2, <3>3, <3>4
    <3>. QED  BY <1>2, <1>6, <3>1, <3>2, <3>5 DEF SemaphoreCountsWaiters
  <2>. QED  BY <2>3, <2>4
<1>. QED  BY <1>4, <1>8, <1>9, <1>10 DEF IInv

(***************************************************************************)
(* The bus error: a process whose p_semAdd is out of date.  It can only be *)
(* the semaphore of a device, so no semaphore of programs changes.         *)
(***************************************************************************)
LEMMA KillStaleStep ==
  ASSUME IInv, KillStale
  PROVE  IInv'
<1>1. /\ Types /\ CpuOK /\ Places /\ cpu = "kill"
      /\ cpu' = "trap" /\ heads' = <<>>
      /\ UNCHANGED <<pcbFree, p_prnt, p_child, p_supportStruct, processCount,
                     procQ, p_semAdd, readyQueue, currentProcess, busy, reg_v0>>
  BY DEF IInv, KillStale, KillSelf, treeVars, pcbVars
<1>2. PICK s \in Sem : /\ s = p_semAdd[head]
                       /\ head \notin ToSet(procQ[s])
                       /\ LeaveSemaphore(s)
  BY DEF KillStale
<1>3. s \in DeviceSem
  BY <1>1, <1>2, HeadFacts DEF Places, Sem, DeviceSem
<1>4. softBlockCount' = softBlockCount - 1 /\ semVal' = semVal
  BY <1>2, <1>3 DEF LeaveSemaphore
<1>5. Types' /\ CpuOK'
  BY <1>1, <1>4 DEF Types, CpuOK, Cpu
<1>6. Places'
  BY <1>1 DEF Places, Live
<1>7. Tree' /\ Calls' /\ Acyclic' /\ ProcessCountExact'
  BY <1>1, TreeFrame DEF pcbVars
<1>8. SemaphoreCountsWaiters'
  BY <1>1, <1>4, SemFrame
<1>. QED  BY <1>5, <1>6, <1>7, <1>8 DEF IInv

(* Every step of sys2Helper keeps the invariant.                           *)
LEMMA Sys2HelperStep ==
  ASSUME IInv, Sys2Helper
  PROVE  IInv'
<1>1. CASE KillCurrent
  <2>1. /\ cpu = "kill" /\ p_child[head] = <<>> /\ head = currentProcess
        /\ ReleaseCurrent
    BY <1>1 DEF KillCurrent, KillSelf
  <2>. QED  BY <2>1, HeadFacts, ReleaseCurrentStep
<1>. QED  BY <1>1, KillChildStep, KillBlockedStep, KillStaleStep, KillReadyStep
          DEF Sys2Helper

------------------------------------------------------------------------------
(***************************************************************************)
(* SYS1.                                                                   *)
(***************************************************************************)
LEMMA CreateProcessStep ==
  ASSUME IInv, NEW sup \in BOOLEAN, CreateProcess(sup)
  PROVE  IInv'
<1> DEFINE c == currentProcess
<1>1. /\ Types /\ CpuOK /\ Places /\ Tree
      /\ cpu = "run" /\ c \in Pcb /\ heads = <<>>
      /\ UNCHANGED <<semVal, procQ, currentProcess, softBlockCount, busy, cpu, heads>>
      /\ reg_v0' = 0
  BY DEF IInv, CreateProcess, CpuOK, Types, semVars
<1>2. CASE pcbFree = {} /\ UNCHANGED <<treeVars, semVars, readyQueue>>
  <2>1. UNCHANGED <<pcbFree, p_prnt, p_child, p_supportStruct, processCount,
                    p_semAdd, readyQueue>>
    BY <1>2 DEF treeVars, pcbVars, semVars
  <2>2. Types' /\ CpuOK' /\ Places'
    BY <1>1, <2>1 DEF Types, CpuOK, Places, Live
  <2>. QED  BY <1>1, <2>1, <2>2, TreeFrame, SemFrame DEF IInv, pcbVars
<1>3. ASSUME NEW son \in pcbFree,
             pcbFree'         = pcbFree \ {son},
             p_semAdd'        = [p_semAdd EXCEPT ![son] = NULL],
             p_supportStruct' = [p_supportStruct EXCEPT ![son] = sup],
             readyQueue'      = insertProcQ(readyQueue, son),
             p_prnt'          = [p_prnt EXCEPT ![son] = c],
             p_child'         = [p_child EXCEPT ![c] = Append(p_child[c], son)],
             processCount'    = processCount + 1
      PROVE  IInv'
  <2>1. son \in Pcb /\ son # c /\ c \notin pcbFree
    BY <1>1, <1>3 DEF Types, Places
  <2>2. /\ p_child[son] = <<>> /\ p_prnt[son] = NULL /\ NULL \notin Pcb
        /\ \A p \in Pcb : son \notin ToSet(p_child[p]) /\ p_prnt[p] # son
    <3>1. p_child[son] = <<>> /\ p_prnt[son] = NULL /\ NULL \notin Pcb
      BY <1>1, <1>3, PcbAssumption DEF Tree
    <3>2. ToSet(p_child[son]) = {}
      BY <3>1 DEF ToSet
    <3>. QED  BY <1>1, <2>1, <3>1, <3>2 DEF Tree
  <2> DEFINE q == Append(p_child[c], son)
  <2>3. /\ q \in Seq(Pcb) /\ IsInjective(q) /\ ToSet(q) = ToSet(p_child[c]) \cup {son}
    <3>1. p_child[c] \in Seq(Pcb) /\ IsInjective(p_child[c])
      BY <1>1 DEF Types, Tree
    <3>. QED  BY <1>1, <2>1, <2>2, <3>1, InsertLemma DEF insertProcQ
  <2>4. /\ readyQueue' \in Seq(Pcb) /\ IsInjective(readyQueue')
        /\ ToSet(readyQueue') = ToSet(readyQueue) \cup {son}
    <3>1. readyQueue \in Seq(Pcb) /\ IsInjective(readyQueue) /\ son \notin ToSet(readyQueue)
      BY <1>1, <1>3 DEF Types, Places
    <3> DEFINE rq == insertProcQ(readyQueue, son)
    <3>2. rq \in Seq(Pcb) /\ IsInjective(rq) /\ ToSet(rq) = ToSet(readyQueue) \cup {son}
      BY <2>1, <3>1, InsertLemma
    <3>. QED  BY <1>3, <3>2
  <2> HIDE DEF q
  <2>5. /\ \A p \in Pcb : p_child'[p] = IF p = c THEN q ELSE p_child[p]
        /\ \A p \in Pcb : p_prnt'[p] = IF p = son THEN c ELSE p_prnt[p]
        /\ \A p \in Pcb : p_semAdd'[p] = IF p = son THEN NULL ELSE p_semAdd[p]
        /\ p_child' \in [Pcb -> Seq(Pcb)] /\ p_prnt' \in [Pcb -> Pcb \cup {NULL}]
        /\ p_semAdd' \in [Pcb -> Sem \cup {NULL}]
        /\ p_supportStruct' \in [Pcb -> BOOLEAN]
    BY <1>1, <1>3, <2>1, <2>3 DEF Types, q
  <2>6. Types' /\ CpuOK'
    BY <1>1, <1>3, <2>4, <2>5 DEF Types, CpuOK
  <2> HIDE DEF c
  <2>7. Places'
    <3> DEFINE A == Running \cup {son}
    <3>1. Moved(A)
      BY <1>1, <1>3, <2>1, <2>4 DEF Moved, Running, Places, Types, c
    <3>2. \A p \in A : p \notin pcbFree'
      BY <1>1, <1>3 DEF Running, Places
    <3>3. \A s \in Sem : ToSet(procQ[s]) \subseteq Pcb
      BY <1>1, SeqFacts DEF Types
    <3>4. \A s \in Sem : \A p \in ToSet(procQ'[s]) :
            p_semAdd'[p] = s /\ p \notin pcbFree' /\ p \notin A
      BY <1>1, <1>3, <2>5, <3>3 DEF Running, Places
    <3>5. ASSUME NEW p \in Pcb, p \notin pcbFree'
          PROVE  /\ p \in A \/ \E s \in Sem : p \in ToSet(procQ'[s])
                 /\ p_semAdd'[p] \in UserSem => p \in ToSet(procQ'[p_semAdd'[p]])
      <4>1. CASE p = son
        BY <4>1, <2>5, SemAssumption DEF Sem
      <4>2. CASE p # son
        BY <1>1, <1>3, <2>5, <3>5, <4>2 DEF Running, Places, Live
      <4>. QED  BY <4>1, <4>2
    <3>6. pcbFree' \subseteq Pcb
      BY <2>6 DEF Types
    <3> HIDE DEF A
    <3>. QED  BY <3>1, <3>2, <3>4, <3>5, <3>6, PlacesFrom
  <2>8. Tree'
    <3>1. \A p, r \in Pcb : r \in ToSet(p_child'[p]) <=> p_prnt'[r] = p
      <4>1. \A p, r \in Pcb : r \in ToSet(p_child[p]) <=> p_prnt[r] = p
        BY <1>1 DEF Tree
      <4>2. c \in Pcb /\ c # NULL /\ c # son /\ son \in Pcb
        BY <1>1, <2>1, <2>2 DEF c
      <4> SUFFICES ASSUME NEW p \in Pcb, NEW r \in Pcb
                   PROVE  r \in ToSet(p_child'[p]) <=> p_prnt'[r] = p
        OBVIOUS
      <4>3. r \in ToSet(p_child'[p]) <=> r \in ToSet(p_child[p]) \/ (p = c /\ r = son)
        BY <2>3, <2>5
      <4>4. p_prnt'[r] = p <=> p_prnt[r] = p \/ (p = c /\ r = son)
        BY <2>2, <2>5, <4>2, PcbAssumption
      <4>. QED  BY <4>1, <4>3, <4>4
    <3>2. \A p \in Pcb : IsInjective(p_child'[p])
      BY <1>1, <2>3, <2>5 DEF Tree
    <3>3. \A p \in pcbFree' : p_prnt'[p] = NULL /\ p_child'[p] = <<>>
      BY <1>1, <1>3, <2>1, <2>5 DEF Tree, Types
    <3>. QED  BY <3>1, <3>2, <3>3 DEF Tree
  <2>9. Calls'
    BY <1>1 DEF Calls
  <2>10. Acyclic'
    <3>1. PICK d \in [Pcb -> Nat] : Deeper(d)
      BY DEF IInv, Acyclic
    <3>2. PICK e \in [Pcb -> Nat] :
                 \A p \in Pcb : e[p] = IF p = son THEN d[c] + 1 ELSE d[p]
      <4>1. d[c] + 1 \in Nat
        BY <1>1, <3>1 DEF c
      <4> DEFINE f == [d EXCEPT ![son] = d[c] + 1]
      <4>2. /\ f \in [Pcb -> Nat]
            /\ \A p \in Pcb : f[p] = IF p = son THEN d[c] + 1 ELSE d[p]
        BY <3>1, <4>1
      <4>. QED  BY <4>2
    <3>4. \A p \in Pcb : p_prnt'[p] # NULL => e[p_prnt'[p]] < e[p]
      <4> SUFFICES ASSUME NEW p \in Pcb, p_prnt'[p] # NULL
                   PROVE  e[p_prnt'[p]] < e[p]
        OBVIOUS
      <4>1. CASE p = son
        <5>1. p_prnt'[p] = c /\ e[c] = d[c] /\ e[p] = d[c] + 1 /\ d[c] \in Nat
          BY <1>1, <2>1, <2>5, <3>1, <3>2, <4>1 DEF c
        <5>. QED  BY <5>1
      <4>2. CASE p # son
        <5>1. p_prnt'[p] = p_prnt[p] /\ p_prnt[p] \in Pcb /\ p_prnt[p] # son
          BY <1>1, <2>2, <2>5, <4>2 DEF Types
        <5>2. e[p] = d[p] /\ e[p_prnt[p]] = d[p_prnt[p]]
          BY <3>2, <4>2, <5>1
        <5>. QED  BY <3>1, <5>1, <5>2 DEF Deeper
      <4>. QED  BY <4>1, <4>2
    <3>5. Deeper(e)'
      BY <1>1, <3>4 DEF Deeper
    <3>. QED  BY <3>2, <3>5 DEF Acyclic
  <2>11. ProcessCountExact'
    <3>1. Live' = Live \cup {son} /\ son \notin Live /\ IsFiniteSet(Live)
      BY <1>3, <2>1, PcbAssumption, FS_Subset DEF Live
    <3>2. Cardinality(Live \cup {son}) = Cardinality(Live) + 1
      BY <3>1, FS_AddElement
    <3>. QED  BY <1>3, <3>1, <3>2 DEF IInv, ProcessCountExact
  <2>12. SemaphoreCountsWaiters'
    BY <1>1, SemFrame
  <2>. QED  BY <2>6, <2>7, <2>8, <2>9, <2>10, <2>11, <2>12 DEF IInv
<1>. QED  BY <1>2, <1>3 DEF CreateProcess

(***************************************************************************)
(* passupOrDie.                                                            *)
(***************************************************************************)
LEMMA PassupOrDieStep ==
  ASSUME IInv, passupOrDie
  PROVE  IInv'
<1>1. CASE p_supportStruct[currentProcess]
  <2>1. /\ cpu' = "run" /\ currentProcess # NULL /\ heads = <<>>
        /\ UNCHANGED <<pcbFree, p_prnt, p_child, p_supportStruct, processCount,
                       semVal, procQ, p_semAdd, readyQueue, currentProcess,
                       softBlockCount, busy, heads, reg_v0>>
    BY <1>1 DEF passupOrDie, treeVars, pcbVars, semVars, IInv, CpuOK
  <2>2. Types' /\ CpuOK' /\ Places'
    BY <2>1 DEF IInv, Types, CpuOK, Places, Live, Cpu
  <2>. QED  BY <2>1, <2>2, TreeFrame, SemFrame DEF IInv, pcbVars
<1>2. CASE ~p_supportStruct[currentProcess]
  BY <1>2, TerminateStep DEF passupOrDie
<1>. QED  BY <1>1, <1>2

------------------------------------------------------------------------------
(***************************************************************************)
(* A process that makes a system call is blocked nowhere, so at most       *)
(* MAXPROC - 1 semaphores have a queue: there is a descriptor left.        *)
(***************************************************************************)
LEMMA DescriptorLemma ==
  ASSUME Types, CpuOK, Places
  PROVE  DescriptorAvailable
<1> SUFFICES ASSUME cpu = "run", NEW s \in Sem
             PROVE  ~NoDescriptor(s)
  BY DEF DescriptorAvailable
<1> DEFINE T == Pcb \ {currentProcess}
           f == [t \in ActiveSem |-> headProcQ(procQ[t])]
<1>1. /\ IsFiniteSet(Pcb) /\ currentProcess \in Pcb
      /\ IsFiniteSet(T) /\ Cardinality(T) = Cardinality(Pcb) - 1
      /\ Cardinality(Pcb) \in Nat
  <2>1. IsFiniteSet(Pcb) /\ currentProcess \in Pcb
    BY PcbAssumption DEF Types, CpuOK
  <2>. QED  BY <2>1, FS_RemoveElement, FS_CardinalityType
<1>2. ASSUME NEW t \in ActiveSem
      PROVE  /\ headProcQ(procQ[t]) \in T
             /\ p_semAdd[headProcQ(procQ[t])] = t
  <2>1. t \in Sem /\ procQ[t] \in Seq(Pcb) /\ ~emptyProcQ(procQ[t])
    BY <1>2 DEF ActiveSem, Types
  <2>2. headProcQ(procQ[t]) \in Pcb /\ headProcQ(procQ[t]) \in ToSet(procQ[t])
    BY <2>1, RemoveLemma
  <2>. QED  BY <2>1, <2>2 DEF Places
<1>3. f \in Injection(ActiveSem, T)
  <2>1. f \in [ActiveSem -> T]
    BY <1>2
  <2>2. ASSUME NEW t \in ActiveSem, NEW u \in ActiveSem, f[t] = f[u]
        PROVE  t = u
    BY <1>2, <2>2
  <2> HIDE DEF f, T
  <2>. QED  BY <2>1, <2>2 DEF Injection, IsInjective
<1> HIDE DEF f, T
<1>4. Cardinality(ActiveSem) <= Cardinality(T) /\ Cardinality(ActiveSem) \in Nat
  BY <1>1, <1>3, FS_Injection, FS_CardinalityType
<1>. QED  BY <1>1, <1>4 DEF NoDescriptor, SemdTable, MAXPROC

------------------------------------------------------------------------------
(***************************************************************************)
(* SYS3, SYS5 and SYS7 when the current process blocks.                    *)
(***************************************************************************)
LEMMA BlockStep ==
  ASSUME IInv, cpu = "run", NEW s \in Sem, Block(s),
         semVal' = [semVal EXCEPT ![s] = @ - 1],
         s \in UserSem => semVal[s] - 1 < 0,
         UNCHANGED <<treeVars, busy, heads>>
  PROVE  IInv'
<1> DEFINE c == currentProcess  q == insertProcQ(procQ[s], c)
<1>1. /\ Types /\ CpuOK /\ Places /\ SemaphoreCountsWaiters
      /\ c \in Pcb /\ c \notin pcbFree /\ heads = <<>> /\ heads' = <<>>
      /\ procQ' = [procQ EXCEPT ![s] = q]
      /\ p_semAdd' = [p_semAdd EXCEPT ![c] = s]
      /\ softBlockCount' = softBlockCount + 1
      /\ scheduler(readyQueue, processCount, softBlockCount + 1)
      /\ UNCHANGED <<pcbFree, p_prnt, p_child, p_supportStruct, processCount, busy>>
  BY DEF IInv, Block, CpuOK, Types, Places, treeVars, pcbVars
<1>2. Dispatched(readyQueue, {}, processCount')
  <2>1. readyQueue \in Seq(Pcb) /\ IsInjective(readyQueue)
        /\ processCount \in Int /\ softBlockCount + 1 \in Int
    BY <1>1 DEF Types, Places
  <2>. QED  BY <1>1, <2>1, SchedulerLemma
<1>3. /\ q \in Seq(Pcb) /\ IsInjective(q)
      /\ ToSet(q) = ToSet(procQ[s]) \cup {c}
      /\ Len(q) = Len(procQ[s]) + 1
  <2> DEFINE b == procQ[s]
  <2>1. b \in Seq(Pcb) /\ IsInjective(b) /\ c \notin ToSet(b) /\ c \in Pcb
    BY <1>1 DEF Types, Places
  <2> HIDE DEF b, c
  <2>2. LET r == insertProcQ(b, c)
        IN  r \in Seq(Pcb) /\ IsInjective(r) /\ ToSet(r) = ToSet(b) \cup {c}
              /\ Len(r) = Len(b) + 1
    BY <2>1, InsertLemma
  <2>. QED  BY <2>2 DEF b
<1> HIDE DEF q
<1>4. /\ \A t \in Sem : procQ'[t] = IF t = s THEN q ELSE procQ[t]
      /\ \A t \in Sem : semVal'[t] = IF t = s THEN semVal[t] - 1 ELSE semVal[t]
      /\ \A p \in Pcb : p_semAdd'[p] = IF p = c THEN s ELSE p_semAdd[p]
      /\ procQ' \in [Sem -> Seq(Pcb)] /\ semVal' \in [Sem -> Int]
      /\ p_semAdd' \in [Pcb -> Sem \cup {NULL}]
  BY <1>1, <1>3 DEF Types
<1>5. Types'
  BY <1>1, <1>2, <1>4 DEF Types, Dispatched, Cpu
<1>6. CpuOK'
  BY <1>1, <1>2 DEF CpuOK, Dispatched
<1>7. Places'
  <2> DEFINE A == Running \ {c}
  <2>1. Moved(A)
    <3>1. /\ \A p \in Pcb : p = currentProcess' \/ p \in ToSet(readyQueue')
                            <=> p \in ToSet(readyQueue) \/ p \in {}
          /\ readyQueue' \in Seq(Pcb) /\ IsInjective(readyQueue')
          /\ currentProcess' \in Pcb \cup {NULL}
          /\ currentProcess' \notin ToSet(readyQueue')
      BY <1>2, DispatchedLemma DEF Dispatched
    <3>2. \A p \in Pcb : p \in ToSet(readyQueue) <=> p \in A
      BY <1>1 DEF Places, Running
    <3>3. \A t \in Sem : IsInjective(procQ'[t])
      BY <1>1, <1>3, <1>4 DEF Places
    <3>. QED  BY <1>4, <3>1, <3>2, <3>3 DEF Moved
  <2>2. \A p \in A : p \notin pcbFree'
    BY <1>1 DEF Running, Places
  <2>3. \A t \in Sem : ToSet(procQ[t]) \subseteq Pcb
    BY <1>1, SeqFacts DEF Types
  <2>4. \A t \in Sem : \A p \in ToSet(procQ'[t]) :
          p_semAdd'[p] = t /\ p \notin pcbFree' /\ p \notin A
    <3> SUFFICES ASSUME NEW t \in Sem, NEW p \in ToSet(procQ'[t])
                 PROVE  p_semAdd'[p] = t /\ p \notin pcbFree' /\ p \notin A
      OBVIOUS
    <3>1. CASE p = c
      BY <1>1, <1>3, <1>4, <3>1 DEF Places
    <3>2. CASE p # c
      <4>1. p \in ToSet(procQ[t]) /\ p \in Pcb
        BY <1>3, <1>4, <2>3, <3>2
      <4>. QED  BY <1>1, <1>4, <3>2, <4>1 DEF Places, Running
    <3>. QED  BY <3>1, <3>2
  <2>5. ASSUME NEW p \in Pcb, p \notin pcbFree'
        PROVE  /\ p \in A \/ \E t \in Sem : p \in ToSet(procQ'[t])
               /\ p_semAdd'[p] \in UserSem => p \in ToSet(procQ'[p_semAdd'[p]])
    <3>1. CASE p = c
      BY <1>3, <1>4, <3>1
    <3>2. CASE p # c
      <4>1. \A t \in Sem : p \in ToSet(procQ[t]) <=> p \in ToSet(procQ'[t])
        BY <1>3, <1>4, <3>2
      <4>2. p \in A \/ \E t \in Sem : p \in ToSet(procQ[t])
        BY <1>1, <2>5, <3>2 DEF Places, Running, Live
      <4>3. p_semAdd[p] \in UserSem => p \in ToSet(procQ[p_semAdd[p]])
        BY <1>1, <2>5 DEF Places, Live
      <4>. QED  BY <1>4, <3>2, <4>1, <4>2, <4>3 DEF Sem
    <3>. QED  BY <3>1, <3>2
  <2>6. pcbFree' \subseteq Pcb
    BY <1>5 DEF Types
  <2> HIDE DEF A
  <2>. QED  BY <2>1, <2>2, <2>4, <2>5, <2>6, PlacesFrom
<1>8. Tree' /\ Calls' /\ Acyclic' /\ ProcessCountExact'
  BY <1>1, TreeFrame DEF pcbVars
<1>9. SemaphoreCountsWaiters'
  <2>1. \A t \in Sem : Len(procQ[t]) \in Nat /\ semVal[t] \in Int
    BY <1>1 DEF Types
  <2>2. UserSem \subseteq Sem /\ Clock \in Sem /\ Clock \notin UserSem
    BY SemAssumption DEF Sem
  <2>3. \A t \in UserSem : Len(procQ'[t]) = IF semVal'[t] < 0 THEN -semVal'[t] ELSE 0
    BY <1>1, <1>3, <1>4, <2>1, <2>2 DEF SemaphoreCountsWaiters
  <2>4. Len(procQ'[Clock]) <= -semVal'[Clock]
    BY <1>1, <1>3, <1>4, <2>1, <2>2 DEF SemaphoreCountsWaiters
  <2>. QED  BY <2>3, <2>4 DEF SemaphoreCountsWaiters
<1>. QED  BY <1>5, <1>6, <1>7, <1>8, <1>9 DEF IInv

(* SYS3: the process blocks, or takes the semaphore.                       *)
LEMMA PasserenStep ==
  ASSUME IInv, NEW s \in UserSem, Passeren(s)
  PROVE  IInv'
<1>1. /\ Types /\ CpuOK /\ Places /\ SemaphoreCountsWaiters
      /\ cpu = "run" /\ heads = <<>> /\ s \in Sem
      /\ semVal' = [semVal EXCEPT ![s] = @ - 1]
      /\ UNCHANGED <<treeVars, busy, heads>>
      /\ ~NoDescriptor(s)
  BY DescriptorLemma DEF IInv, Passeren, CpuOK, Sem, DescriptorAvailable
<1>2. CASE semVal[s] - 1 < 0
  <2>1. Block(s)
    BY <1>1, <1>2 DEF Passeren
  <2>. QED  BY <1>1, <1>2, <2>1, BlockStep
<1>3. CASE ~(semVal[s] - 1 < 0)
  <2>1. UNCHANGED <<pcbFree, p_prnt, p_child, p_supportStruct, processCount, p_semAdd,
                    procQ, softBlockCount, readyQueue, currentProcess, cpu, reg_v0,
                    busy, heads>>
    BY <1>1, <1>3 DEF Passeren, treeVars, pcbVars
  <2>2. /\ \A t \in Sem : semVal'[t] = IF t = s THEN semVal[t] - 1 ELSE semVal[t]
        /\ semVal' \in [Sem -> Int]
    BY <1>1 DEF Types
  <2>3. Types' /\ CpuOK' /\ Places'
    BY <1>1, <2>1, <2>2 DEF Types, CpuOK, Places, Live
  <2>4. SemaphoreCountsWaiters'
    <3>1. \A t \in Sem : semVal[t] \in Int
      BY <1>1 DEF Types
    <3>2. UserSem \subseteq Sem /\ Clock \in Sem /\ Clock \notin UserSem
      BY SemAssumption DEF Sem
    <3>. QED  BY <1>1, <1>3, <2>1, <2>2, <3>1, <3>2 DEF SemaphoreCountsWaiters
  <2>. QED  BY <1>1, <2>1, <2>3, <2>4, TreeFrame DEF IInv, pcbVars
<1>. QED  BY <1>2, <1>3

(* SYS5 and SYS7: the process always blocks, a descriptor being there.     *)
LEMMA WaitForStep ==
  ASSUME IInv, NEW s \in DeviceSem, WaitFor(s)
  PROVE  IInv'
<1>1. /\ cpu = "run" /\ s \in Sem /\ s \notin UserSem
      /\ semVal' = [semVal EXCEPT ![s] = @ - 1]
      /\ UNCHANGED <<treeVars, busy, heads>>
      /\ ~NoDescriptor(s)
  BY DescriptorLemma, SemAssumption
     DEF IInv, WaitFor, Sem, DeviceSem, DescriptorAvailable
<1>2. Block(s)
  BY <1>1 DEF WaitFor
<1>. QED  BY <1>1, <1>2, BlockStep

------------------------------------------------------------------------------
(***************************************************************************)
(* SYS4.                                                                   *)
(***************************************************************************)
LEMMA VerhogenStep ==
  ASSUME IInv, NEW s \in UserSem, Verhogen(s)
  PROVE  IInv'
<1>1. /\ Types /\ CpuOK /\ Places /\ SemaphoreCountsWaiters
      /\ cpu = "run" /\ heads = <<>> /\ s \in Sem /\ heads' = <<>>
      /\ semVal' = [semVal EXCEPT ![s] = @ + 1]
      /\ UNCHANGED <<pcbFree, p_prnt, p_child, p_supportStruct, processCount,
                     currentProcess, busy, cpu, reg_v0>>
  BY DEF IInv, Verhogen, CpuOK, Sem, treeVars, pcbVars
<1>2. /\ \A t \in Sem : semVal'[t] = IF t = s THEN semVal[t] + 1 ELSE semVal[t]
      /\ semVal' \in [Sem -> Int]
  BY <1>1 DEF Types
<1>3. /\ \A t \in Sem : semVal[t] \in Int /\ Len(procQ[t]) \in Nat
      /\ UserSem \subseteq Sem /\ Clock \in Sem /\ Clock \notin UserSem
  BY <1>1, SemAssumption DEF Types, Sem
<1>4. Tree' /\ Calls' /\ Acyclic' /\ ProcessCountExact'
  BY <1>1, TreeFrame DEF pcbVars
<1>5. CASE semVal[s] + 1 <= 0 /\ ~emptyProcQ(procQ[s])
  <2> DEFINE h == headProcQ(procQ[s])  r == removeProcQ(procQ[s])
             rq == insertProcQ(readyQueue, h)
  <2>1. /\ procQ' = [procQ EXCEPT ![s] = r]
        /\ p_semAdd' = [p_semAdd EXCEPT ![h] = NULL]
        /\ readyQueue' = rq
        /\ softBlockCount' = softBlockCount - 1
    BY <1>5 DEF Verhogen
  <2>2. /\ h \in Pcb /\ h \in ToSet(procQ[s]) /\ r \in Seq(Pcb) /\ IsInjective(r)
        /\ h \notin ToSet(r) /\ ToSet(procQ[s]) = ToSet(r) \cup {h}
        /\ Len(r) = Len(procQ[s]) - 1
    <3>1. procQ[s] \in Seq(Pcb) /\ IsInjective(procQ[s])
      BY <1>1 DEF Types, Places
    <3>. QED  BY <1>5, <3>1, RemoveLemma
  <2>3. h \notin ToSet(readyQueue) /\ h # currentProcess
    BY <1>1, <2>2 DEF Places
  <2> HIDE DEF h, r
  <2>4. rq \in Seq(Pcb) /\ IsInjective(rq) /\ ToSet(rq) = ToSet(readyQueue) \cup {h}
    <3>1. readyQueue \in Seq(Pcb) /\ IsInjective(readyQueue)
      BY <1>1 DEF Types, Places
    <3>. QED  BY <2>2, <2>3, <3>1, InsertLemma
  <2> HIDE DEF rq
  <2>5. /\ \A t \in Sem : procQ'[t] = IF t = s THEN r ELSE procQ[t]
        /\ procQ' \in [Sem -> Seq(Pcb)]
        /\ \A p \in Pcb : p_semAdd'[p] = IF p = h THEN NULL ELSE p_semAdd[p]
        /\ p_semAdd' \in [Pcb -> Sem \cup {NULL}]
    BY <1>1, <2>1, <2>2 DEF Types
  <2>6. Types' /\ CpuOK'
    BY <1>1, <1>2, <2>1, <2>4, <2>5 DEF Types, CpuOK
  <2>7. Places'
    <3>1. \A t \in Sem : IsInjective(procQ'[t])
      BY <1>1, <2>2, <2>5 DEF Places
    <3>2. Moved(Running \cup {h})
      BY <1>1, <2>1, <2>2, <2>3, <2>4, <2>5, <3>1 DEF Moved, Running, Types, Places
    <3>3. \A t \in Sem : ToSet(procQ'[t]) = IF t = s THEN ToSet(procQ[t]) \ {h}
                                                   ELSE ToSet(procQ[t])
      BY <2>2, <2>5
    <3>4. {h} \in SUBSET ToSet(procQ[s]) /\ NULL \notin UserSem
      BY <2>2, SemAssumption DEF Sem
    <3>5. \A p \in Pcb : \/ p_semAdd'[p] = p_semAdd[p]
                         \/ p \in {h} /\ p_semAdd'[p] = NULL
      BY <2>5
    <3>6. \A p \in {h} : p_semAdd'[p] \notin UserSem
      BY <2>2, <2>5, <3>4
    <3>. QED  BY <1>1, <3>2, <3>3, <3>4, <3>5, <3>6, PlacesWake
  <2>8. SemaphoreCountsWaiters'
    <3>1. \A t \in UserSem : Len(procQ'[t]) = IF semVal'[t] < 0 THEN -semVal'[t] ELSE 0
      BY <1>1, <1>2, <1>3, <1>5, <2>2, <2>5 DEF SemaphoreCountsWaiters
    <3>. QED  BY <1>1, <1>2, <1>3, <2>5, <3>1 DEF SemaphoreCountsWaiters
  <2>. QED  BY <1>4, <2>6, <2>7, <2>8 DEF IInv
<1>6. CASE ~(semVal[s] + 1 <= 0 /\ ~emptyProcQ(procQ[s]))
  <2>1. UNCHANGED <<procQ, p_semAdd, readyQueue, softBlockCount>>
    BY <1>6 DEF Verhogen
  <2>2. Types' /\ CpuOK' /\ Places'
    BY <1>1, <1>2, <2>1 DEF Types, CpuOK, Places, Live
  <2>3. SemaphoreCountsWaiters'
    <3>1. emptyProcQ(procQ[s]) => Len(procQ[s]) = 0
      BY DEF emptyProcQ
    <3>2. semVal[s] + 1 > 0
      BY <1>1, <1>3, <1>6, <3>1 DEF SemaphoreCountsWaiters
    <3>. QED  BY <1>1, <1>2, <1>3, <2>1, <3>2 DEF SemaphoreCountsWaiters
  <2>. QED  BY <1>4, <2>2, <2>3 DEF IInv
<1>. QED  BY <1>5, <1>6

------------------------------------------------------------------------------
(***************************************************************************)
(* The end of an interrupt that made the processes of W ready.  They were  *)
(* in the queue of device semaphore t, and keep their p_semAdd.            *)
(***************************************************************************)
LEMMA WakeStep ==
  ASSUME IInv, Enabled, NEW t \in DeviceSem, NEW rest \in Seq(Pcb), NEW rq \in Seq(Pcb),
         NEW W \in SUBSET ToSet(procQ[t]), NEW soft \in Int, LoadOrSchedule(rq, soft),
         IsInjective(rest), ToSet(rest) = ToSet(procQ[t]) \ W,
         IsInjective(rq), ToSet(rq) = ToSet(readyQueue) \cup W,
         procQ' = [procQ EXCEPT ![t] = rest],
         softBlockCount' \in Int, semVal' \in [Sem -> Int], busy' \subseteq Device,
         UNCHANGED <<treeVars, p_semAdd, heads>>
  PROVE  Types' /\ CpuOK' /\ Places' /\ Tree' /\ Calls' /\ Acyclic' /\ ProcessCountExact'
<1>1. /\ Types /\ CpuOK /\ Places /\ heads = <<>> /\ heads' = <<>>
      /\ t \in Sem /\ t \notin UserSem
      /\ UNCHANGED <<pcbFree, p_prnt, p_child, p_supportStruct, processCount, p_semAdd>>
  BY SemAssumption DEF IInv, CpuOK, Enabled, Sem, DeviceSem, treeVars, pcbVars
<1>2. currentProcess \notin ToSet(rq)
  BY <1>1 DEF Places
<1>3. Dispatched(rq, {currentProcess}, processCount)
  BY <1>1, <1>2, LoadLemma
<1>4. /\ \A s \in Sem : procQ'[s] = IF s = t THEN rest ELSE procQ[s]
      /\ procQ' \in [Sem -> Seq(Pcb)]
  BY <1>1 DEF Types
<1>5. Types'
  BY <1>1, <1>3, <1>4 DEF Types, Dispatched, Cpu
<1>6. CpuOK'
  BY <1>1, <1>3 DEF CpuOK, Dispatched
<1>7. Places'
  <2>1. \A s \in Sem : IsInjective(procQ'[s])
    BY <1>1, <1>4 DEF Places
  <2>2. /\ \A p \in Pcb : p = currentProcess' \/ p \in ToSet(readyQueue')
                            <=> p \in ToSet(rq) \/ p \in {currentProcess}
        /\ readyQueue' \in Seq(Pcb) /\ IsInjective(readyQueue')
        /\ currentProcess' \in Pcb \cup {NULL}
        /\ currentProcess' \notin ToSet(readyQueue')
    BY <1>3, DispatchedLemma DEF Dispatched
  <2>3. \A p \in Pcb : p \in ToSet(rq) \/ p \in {currentProcess} <=> p \in Running \cup W
    BY DEF Running
  <2>4. Moved(Running \cup W)
    BY <1>4, <2>1, <2>2, <2>3 DEF Moved
  <2>5. \A s \in Sem : ToSet(procQ'[s]) = IF s = t THEN ToSet(procQ[s]) \ W
                                                 ELSE ToSet(procQ[s])
    BY <1>4
  <2>6. \A p \in W : p_semAdd'[p] \notin UserSem
    BY <1>1 DEF Places
  <2>. QED  BY <1>1, <2>4, <2>5, <2>6, PlacesWake
<1>8. Tree' /\ Calls' /\ Acyclic' /\ ProcessCountExact'
  BY <1>1, TreeFrame DEF pcbVars
<1>. QED  BY <1>5, <1>6, <1>7, <1>8

(* Line 2: the whole queue of the pseudo-clock becomes ready.              *)
LEMMA ClockTickStep ==
  ASSUME IInv, ClockTick
  PROVE  IInv'
<1> DEFINE q == procQ[Clock]  rq == readyQueue \o q  W == ToSet(q)
<1>1. /\ Types /\ Places /\ SemaphoreCountsWaiters /\ Enabled
      /\ Clock \in DeviceSem /\ Clock \in Sem
      /\ UserSem \subseteq Sem /\ Clock \notin UserSem
      /\ semVal' = [semVal EXCEPT ![Clock] = 0]
      /\ procQ' = [procQ EXCEPT ![Clock] = <<>>]
      /\ softBlockCount' = softBlockCount - Len(q)
      /\ LoadOrSchedule(rq, softBlockCount - Len(q))
      /\ UNCHANGED <<treeVars, p_semAdd, busy, heads>>
  BY SemAssumption DEF IInv, ClockTick, Sem, DeviceSem, mkEmptyProcQ
<1>2. /\ q \in Seq(Pcb) /\ Len(q) \in Nat /\ softBlockCount - Len(q) \in Int
      /\ semVal' \in [Sem -> Int] /\ busy' \subseteq Device
      /\ IsInjective(q) /\ readyQueue \in Seq(Pcb) /\ IsInjective(readyQueue)
      /\ <<>> \in Seq(Pcb)
  BY <1>1 DEF Types, Places
<1>3. ToSet(readyQueue) \cap W = {}
  BY <1>1 DEF Places
<1>4. rq \in Seq(Pcb) /\ IsInjective(rq) /\ ToSet(rq) = ToSet(readyQueue) \cup W
  BY <1>2, <1>3, ConcatLemma
<1>5. IsInjective(<<>>) /\ ToSet(<<>>) = W \ W
  BY DEF IsInjective, ToSet
<1> HIDE DEF rq, W
<1>6. /\ Types' /\ CpuOK' /\ Places' /\ Tree' /\ Calls' /\ Acyclic'
      /\ ProcessCountExact'
  <2> DEFINE soft == softBlockCount - Len(q)
  <2>1. soft \in Int /\ softBlockCount' \in Int /\ LoadOrSchedule(rq, soft)
    BY <1>1, <1>2
  <2> HIDE DEF soft
  <2>2. W \in SUBSET ToSet(procQ[Clock]) /\ ToSet(<<>>) = ToSet(procQ[Clock]) \ W
    BY <1>5 DEF W
  <2>. QED  BY <1>1, <1>2, <1>4, <1>5, <2>1, <2>2, WakeStep
<1>7. SemaphoreCountsWaiters'
  <2>1. \A t \in UserSem : procQ'[t] = procQ[t] /\ semVal'[t] = semVal[t]
    BY <1>1 DEF Types
  <2>2. procQ'[Clock] = <<>> /\ semVal'[Clock] = 0
    BY <1>1 DEF Types
  <2>. QED  BY <1>1, <2>1, <2>2 DEF SemaphoreCountsWaiters
<1>. QED  BY <1>6, <1>7 DEF IInv

(* Lines 3 to 7: at most one process becomes ready.                        *)
LEMMA DeviceInterruptStep ==
  ASSUME IInv, NEW d \in Device, DeviceInterrupt(d)
  PROVE  IInv'
<1>1. /\ Types /\ Places /\ SemaphoreCountsWaiters /\ Enabled
      /\ d \in DeviceSem /\ d \in Sem /\ d \notin UserSem /\ d # Clock
      /\ UserSem \subseteq Sem /\ Clock \in Sem
      /\ semVal' = [semVal EXCEPT ![d] = @ + 1]
      /\ busy' \subseteq Device
      /\ UNCHANGED <<treeVars, p_semAdd, heads>>
  BY SemAssumption DEF IInv, DeviceInterrupt, Types, Sem, DeviceSem
<1>2. /\ procQ[d] \in Seq(Pcb) /\ IsInjective(procQ[d]) /\ semVal' \in [Sem -> Int]
      /\ readyQueue \in Seq(Pcb) /\ IsInjective(readyQueue) /\ softBlockCount \in Int
      /\ \A s \in Sem : s # d => semVal'[s] = semVal[s]
  BY <1>1 DEF Types, Places
<1>3. CASE semVal[d] + 1 <= 0 /\ ~emptyProcQ(procQ[d])
  <2> DEFINE h == headProcQ(procQ[d])  r == removeProcQ(procQ[d])
             rq == insertProcQ(readyQueue, h)  soft == softBlockCount - 1
  <2>1. /\ procQ' = [procQ EXCEPT ![d] = r]
        /\ softBlockCount' = soft
        /\ LoadOrSchedule(rq, soft)
    BY <1>3 DEF DeviceInterrupt
  <2>2. /\ h \in Pcb /\ h \in ToSet(procQ[d]) /\ r \in Seq(Pcb) /\ IsInjective(r)
        /\ h \notin ToSet(r) /\ ToSet(procQ[d]) = ToSet(r) \cup {h}
    BY <1>2, <1>3, RemoveLemma
  <2>3. h \notin ToSet(readyQueue)
    BY <1>1, <2>2 DEF Places
  <2> HIDE DEF h, r
  <2>4. rq \in Seq(Pcb) /\ IsInjective(rq) /\ ToSet(rq) = ToSet(readyQueue) \cup {h}
    BY <1>2, <2>2, <2>3, InsertLemma
  <2>5. soft \in Int
    BY <1>2
  <2> HIDE DEF rq, soft
  <2>6. /\ Types' /\ CpuOK' /\ Places' /\ Tree' /\ Calls' /\ Acyclic'
        /\ ProcessCountExact'
    <3>1. {h} \in SUBSET ToSet(procQ[d]) /\ ToSet(r) = ToSet(procQ[d]) \ {h}
      BY <2>2
    <3>. QED  BY <1>1, <1>2, <2>1, <2>2, <2>4, <2>5, <3>1, WakeStep
  <2>7. SemaphoreCountsWaiters'
    <3>1. \A s \in Sem : s # d => procQ'[s] = procQ[s]
      BY <1>1, <2>1 DEF Types
    <3>. QED  BY <1>1, <1>2, <3>1 DEF SemaphoreCountsWaiters
  <2>. QED  BY <2>6, <2>7 DEF IInv
<1>4. CASE ~(semVal[d] + 1 <= 0 /\ ~emptyProcQ(procQ[d]))
  <2>1. LoadOrSchedule(readyQueue, softBlockCount) /\ UNCHANGED <<procQ, softBlockCount>>
    BY <1>4 DEF DeviceInterrupt
  <2>2. procQ' = [procQ EXCEPT ![d] = procQ[d]]
    BY <1>1, <2>1 DEF Types
  <2>3. /\ Types' /\ CpuOK' /\ Places' /\ Tree' /\ Calls' /\ Acyclic'
        /\ ProcessCountExact'
    <3>1. /\ {} \in SUBSET ToSet(procQ[d]) /\ ToSet(procQ[d]) = ToSet(procQ[d]) \ {}
          /\ ToSet(readyQueue) = ToSet(readyQueue) \cup {}
      OBVIOUS
    <3>. QED  BY <1>1, <1>2, <2>1, <2>2, <3>1, WakeStep
  <2>4. SemaphoreCountsWaiters'
    BY <1>1, <1>2, <2>1 DEF SemaphoreCountsWaiters
  <2>. QED  BY <2>3, <2>4 DEF IInv
<1>. QED  BY <1>3, <1>4

(* Line 7, a character received: no process moves, except to the processor. *)
LEMMA IgnoredInterruptStep ==
  ASSUME IInv, NEW d \in Device, IgnoredInterrupt(d)
  PROVE  IInv'
<1>1. /\ Types /\ Places /\ Enabled
      /\ d \in DeviceSem /\ d \in Sem
      /\ LoadOrSchedule(readyQueue, softBlockCount)
      /\ UNCHANGED <<treeVars, semVal, procQ, p_semAdd, softBlockCount, busy, heads>>
  BY DEF IInv, IgnoredInterrupt, Sem, DeviceSem, semVars
<1>2. /\ procQ[d] \in Seq(Pcb) /\ IsInjective(procQ[d]) /\ semVal' \in [Sem -> Int]
      /\ readyQueue \in Seq(Pcb) /\ IsInjective(readyQueue) /\ softBlockCount \in Int
      /\ softBlockCount' \in Int /\ busy' \subseteq Device
      /\ procQ' = [procQ EXCEPT ![d] = procQ[d]]
  BY <1>1 DEF Types, Places
<1>3. /\ {} \in SUBSET ToSet(procQ[d]) /\ ToSet(procQ[d]) = ToSet(procQ[d]) \ {}
      /\ ToSet(readyQueue) = ToSet(readyQueue) \cup {}
  OBVIOUS
<1>4. /\ Types' /\ CpuOK' /\ Places' /\ Tree' /\ Calls' /\ Acyclic'
      /\ ProcessCountExact'
  BY <1>1, <1>2, <1>3, WakeStep
<1>. QED  BY <1>1, <1>4, SemFrame DEF IInv

(***************************************************************************)
(* Line 1: the current process becomes the newest ready one.               *)
(***************************************************************************)
LEMMA TimeSliceStep ==
  ASSUME IInv, TimeSlice
  PROVE  IInv'
<1> DEFINE c == currentProcess  rq == insertProcQ(readyQueue, c)
<1>1. /\ Types /\ CpuOK /\ Places /\ heads = <<>> /\ heads' = <<>> /\ c \in Pcb
      /\ scheduler(rq, processCount, softBlockCount)
      /\ UNCHANGED <<pcbFree, p_prnt, p_child, p_supportStruct, processCount, semVal,
                     procQ, p_semAdd, softBlockCount, busy>>
  BY DEF IInv, TimeSlice, Types, CpuOK, treeVars, pcbVars, semVars
<1>2. rq \in Seq(Pcb) /\ IsInjective(rq) /\ ToSet(rq) = ToSet(readyQueue) \cup {c}
  <2>1. readyQueue \in Seq(Pcb) /\ IsInjective(readyQueue) /\ c \notin ToSet(readyQueue)
    BY <1>1 DEF Types, Places
  <2>. QED  BY <1>1, <2>1, InsertLemma
<1> HIDE DEF rq
<1>3. Dispatched(rq, {}, processCount)
  BY <1>1, <1>2, SchedulerLemma DEF Types
<1>4. Types'
  BY <1>1, <1>3 DEF Types, Dispatched, Cpu
<1>5. CpuOK'
  BY <1>1, <1>3 DEF CpuOK, Dispatched
<1>6. Places'
  <2>1. /\ \A p \in Pcb : p = currentProcess' \/ p \in ToSet(readyQueue')
                            <=> p \in ToSet(rq) \/ p \in {}
        /\ readyQueue' \in Seq(Pcb) /\ IsInjective(readyQueue')
        /\ currentProcess' \in Pcb \cup {NULL}
        /\ currentProcess' \notin ToSet(readyQueue')
    BY <1>3, DispatchedLemma DEF Dispatched
  <2>2. Moved(Running \cup {})
    BY <1>1, <1>2, <2>1 DEF Moved, Running, Types, Places
  <2>3. /\ Clock \in Sem /\ {} \in SUBSET ToSet(procQ[Clock])
        /\ \A s \in Sem : ToSet(procQ'[s]) = IF s = Clock THEN ToSet(procQ[s]) \ {}
                                                   ELSE ToSet(procQ[s])
    BY <1>1 DEF Sem
  <2>. QED  BY <1>1, <2>2, <2>3, PlacesWake
<1>7. Tree' /\ Calls' /\ Acyclic' /\ ProcessCountExact'
  BY <1>1, TreeFrame DEF pcbVars
<1>. QED  BY <1>1, <1>4, <1>5, <1>6, <1>7, SemFrame DEF IInv

------------------------------------------------------------------------------
(***************************************************************************)
(* IInv holds in every initial state and is kept by every step.            *)
(***************************************************************************)
LEMMA InitLemma ==
  ASSUME Init
  PROVE  IInv
<1>1. PICK root \in Pcb : currentProcess = root /\ pcbFree = Pcb \ {root}
  BY DEF Init
<1>2. /\ <<>> \in Seq(Pcb) /\ ToSet(<<>>) = {} /\ IsInjective(<<>>) /\ Len(<<>>) = 0
      /\ NULL \notin Pcb /\ IsFiniteSet(Pcb)
  BY PcbAssumption DEF ToSet, IsInjective
<1>3. /\ p_prnt = [p \in Pcb |-> NULL] /\ p_child = [p \in Pcb |-> <<>>]
      /\ p_semAdd = [p \in Pcb |-> NULL] /\ p_supportStruct = [p \in Pcb |-> FALSE]
      /\ readyQueue = <<>> /\ processCount = 1 /\ softBlockCount = 0
      /\ procQ = [s \in Sem |-> <<>>] /\ busy = {} /\ cpu = "run"
      /\ heads = <<>> /\ reg_v0 = NULL
      /\ semVal \in [Sem -> 0 .. MaxSem] /\ \A s \in DeviceSem : semVal[s] = 0
  BY DEF Init, mkEmptyProcQ
<1>4. Types
  <2>1. semVal \in [Sem -> Int]
    BY <1>3, BoundAssumption
  <2>. QED  BY <1>1, <1>2, <1>3, <2>1 DEF Types, Cpu
<1>5. CpuOK
  BY <1>1, <1>2, <1>3 DEF CpuOK
<1>6. Places
  BY <1>1, <1>2, <1>3, SemAssumption DEF Places, Live, Sem
<1>7. Tree
  <2>1. \A p \in Pcb : p_prnt[p] = NULL /\ p_child[p] = <<>>
    BY <1>3
  <2>2. \A p \in Pcb : ToSet(p_child[p]) = {} /\ IsInjective(p_child[p])
    BY <1>2, <2>1
  <2>. QED  BY <1>1, <1>2, <2>1, <2>2 DEF Tree
<1>8. Calls
  BY <1>2, <1>3 DEF Calls
<1>9. Acyclic
  <2>1. PICK d \in [Pcb -> Nat] : TRUE
    <3>1. [p \in Pcb |-> 0] \in [Pcb -> Nat]
      OBVIOUS
    <3>. QED  BY <3>1
  <2>2. Deeper(d)
    BY <1>2, <1>3 DEF Deeper
  <2>. QED  BY <2>1, <2>2 DEF Acyclic
<1>10. ProcessCountExact
  <2>1. Live = {root}
    BY <1>1 DEF Live
  <2>. QED  BY <1>3, <2>1, FS_Singleton DEF ProcessCountExact
<1>11. SemaphoreCountsWaiters
  <2>1. /\ UserSem \subseteq Sem /\ Clock \in Sem /\ Clock \in DeviceSem
        /\ \A s \in UserSem : semVal[s] \in Nat
    BY <1>3, BoundAssumption DEF Sem, DeviceSem
  <2>. QED  BY <1>2, <1>3, <2>1 DEF SemaphoreCountsWaiters
<1>. QED  BY <1>4, <1>5, <1>6, <1>7, <1>8, <1>9, <1>10, <1>11 DEF IInv

(* A step that changes nothing keeps the invariant.                        *)
LEMMA StutterStep ==
  ASSUME IInv, UNCHANGED vars
  PROVE  IInv'
<1>1. /\ Types' /\ CpuOK' /\ Places' /\ Tree' /\ Calls'
      /\ ProcessCountExact' /\ SemaphoreCountsWaiters'
  BY DEF vars, IInv, Types, CpuOK, Places, Tree, Calls, ProcessCountExact,
         SemaphoreCountsWaiters, Live
<1>2. Acyclic'
  <2>1. PICK d \in [Pcb -> Nat] : Deeper(d)
    BY DEF IInv, Acyclic
  <2>2. Deeper(d)'
    BY <2>1 DEF Deeper, vars
  <2>. QED  BY <2>2 DEF Acyclic
<1>. QED  BY <1>1, <1>2 DEF IInv

(* A step that changes only cpu, to "lost", or busy.                       *)
LEMMA OutsideStep ==
  ASSUME IInv, WaitForIO_OutOfRange \/ \E d \in Device : Command(d)
  PROVE  IInv'
<1>1. /\ heads = <<>> /\ currentProcess \in Pcb
      /\ cpu' \in {"run", "lost"} /\ busy' \subseteq Device
      /\ UNCHANGED <<pcbFree, p_prnt, p_child, p_supportStruct, processCount, semVal,
                     procQ, p_semAdd, softBlockCount, heads, readyQueue,
                     currentProcess, reg_v0>>
  BY DEF IInv, Types, CpuOK, WaitForIO_OutOfRange, Command, treeVars, pcbVars, semVars
<1>2. Types' /\ CpuOK' /\ Places'
  BY <1>1, PcbAssumption DEF IInv, Types, CpuOK, Places, Live, Cpu
<1>. QED  BY <1>1, <1>2, TreeFrame, SemFrame DEF IInv, pcbVars

(* Every step of the nucleus keeps the invariant.                          *)
LEMMA NextLemma ==
  ASSUME IInv, [Next]_vars
  PROVE  IInv'
<1>1. CASE Syscall
  <2>1. ASSUME NEW sup \in Support, CreateProcess(sup)  PROVE IInv'
    BY <2>1, CreateProcessStep, SupportAssumption
  <2>2. CASE TerminateProcess
    BY <2>2, TerminateStep DEF TerminateProcess
  <2>3. ASSUME NEW s \in UserSem, Passeren(s) \/ Verhogen(s)  PROVE IInv'
    BY <2>3, PasserenStep, VerhogenStep
  <2>4. ASSUME NEW d \in Device, WaitForIO(d)  PROVE IInv'
    BY <2>4, WaitForStep DEF WaitForIO, DeviceSem
  <2>5. CASE WaitForClock
    BY <2>5, WaitForStep DEF WaitForClock, DeviceSem
  <2>6. CASE WaitForIO_OutOfRange
    BY <2>6, OutsideStep
  <2>. QED  BY <1>1, <2>1, <2>2, <2>3, <2>4, <2>5, <2>6 DEF Syscall
<1>2. CASE Interrupt
  <2>1. ASSUME NEW d \in Device, DeviceInterrupt(d) \/ IgnoredInterrupt(d)  PROVE IInv'
    BY <2>1, DeviceInterruptStep, IgnoredInterruptStep
  <2>. QED  BY <1>2, <2>1, TimeSliceStep, ClockTickStep DEF Interrupt
<1>. QED  BY <1>1, <1>2, Sys2HelperStep, PassupOrDieStep, OutsideStep, StutterStep
          DEF Next, Stopped

(***************************************************************************)
(* IInv is an invariant of the nucleus.                                    *)
(***************************************************************************)
THEOREM Invariance == Spec => []IInv
BY InitLemma, NextLemma, PTL DEF Spec

------------------------------------------------------------------------------
(***************************************************************************)
(* processCount is the number of pcbs in use in every reachable state.     *)
(***************************************************************************)
THEOREM CountExact == Spec => []ProcessCountExact
<1>1. IInv => ProcessCountExact
  BY DEF IInv
<1>. QED  BY <1>1, Invariance, PTL

(***************************************************************************)
(* Every variable keeps its type, and processCount its bounds.             *)
(***************************************************************************)
THEOREM TypeCorrect == Spec => []TypeOK
<1>1. ASSUME IInv  PROVE TypeOK
  <2>1. Live \subseteq Pcb /\ IsFiniteSet(Pcb)
    BY PcbAssumption DEF Live
  <2>2. Cardinality(Live) \in Nat /\ Cardinality(Live) <= MAXPROC
    BY <2>1, FS_Subset, FS_CardinalityType DEF MAXPROC
  <2>3. processCount \in 0 .. MAXPROC
    <3>1. MAXPROC \in Nat
      BY <2>1, FS_CardinalityType DEF MAXPROC
    <3>. QED  BY <1>1, <2>2, <3>1 DEF IInv, ProcessCountExact
  <2>. QED  BY <1>1, <2>3 DEF IInv, Types, CpuOK, TypeOK
<1>. QED  BY <1>1, Invariance, PTL

(***************************************************************************)
(* Every process is current, ready or blocked, once, and no free pcb is.   *)
(***************************************************************************)
THEOREM ProcessesCannotHide == Spec => []NoHiding
<1>1. ASSUME IInv  PROVE NoHiding
  <2>0. Types /\ Places
    BY <1>1 DEF IInv
  <2>1. /\ ToSet(readyQueue) \subseteq Pcb
        /\ \A s \in Sem : ToSet(procQ[s]) \subseteq Pcb
        /\ NULL \notin Pcb
    BY <2>0, SeqFacts, PcbAssumption DEF Types
  <2>2. NoDuplicates
    BY <2>0 DEF Places, NoDuplicates
  <2>3. \A p : p \in Blocked <=> \E s \in Sem : p \in ToSet(procQ[s])
    BY DEF Blocked
  <2>4. OnePlace
    <3>1. currentProcess \notin pcbFree \cup ToSet(readyQueue) \cup Blocked
      BY <2>0, <2>3 DEF Places
    <3>2. pcbFree \cap (ToSet(readyQueue) \cup Blocked) = {}
      BY <2>0, <2>3 DEF Places
    <3>3. ToSet(readyQueue) \cap Blocked = {}
      BY <2>0, <2>3 DEF Places
    <3>4. \A s, t \in Sem : s # t => ToSet(procQ[s]) \cap ToSet(procQ[t]) = {}
      BY <2>0 DEF Places
    <3>. QED  BY <3>1, <3>2, <3>3, <3>4 DEF OnePlace
  <2>5. SomePlace
    <3>1. Live \subseteq ({currentProcess} \ {NULL}) \cup ToSet(readyQueue) \cup Blocked
      BY <2>0, <2>1, <2>3 DEF Places, Live
    <3>2. ({currentProcess} \ {NULL}) \cup ToSet(readyQueue) \cup Blocked \subseteq Live
      BY <2>0, <2>1, <2>3 DEF Places, Live, Types
    <3>. QED  BY <3>1, <3>2 DEF SomePlace
  <2>. QED  BY <2>2, <2>4, <2>5 DEF NoHiding
<1>. QED  BY <1>1, Invariance, PTL

(***************************************************************************)
(* The process tree is consistent.  That no set of pcbs is closed under    *)
(* p_prnt follows from a pcb of least depth in it.                         *)
(***************************************************************************)
THEOREM TreeIsConsistent == Spec => []TreeConsistent
<1>1. ASSUME IInv  PROVE TreeConsistent
  <2>1. Tree
    BY <1>1 DEF IInv
  <2>2. ASSUME NEW S \in (SUBSET Pcb) \ {{}}  PROVE \E p \in S : p_prnt[p] \notin S
    <3>1. PICK d \in [Pcb -> Nat] : Deeper(d)
      BY <1>1 DEF IInv, Acyclic
    <3> DEFINE T == {d[p] : p \in S}
    <3>2. T \subseteq Nat /\ T # {}
      BY <2>2, <3>1
    <3>3. PICK x \in T : \A y \in T : ~(<<y, x>> \in OpToRel(<, Nat))
      <4> HIDE DEF T
      <4>. QED  BY <3>2, WFMin, NatLessThanWellFounded
    <3>4. \A y \in T : ~(y < x)
      BY <3>2, <3>3 DEF OpToRel
    <3>5. PICK p \in S : d[p] = x
      BY <3>3
    <3>6. p_prnt[p] \in S => d[p_prnt[p]] < d[p]
      BY <2>2, <3>1, PcbAssumption DEF Deeper
    <3>. QED  BY <3>4, <3>5, <3>6
  <2>. QED  BY <2>1, <2>2 DEF Tree, TreeConsistent
<1>. QED  BY <1>1, Invariance, PTL

(***************************************************************************)
(* The value of a semaphore and its waiting processes agree.               *)
(***************************************************************************)
THEOREM SemaphoresCount == Spec => []SemaphoreCountsWaiters
<1>1. IInv => SemaphoreCountsWaiters
  BY DEF IInv
<1>. QED  BY <1>1, Invariance, PTL

(***************************************************************************)
(* p_semAdd leads to the queue of every blocked process, and no process    *)
(* that is not blocked has the semaphore of a program there.               *)
(***************************************************************************)
THEOREM SemAddIsReliable == Spec => []SemAddReliable
<1>1. ASSUME IInv  PROVE SemAddReliable
  <2>0. Types /\ Places
    BY <1>1 DEF IInv
  <2>1. \A p : p \in Blocked <=> \E s \in Sem : p \in ToSet(procQ[s])
    BY DEF Blocked
  <2>2. \A s \in Sem : \A p \in ToSet(procQ[s]) : p_semAdd[p] = s
    BY <2>0 DEF Places
  <2>3. \A p \in Live \ Blocked : p_semAdd[p] \in DeviceSem \cup {NULL}
    BY <2>0, <2>1 DEF Places, Types, Live, Sem, DeviceSem
  <2>. QED  BY <2>2, <2>3 DEF SemAddReliable
<1>. QED  BY <1>1, Invariance, PTL

(***************************************************************************)
(* MAXPROC descriptors are enough: insertBlocked never fails.              *)
(***************************************************************************)
THEOREM DescriptorsSuffice == Spec => []DescriptorAvailable
<1>1. IInv => DescriptorAvailable
  BY DescriptorLemma DEF IInv
<1>. QED  BY <1>1, Invariance, PTL

(***************************************************************************)
(* The processor idles or panics only when every process is blocked, and   *)
(* halts only when there is no process.                                    *)
(***************************************************************************)
THEOREM IdleRulesHold == Spec => []IdleRules
<1>1. ASSUME IInv  PROVE IdleRules
  <2>0. Types /\ CpuOK /\ Places /\ ProcessCountExact
    BY <1>1 DEF IInv
  <2>1. /\ \A p : p \in Blocked <=> \E s \in Sem : p \in ToSet(procQ[s])
        /\ \A s \in Sem : ToSet(procQ[s]) \subseteq Pcb
        /\ NULL \notin Pcb /\ ToSet(<<>>) = {}
    BY <2>0, SeqFacts, PcbAssumption DEF Types, Blocked, ToSet
  <2>2. IsFiniteSet(Live) /\ (Cardinality(Live) = 0 <=> Live = {})
    <3>1. IsFiniteSet(Live)
      BY FS_Subset, PcbAssumption DEF Live
    <3>. QED  BY <3>1, FS_EmptySet
  <2>3. ASSUME cpu \in {"wait", "panic"}  PROVE Live # {} /\ Live = Blocked
    <3>1. Live # {}
      BY <2>0, <2>2, <2>3 DEF CpuOK, ProcessCountExact
    <3>2. Live \subseteq Blocked
      BY <2>0, <2>1, <2>3 DEF CpuOK, Places, Live
    <3>3. Blocked \subseteq Live
      BY <2>0, <2>1 DEF Places, Live
    <3>. QED  BY <3>1, <3>2, <3>3
  <2>4. cpu = "halt" => Live = {}
    BY <2>0, <2>2 DEF CpuOK, ProcessCountExact
  <2>. QED  BY <2>3, <2>4 DEF IdleRules
<1>. QED  BY <1>1, Invariance, PTL

------------------------------------------------------------------------------
(***************************************************************************)
(* A step that frees no pcb and cuts no link, outside of sys2Helper,       *)
(* spares every process.                                                   *)
(***************************************************************************)
LEMMA SparedOutside ==
  ASSUME NEW S \in SUBSET Pcb, InHand(S), cpu \notin {"kill", "trap"},
         UNCHANGED <<pcbFree, p_prnt>>
  PROVE  \A p \in Live \ S : Spared(p)
  BY DEF Spared, Live

(***************************************************************************)
(* The scheduler takes a process out of the ready queue by making it the   *)
(* current one, and starts no termination.                                 *)
(***************************************************************************)
LEMMA ScheduledPlace ==
  ASSUME NEW n, NEW soft, readyQueue \in Seq(Pcb), scheduler(readyQueue, n, soft)
  PROVE  /\ cpu' \notin {"kill", "trap"}
         /\ \A p \in Pcb : p \in ToSet(readyQueue) <=>
                             p \in ToSet(readyQueue') \cup {currentProcess'}
<1>1. CASE emptyProcQ(readyQueue)
  <2>1. readyQueue = <<>> /\ readyQueue' = <<>> /\ currentProcess' = NULL
    BY <1>1 DEF scheduler, emptyProcQ
  <2>2. ToSet(<<>>) = {}
    BY DEF ToSet
  <2>3. cpu' \notin {"kill", "trap"}
    BY <1>1 DEF scheduler
  <2>. QED  BY <2>1, <2>2, <2>3, PcbAssumption
<1>2. CASE ~emptyProcQ(readyQueue)
  <2>1. /\ currentProcess' = headProcQ(readyQueue) /\ cpu' = "run"
        /\ readyQueue' = removeProcQ(readyQueue)
    BY <1>2 DEF scheduler
  <2>2. ToSet(readyQueue) = ToSet(removeProcQ(readyQueue)) \cup {headProcQ(readyQueue)}
    BY <1>2, RemoveLemma
  <2>. QED  BY <2>1, <2>2
<1>. QED  BY <1>1, <1>2

(***************************************************************************)
(* Releasing a process without children frees that process and cuts its    *)
(* link only, ...                                                          *)
(***************************************************************************)
LEMMA ReleaseSpares ==
  ASSUME IInv, currentProcess \in Pcb, p_child[currentProcess] = <<>>, ReleaseCurrent,
         NEW S \in SUBSET Pcb, InHand(S)
  PROVE  (\A p \in Live \ S : Spared(p)) /\ cpu' \notin {"kill", "trap"}
<1>1. /\ currentProcess \in S /\ readyQueue \in Seq(Pcb)
      /\ p_prnt \in [Pcb -> Pcb \cup {NULL}] /\ NULL \notin Pcb
  BY PcbAssumption DEF IInv, Types, InHand
<1>2. /\ pcbFree' = pcbFree \cup {currentProcess}
      /\ p_prnt' = [p_prnt EXCEPT ![currentProcess] = NULL]
      /\ procQ' = procQ
      /\ scheduler(readyQueue, processCount - 1, softBlockCount)
  BY DEF ReleaseCurrent, outChildAndFree, semVars
<1>3. /\ cpu' \notin {"kill", "trap"}
      /\ \A p \in Pcb : p \in ToSet(readyQueue) <=>
                          p \in ToSet(readyQueue') \cup {currentProcess'}
  BY <1>1, <1>2, ScheduledPlace
<1>. QED  BY <1>1, <1>2, <1>3 DEF Spared, Live

(***************************************************************************)
(* ... SYS2 for any other process does nothing yet but name it as the      *)
(* first to search, ...                                                    *)
(***************************************************************************)
LEMMA TerminateSpares ==
  ASSUME IInv, currentProcess \in Pcb, terminateProcess,
         NEW S \in SUBSET Pcb, InHand(S)
  PROVE  (\A p \in Live \ S : Spared(p)) /\ (cpu' \in {"kill", "trap"} => InHand(S)')
<1>1. CASE p_child[currentProcess] = <<>>
  BY <1>1, ReleaseSpares DEF terminateProcess
<1>2. CASE p_child[currentProcess] # <<>>
  <2>1. /\ heads' = <<currentProcess>>
        /\ UNCHANGED <<pcbFree, p_prnt, p_child, procQ, readyQueue, currentProcess>>
    BY <1>2 DEF terminateProcess, treeVars, pcbVars, semVars
  <2>2. ToSet(<<currentProcess>>) = {currentProcess}
    BY DEF ToSet
  <2>3. InHand(S)'
    BY <2>1, <2>2, PcbAssumption DEF InHand
  <2>4. \A p \in Live \ S : Spared(p)
    BY <2>1, PcbAssumption DEF Spared, InHand, Live
  <2>. QED  BY <2>3, <2>4
<1>. QED  BY <1>1, <1>2

(***************************************************************************)
(* ... and so each step of sys2Helper touches the process it has reached   *)
(* or that process's first child: both are progeny of the current process. *)
(***************************************************************************)
LEMMA KillSpares ==
  ASSUME IInv, Sys2Helper, NEW S \in SUBSET Pcb, InHand(S)
  PROVE  (\A p \in Live \ S : Spared(p)) /\ (cpu' \in {"kill", "trap"} => InHand(S)')
<1>0. /\ cpu = "kill" /\ currentProcess \in Pcb /\ head \in Pcb
      /\ head = heads[Len(heads)] /\ Len(heads) \in Nat \ {0}
      /\ heads \in Seq(Pcb)
      /\ p_child \in [Pcb -> Seq(Pcb)] /\ p_prnt \in [Pcb -> Pcb \cup {NULL}]
      /\ procQ \in [Sem -> Seq(Pcb)] /\ readyQueue \in Seq(Pcb)
      /\ IsInjective(readyQueue) /\ \A s \in Sem : IsInjective(procQ[s])
  BY HeadFacts DEF Sys2Helper, KillChild, KillBlocked, KillStale,
     KillReady, KillCurrent, KillSelf, IInv, Types, Places
<1>1. /\ currentProcess \in S /\ ToSet(heads) \subseteq S /\ head \in S
      /\ \A p \in S : ToSet(p_child[p]) \subseteq S
  <2>1. Len(heads) \in 1 .. Len(heads)
    BY <1>0
  <2>2. head \in ToSet(heads)
    BY <1>0, <2>1, SeqFacts
  <2>. QED  BY <1>0, <2>2, PcbAssumption DEF InHand
<1>f. ASSUME FreeHead, procQ \in [Sem -> Seq(Pcb)],
             \A s \in Sem : ToSet(procQ'[s]) \cup {head} = ToSet(procQ[s]) \cup {head},
             ToSet(readyQueue') \cup {head} = ToSet(readyQueue) \cup {head}
      PROVE  (\A p \in Live \ S : Spared(p)) /\ InHand(S)'
  <2>1. /\ pcbFree' = pcbFree \cup {head} /\ heads' = Front(heads)
        /\ UNCHANGED <<p_prnt, p_child, currentProcess>>
    BY <1>f DEF FreeHead
  <2>2. ToSet(Front(heads)) \subseteq ToSet(heads)
    <3> DEFINE n == Len(heads)
               f == Front(heads)
    <3>1. n \in Nat /\ n # 0
      BY <1>0
    <3>2. f \in Seq(Pcb) /\ Len(f) = n - 1 /\ \A k \in 1 .. n - 1 : f[k] = heads[k]
      BY <1>0, <3>1, FrontLemma
    <3>3. \A k \in 1 .. n - 1 : k \in 1 .. n
      BY <3>1
    <3> HIDE DEF f
    <3>4. \A x \in ToSet(f) : \E k \in 1 .. n - 1 : f[k] = x
      BY <3>2, SeqFacts
    <3>5. \A k \in 1 .. n : heads[k] \in ToSet(heads)
      BY <1>0, SeqFacts
    <3> HIDE DEF n
    <3>6. ToSet(f) \subseteq ToSet(heads)
      BY <3>2, <3>3, <3>4, <3>5
    <3>. QED  BY <3>6 DEF f
  <2>3. InHand(S)'
    BY <1>1, <2>1, <2>2 DEF InHand
  <2>4. \A p \in Live \ S : Spared(p)
    BY <1>0, <1>1, <1>f, <2>1 DEF Spared, Live
  <2>. QED  BY <2>3, <2>4
<1>2. CASE KillChild
  <2> DEFINE son == Head(p_child[head])
  <2>1. /\ p_child[head] # <<>> /\ heads' = Append(heads, son)
        /\ p_child' = [p_child EXCEPT ![head] = Tail(@)]
        /\ p_prnt' = [p_prnt EXCEPT ![son] = NULL]
        /\ UNCHANGED <<pcbFree, procQ, readyQueue, currentProcess>>
    BY <1>2 DEF KillChild, semVars
  <2>2. son \in ToSet(p_child[head]) /\ son \in Pcb
        /\ ToSet(Tail(p_child[head])) \subseteq ToSet(p_child[head])
    BY <1>0, <2>1, RemoveLemma DEF emptyProcQ, headProcQ, removeProcQ
  <2>3. son \in S
    BY <1>1, <2>2
  <2> HIDE DEF son
  <2>4. ToSet(heads') = ToSet(heads) \cup {son}
    BY <1>0, <2>1, <2>2, InsertLemma DEF insertProcQ
  <2>5. InHand(S)'
    BY <1>0, <1>1, <2>1, <2>2, <2>3, <2>4 DEF InHand
  <2>6. \A p \in Live \ S : Spared(p)
    BY <1>0, <1>1, <2>1, <2>3 DEF Spared, Live
  <2>. QED  BY <2>5, <2>6
<1>3. CASE KillBlocked
  <2>1. PICK s \in Sem : procQ' = [procQ EXCEPT ![s] = outProcQ(@, head)]
    BY <1>3 DEF KillBlocked
  <2>2. ToSet(outProcQ(procQ[s], head)) = ToSet(procQ[s]) \ {head}
    BY <1>0, OutLemma
  <2>3. \A t \in Sem : ToSet(procQ'[t]) \cup {head} = ToSet(procQ[t]) \cup {head}
    BY <1>0, <2>1, <2>2
  <2>. QED  BY <1>0, <1>3, <2>3, <1>f DEF KillBlocked
<1>4. CASE KillReady
  <2>1. ToSet(outProcQ(readyQueue, head)) = ToSet(readyQueue) \ {head}
    BY <1>0, OutLemma
  <2>2. /\ ToSet(readyQueue') \cup {head} = ToSet(readyQueue) \cup {head}
        /\ \A t \in Sem : ToSet(procQ'[t]) \cup {head} = ToSet(procQ[t]) \cup {head}
    BY <1>4, <2>1 DEF KillReady
  <2>. QED  BY <1>0, <1>4, <2>2, <1>f DEF KillReady
<1>5. CASE KillStale
  <2>1. heads' = <<>> /\ UNCHANGED <<pcbFree, p_prnt, p_child, procQ, readyQueue, currentProcess>>
    BY <1>5 DEF KillStale, treeVars, pcbVars
  <2>2. ToSet(<<>>) = {}
    BY DEF ToSet
  <2>3. InHand(S)'
    BY <1>1, <2>1, <2>2 DEF InHand
  <2>4. \A p \in Live \ S : Spared(p)
    BY <1>1, <2>1 DEF Spared, Live
  <2>. QED  BY <2>3, <2>4
<1>6. CASE KillCurrent
  BY <1>0, <1>6, ReleaseSpares DEF KillCurrent, KillSelf
<1>. QED  BY <1>2, <1>3, <1>4, <1>5, <1>6 DEF Sys2Helper

(***************************************************************************)
(* SYS1 takes a pcb that was free and makes it a child.                    *)
(***************************************************************************)
LEMMA CreateSpares ==
  ASSUME IInv, NEW sup, CreateProcess(sup), NEW S \in SUBSET Pcb, InHand(S)
  PROVE  (\A p \in Live \ S : Spared(p)) /\ cpu' \notin {"kill", "trap"}
<1>1. cpu = "run" /\ cpu' = cpu
  BY DEF CreateProcess
<1>2. p_prnt \in [Pcb -> Pcb \cup {NULL}]
  BY DEF IInv, Types
<1>3. \/ UNCHANGED <<pcbFree, p_prnt>>
      \/ \E son \in pcbFree : /\ pcbFree' = pcbFree \ {son}
                              /\ p_prnt' = [p_prnt EXCEPT ![son] = currentProcess]
  BY DEF CreateProcess, treeVars, pcbVars
<1>. QED  BY <1>1, <1>2, <1>3 DEF Spared, Live

(***************************************************************************)
(* No termination begins or goes on where the scheduler is called, ...     *)
(***************************************************************************)
LEMMA ScheduledCpu ==
  ASSUME NEW rq, NEW n, NEW soft, scheduler(rq, n, soft)
  PROVE  cpu' \notin {"kill", "trap"}
  BY DEF scheduler

(***************************************************************************)
(* ... nor where an interrupt returns to the process it interrupted, ...   *)
(***************************************************************************)
LEMMA LoadedCpu ==
  ASSUME NEW rq, NEW soft, cpu \notin {"kill", "trap"}, LoadOrSchedule(rq, soft)
  PROVE  cpu' \notin {"kill", "trap"}
  BY ScheduledCpu DEF LoadOrSchedule

(***************************************************************************)
(* ... and so none of P, V, the waits, the commands and the interrupts     *)
(* frees a process or cuts a link.                                         *)
(***************************************************************************)
LEMMA OthersTerminateNone ==
  ASSUME \/ \E s \in UserSem : Passeren(s) \/ Verhogen(s)
         \/ \E d \in Device : WaitForIO(d) \/ Command(d)
         \/ WaitForClock \/ WaitForIO_OutOfRange
         \/ Interrupt
  PROVE  /\ cpu \notin {"kill", "trap"} /\ cpu' \notin {"kill", "trap"}
         /\ UNCHANGED <<pcbFree, p_prnt>>
<1>1. ASSUME NEW s, Passeren(s) \/ Verhogen(s) \/ WaitFor(s)
      PROVE  /\ cpu \notin {"kill", "trap"} /\ cpu' \notin {"kill", "trap"}
             /\ UNCHANGED <<pcbFree, p_prnt>>
  <2>1. cpu = "run" /\ UNCHANGED <<pcbFree, p_prnt>>
    BY <1>1 DEF Passeren, Verhogen, WaitFor, treeVars, pcbVars
  <2>2. cpu' = cpu \/ cpu' = "lost" \/ Block(s)
    BY <1>1 DEF Passeren, Verhogen, WaitFor
  <2>3. ASSUME Block(s)  PROVE cpu' \notin {"kill", "trap"}
    BY <2>3, ScheduledCpu DEF Block
  <2>. QED  BY <2>1, <2>2, <2>3
<1>2. ASSUME (\E d \in Device : Command(d)) \/ WaitForIO_OutOfRange
      PROVE  /\ cpu \notin {"kill", "trap"} /\ cpu' \notin {"kill", "trap"}
             /\ UNCHANGED <<pcbFree, p_prnt>>
  BY <1>2 DEF Command, WaitForIO_OutOfRange, treeVars, pcbVars
<1>3. ASSUME Interrupt
      PROVE  /\ cpu \notin {"kill", "trap"} /\ cpu' \notin {"kill", "trap"}
             /\ UNCHANGED <<pcbFree, p_prnt>>
  <2>1. CASE TimeSlice
    BY <2>1, ScheduledCpu DEF TimeSlice, treeVars, pcbVars
  <2>2. CASE ClockTick
    BY <2>2, LoadedCpu DEF ClockTick, Enabled, treeVars, pcbVars
  <2>3. ASSUME NEW d \in Device, DeviceInterrupt(d) \/ IgnoredInterrupt(d)
        PROVE  /\ cpu \notin {"kill", "trap"} /\ cpu' \notin {"kill", "trap"}
               /\ UNCHANGED <<pcbFree, p_prnt>>
    <3>1. \E rq, soft : LoadOrSchedule(rq, soft)
      BY <2>3 DEF DeviceInterrupt, IgnoredInterrupt
    <3>2. cpu \notin {"kill", "trap"} /\ UNCHANGED <<pcbFree, p_prnt>>
      BY <2>3 DEF DeviceInterrupt, IgnoredInterrupt, Enabled, treeVars, pcbVars
    <3>. QED  BY <3>1, <3>2, LoadedCpu
  <2>. QED  BY <1>3, <2>1, <2>2, <2>3 DEF Interrupt
<1>. QED  BY <1>1, <1>2, <1>3 DEF WaitForIO, WaitForClock

(***************************************************************************)
(* SYS2 and an exception nobody handles terminate the current process and  *)
(* its progeny, and nobody else; no other step terminates anybody.         *)
(***************************************************************************)
THEOREM OnlyProgenyDies == Spec => KillsOnlyProgeny
<1>1. ASSUME IInv, [Next]_vars, NEW S \in SUBSET Pcb, InHand(S)
      PROVE  /\ \A p \in Live \ S : Spared(p)
             /\ cpu' \in {"kill", "trap"} => InHand(S)'
  <2>1. CASE Sys2Helper
    BY <1>1, <2>1, KillSpares
  <2>2. CASE TerminateProcess
    BY <1>1, <2>2, TerminateSpares DEF TerminateProcess, IInv, Types, CpuOK
  <2>3. CASE passupOrDie
    <3>1. CASE p_supportStruct[currentProcess]
      <4>1. cpu' = "run" /\ UNCHANGED <<pcbFree, p_prnt, procQ, readyQueue, currentProcess>>
        BY <2>3, <3>1 DEF passupOrDie, treeVars, pcbVars, semVars
      <4>2. currentProcess \in S
        BY <1>1, <2>3 DEF passupOrDie, IInv, CpuOK, InHand
      <4>. QED  BY <4>1, <4>2 DEF Spared, Live
    <3>2. CASE ~p_supportStruct[currentProcess]
      BY <1>1, <2>3, <3>2, TerminateSpares DEF passupOrDie, IInv, Types, CpuOK
    <3>. QED  BY <3>1, <3>2
  <2>4. ASSUME NEW sup \in Support, CreateProcess(sup)
        PROVE  (\A p \in Live \ S : Spared(p)) /\ cpu' \notin {"kill", "trap"}
    BY <1>1, <2>4, CreateSpares
  <2>5. CASE UNCHANGED vars
    <3>1. UNCHANGED <<pcbFree, p_prnt, p_child, procQ, readyQueue, currentProcess, cpu, heads>>
      BY <2>5 DEF vars
    <3>2. cpu \in {"kill", "trap"} => currentProcess \in S
      BY <1>1 DEF IInv, CpuOK, InHand
    <3>. QED  BY <1>1, <3>1, <3>2 DEF Spared, Live, InHand
  <2>6. ASSUME \/ \E s \in UserSem : Passeren(s) \/ Verhogen(s)
               \/ \E d \in Device : WaitForIO(d) \/ Command(d)
               \/ WaitForClock \/ WaitForIO_OutOfRange
               \/ Interrupt
        PROVE  /\ \A p \in Live \ S : Spared(p)
               /\ cpu' \notin {"kill", "trap"}
    BY <1>1, <2>6, OthersTerminateNone, SparedOutside
  <2>7. CASE Stopped
    BY <2>5, <2>7 DEF Stopped
  <2>. QED  BY <1>1, <2>1, <2>2, <2>3, <2>4, <2>5, <2>6, <2>7 DEF Next, Syscall
<1>2. ASSUME IInv, [Next]_vars
      PROVE  [\A S \in SUBSET Pcb : InHand(S) =>
                /\ \A p \in Live \ S : Spared(p)
                /\ cpu' \in {"kill", "trap"} => InHand(S)']_vars
  BY <1>1, <1>2
<1>. QED  BY <1>2, Invariance, PTL DEF Spec, KillsOnlyProgeny

------------------------------------------------------------------------------
(***************************************************************************)
(* The blocked processes are finitely many pcbs.                           *)
(***************************************************************************)
LEMMA BlockedFacts ==
  ASSUME Types
  PROVE  /\ \A p : p \in Blocked <=> \E s \in Sem : p \in ToSet(procQ[s])
         /\ Blocked \subseteq Pcb
         /\ IsFiniteSet(Blocked) /\ Cardinality(Blocked) \in Nat
<1>1. \A p : p \in Blocked <=> \E s \in Sem : p \in ToSet(procQ[s])
  BY DEF Blocked
<1>2. \A s \in Sem : ToSet(procQ[s]) \subseteq Pcb
  BY SeqFacts DEF Types
<1>3. Blocked \subseteq Pcb
  BY <1>1, <1>2
<1>4. IsFiniteSet(Blocked)
  BY <1>3, PcbAssumption, FS_Subset
<1>. QED  BY <1>1, <1>3, <1>4, FS_CardinalityType

(***************************************************************************)
(* The count and the number of blocked processes stay apart as they are    *)
(* when neither changes, ...                                               *)
(***************************************************************************)
LEMMA SameDrift ==
  ASSUME UNCHANGED <<procQ, softBlockCount>>
  PROVE  Drift' = Drift
  BY DEF Drift, Blocked

(***************************************************************************)
(* ... when the current process, which is in no queue, joins one, ...      *)
(***************************************************************************)
LEMMA BlockDrift ==
  ASSUME IInv, cpu = "run", NEW s \in Sem, Block(s)
  PROVE  Drift' = Drift
<1>1. /\ Types /\ Places /\ currentProcess \in Pcb /\ softBlockCount \in Int
      /\ procQ' = [procQ EXCEPT ![s] = insertProcQ(@, currentProcess)]
      /\ softBlockCount' = softBlockCount + 1
  BY DEF IInv, Types, CpuOK, Block
<1>2. ToSet(insertProcQ(procQ[s], currentProcess)) = ToSet(procQ[s]) \cup {currentProcess}
  <2>1. procQ[s] \in Seq(Pcb)
    BY <1>1 DEF Types
  <2>. QED  BY <1>1, <2>1, InsertLemma
<1>3. \A p : p \in Blocked <=> \E t \in Sem : p \in ToSet(procQ[t])
  BY <1>1, BlockedFacts
<1>4. \A p : p \in Blocked' <=> \E t \in Sem : p \in ToSet(procQ'[t])
  BY DEF Blocked
<1>5. Blocked' = Blocked \cup {currentProcess} /\ currentProcess \notin Blocked
  <2>1. currentProcess \notin Blocked
    BY <1>1, <1>3 DEF Places
  <2>2. procQ'[s] = insertProcQ(procQ[s], currentProcess)
        /\ \A t \in Sem : t # s => procQ'[t] = procQ[t]
    BY <1>1 DEF Types
  <2>. QED  BY <1>2, <1>3, <1>4, <2>1, <2>2
<1>6. Cardinality(Blocked') = Cardinality(Blocked) + 1 /\ Cardinality(Blocked) \in Nat
  BY <1>1, <1>5, BlockedFacts, FS_AddElement
<1>. QED  BY <1>1, <1>6 DEF Drift

(***************************************************************************)
(* (as many as leave the queue of one semaphore are no longer blocked, for *)
(* they are in no other)                                                   *)
(***************************************************************************)
LEMMA WakeCount ==
  ASSUME IInv, NEW s \in Sem, NEW q, NEW W \in SUBSET ToSet(procQ[s]),
         procQ' = [procQ EXCEPT ![s] = q], ToSet(q) = ToSet(procQ[s]) \ W
  PROVE  /\ Cardinality(Blocked') = Cardinality(Blocked) - Cardinality(W)
         /\ Cardinality(Blocked) \in Nat /\ Cardinality(W) \in Nat
<1>1. Types /\ Places
  BY DEF IInv
<1>2. \A p : p \in Blocked <=> \E t \in Sem : p \in ToSet(procQ[t])
  BY <1>1, BlockedFacts
<1>3. \A p : p \in Blocked' <=> \E t \in Sem : p \in ToSet(procQ'[t])
  BY DEF Blocked
<1>4. \A t \in Sem : ToSet(procQ'[t]) = ToSet(procQ[t]) \ W
  <2>1. ASSUME NEW t \in Sem, t # s  PROVE ToSet(procQ[t]) \cap W = {}
    BY <1>1, <2>1 DEF Places
  <2>. QED  BY <1>1, <2>1 DEF Types
<1>5. Blocked' = Blocked \ W /\ W \subseteq Blocked
  BY <1>2, <1>3, <1>4
<1>6. IsFiniteSet(Blocked) /\ IsFiniteSet(W) /\ IsFiniteSet(Blocked') /\ Cardinality(Blocked) \in Nat
  BY <1>1, <1>5, BlockedFacts, FS_Subset
<1>7. Cardinality(W) \in Nat /\ Cardinality(Blocked') \in Nat
  BY <1>6, FS_CardinalityType
<1>8. Blocked = Blocked' \cup W /\ Blocked' \cap W = {}
  BY <1>5
<1>9. Cardinality(Blocked' \cup W) = Cardinality(Blocked') + Cardinality(W) - Cardinality(Blocked' \cap W)
  BY <1>6, FS_Union
<1>10. Cardinality(Blocked) = Cardinality(Blocked') + Cardinality(W) - 0
  BY <1>8, <1>9, FS_EmptySet
<1>11. \A a, b, c \in Nat : a = b + c - 0 => b = a - c
  OBVIOUS
<1>. QED  BY <1>6, <1>7, <1>10, <1>11

(***************************************************************************)
(* ... when V or a device's interrupt wakes the oldest process, ...        *)
(***************************************************************************)
LEMMA WakeFirst ==
  ASSUME IInv, NEW s \in Sem, ~emptyProcQ(procQ[s]),
         procQ' = [procQ EXCEPT ![s] = removeProcQ(@)],
         softBlockCount' = softBlockCount - 1
  PROVE  Drift' = Drift
<1> DEFINE W == {headProcQ(procQ[s])}
<1>1. procQ[s] \in Seq(Pcb) /\ IsInjective(procQ[s]) /\ softBlockCount \in Int
  BY DEF IInv, Types, Places
<1>2. W \in SUBSET ToSet(procQ[s]) /\ ToSet(removeProcQ(procQ[s])) = ToSet(procQ[s]) \ W
  <2>1. /\ headProcQ(procQ[s]) \in ToSet(procQ[s])
        /\ ToSet(procQ[s]) = ToSet(removeProcQ(procQ[s])) \cup {headProcQ(procQ[s])}
        /\ headProcQ(procQ[s]) \notin ToSet(removeProcQ(procQ[s]))
    BY <1>1, RemoveLemma
  <2>. QED  BY <2>1
<1>3. Cardinality(W) = 1
  BY FS_Singleton
<1> HIDE DEF W
<1>4. Cardinality(Blocked') = Cardinality(Blocked) - 1 /\ Cardinality(Blocked) \in Nat
  BY <1>2, <1>3, WakeCount
<1>. QED  BY <1>1, <1>4 DEF Drift

(***************************************************************************)
(* ... and when the interval timer wakes as many as its queue is long.     *)
(***************************************************************************)
LEMMA ClockDrift ==
  ASSUME IInv, ClockTick
  PROVE  Drift' = Drift
<1> DEFINE q == procQ[Clock]  W == ToSet(q)
<1>1. /\ q \in Seq(Pcb) /\ IsInjective(q) /\ softBlockCount \in Int /\ Clock \in Sem
      /\ Len(q) \in Nat
  BY DEF IInv, Types, Places, Sem
<1>2. Cardinality(W) = Len(q)
  BY <1>1, LenLemma
<1>3. /\ procQ' = [procQ EXCEPT ![Clock] = <<>>]
      /\ softBlockCount' = softBlockCount - Len(q)
  BY DEF ClockTick, mkEmptyProcQ
<1>4. W \in SUBSET ToSet(procQ[Clock]) /\ ToSet(<<>>) = ToSet(procQ[Clock]) \ W
  BY DEF ToSet
<1>5. Cardinality(Blocked') = Cardinality(Blocked) - Cardinality(W) /\ Cardinality(Blocked) \in Nat
  BY <1>1, <1>3, <1>4, WakeCount
<1> HIDE DEF W, q
<1>. QED  BY <1>1, <1>2, <1>3, <1>5 DEF Drift

(***************************************************************************)
(* In sys2Helper the semaphore of the process terminated decides, or what  *)
(* is left of it in p_semAdd: that can be out of date for a device only.   *)
(***************************************************************************)
LEMMA KillDrift ==
  ASSUME IInv, Sys2Helper
  PROVE  \/ Drift' = Drift
         \/ /\ Drift' = Drift + 1
            /\ cpu = "kill" /\ \E s \in UserSem : head \in ToSet(procQ[s])
         \/ Drift' = Drift - 1 /\ cpu = "kill" /\ cpu' = "trap"
<1>1. /\ Types /\ Places /\ softBlockCount \in Int /\ cpu = "kill"
      /\ head \in Pcb /\ head \in Live
  <2>1. cpu = "kill"
    BY DEF Sys2Helper, KillChild, KillBlocked, KillStale, KillReady, KillCurrent, KillSelf
  <2>. QED  BY <2>1, HeadFacts DEF IInv, Types
<1>2. CASE KillBlocked
  <2>1. PICK s \in Sem : /\ head \in ToSet(procQ[s]) /\ LeaveSemaphore(s)
                         /\ procQ' = [procQ EXCEPT ![s] = outProcQ(@, head)]
    BY <1>2 DEF KillBlocked
  <2> DEFINE W == {head}
  <2>2. ToSet(outProcQ(procQ[s], head)) = ToSet(procQ[s]) \ W /\ W \in SUBSET ToSet(procQ[s])
    <3>1. procQ[s] \in Seq(Pcb) /\ IsInjective(procQ[s])
      BY <1>1 DEF Types, Places
    <3>. QED  BY <2>1, <3>1, OutLemma
  <2>3. Cardinality(W) = 1
    BY FS_Singleton
  <2> HIDE DEF W
  <2>4. Cardinality(Blocked') = Cardinality(Blocked) - 1 /\ Cardinality(Blocked) \in Nat
    BY <2>1, <2>2, <2>3, WakeCount
  <2>5. \/ softBlockCount' = softBlockCount - 1
        \/ softBlockCount' = softBlockCount /\ s \in UserSem
    BY <2>1 DEF LeaveSemaphore, Sem, DeviceSem
  <2>6. Drift' = Drift \/ (Drift' = Drift + 1 /\ s \in UserSem)
    BY <1>1, <2>4, <2>5 DEF Drift
  <2>. QED  BY <1>1, <2>1, <2>6
<1>3. CASE KillStale
  <2>1. PICK s \in Sem : /\ s = p_semAdd[head] /\ head \notin ToSet(procQ[s])
                         /\ LeaveSemaphore(s)
    BY <1>3 DEF KillStale
  <2>2. s \in DeviceSem
    BY <1>1, <2>1 DEF Places, Live, Sem, DeviceSem
  <2>3. softBlockCount' = softBlockCount - 1 /\ procQ' = procQ /\ cpu' = "trap"
    BY <1>3, <2>1, <2>2 DEF KillStale, LeaveSemaphore
  <2>4. Blocked' = Blocked /\ Cardinality(Blocked) \in Nat
    BY <1>1, <2>3, BlockedFacts DEF Blocked
  <2>5. Drift' = Drift - 1
    BY <1>1, <2>3, <2>4 DEF Drift
  <2>. QED  BY <1>1, <2>3, <2>5
<1>4. CASE KillChild \/ KillReady \/ KillCurrent
  BY <1>4, SameDrift DEF KillChild, KillReady, KillCurrent, ReleaseCurrent, semVars
<1>. QED  BY <1>2, <1>3, <1>4 DEF Sys2Helper

(***************************************************************************)
(* The steps of the nucleus.                                               *)
(***************************************************************************)
LEMMA DriftStep ==
  ASSUME IInv, [Next]_vars
  PROVE  \/ Drift' = Drift
         \/ /\ Drift' = Drift + 1
            /\ cpu = "kill" /\ \E s \in UserSem : head \in ToSet(procQ[s])
         \/ Drift' = Drift - 1 /\ cpu = "kill" /\ cpu' = "trap"
<1>1. CASE Sys2Helper
  BY <1>1, KillDrift
<1>2. CASE TerminateProcess \/ passupOrDie
  BY <1>2, SameDrift DEF TerminateProcess, passupOrDie, terminateProcess,
     ReleaseCurrent, semVars
<1>3. ASSUME NEW s \in Sem, Passeren(s) \/ WaitFor(s)  PROVE Drift' = Drift
  <2>1. cpu = "run" /\ (Block(s) \/ UNCHANGED <<procQ, softBlockCount>>)
    BY <1>3 DEF Passeren, WaitFor
  <2>. QED  BY <2>1, BlockDrift, SameDrift
<1>4. ASSUME NEW s \in Sem, Verhogen(s)  PROVE Drift' = Drift
  BY <1>4, WakeFirst, SameDrift DEF Verhogen
<1>5. ASSUME NEW d \in Device, DeviceInterrupt(d)  PROVE Drift' = Drift
  BY <1>5, WakeFirst, SameDrift DEF DeviceInterrupt, Sem
<1>6. CASE \/ \E sup \in Support : CreateProcess(sup)
           \/ WaitForIO_OutOfRange \/ TimeSlice \/ UNCHANGED vars
           \/ \E d \in Device : Command(d) \/ IgnoredInterrupt(d)
  BY <1>6, SameDrift DEF CreateProcess, WaitForIO_OutOfRange, TimeSlice, Command,
     IgnoredInterrupt, vars, semVars
<1>7. Next => \/ Sys2Helper \/ TerminateProcess \/ passupOrDie
              \/ \E s \in Sem : Passeren(s) \/ WaitFor(s) \/ Verhogen(s)
              \/ \E d \in Device : DeviceInterrupt(d)
              \/ ClockTick
              \/ \E sup \in Support : CreateProcess(sup)
              \/ WaitForIO_OutOfRange \/ TimeSlice \/ UNCHANGED vars
              \/ \E d \in Device : Command(d) \/ IgnoredInterrupt(d)
  BY DEF Next, Syscall, Interrupt, Stopped, WaitForIO, WaitForClock, Sem
<1>. QED  BY <1>1, <1>2, <1>3, <1>4, <1>5, <1>6, <1>7, ClockDrift

(***************************************************************************)
(* softBlockCount is off by what SYS2 has done to it, for any number of    *)
(* processes, semaphores and devices.                                      *)
(***************************************************************************)
THEOREM CountIsExplained == Spec => CountDrifts
<1>1. ASSUME IInv, [Next]_vars
      PROVE  [\/ Drift' = Drift
              \/ /\ Drift' = Drift + 1
                 /\ cpu = "kill" /\ \E s \in UserSem : head \in ToSet(procQ[s])
              \/ Drift' = Drift - 1 /\ cpu = "kill" /\ cpu' = "trap"]_vars
  BY <1>1, DriftStep
<1>. QED  BY <1>1, Invariance, PTL DEF Spec, CountDrifts
==============================================================================
