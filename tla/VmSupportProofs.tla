-------------------------- MODULE VmSupportProofs --------------------------
(***************************************************************************)
(* The safety properties of the beginnings of the support level, for every *)
(* number of user processes, of pages and of pcbs.  VmInv is inductive     *)
(* together with IInv, the invariant of the nucleus below.                 *)
(***************************************************************************)
EXTENDS VmSupport, NucleusProofs

Stages == {"testo", "user", "pager", "frame", "stray"}

VmTypes ==
  /\ asid \in [Pcb -> 0 .. UPROCMAX]
  /\ stage \in [Pcb -> Stages]
  /\ next \in 1 .. 3 * UPROCMAX + 1

(* How far testo is tells which support structures are filled in; and a    *)
(* user process exists only if testo is past its creation.  That is why    *)
(* the next one gets an address space of its own.                          *)
Progress ==
  /\ initialised = {id \in 1 .. UPROCMAX : 2 * id - 1 < next}
  /\ \A p \in UserProcesses : p_supportStruct[p] /\ 2 * asid[p] < next
  /\ \A p, q \in UserProcesses : asid[p] = asid[q] => p = q
  /\ \A p \in Live : stage[p] = "testo" <=> asid[p] = 0

VmInv == VmTypes /\ Progress /\ OneInPager

------------------------------------------------------------------------------
(* Each statement of testo has its place.                                  *)
LEMMA TestoLemma ==
  ASSUME NEW n \in DOMAIN testo, NEW id \in 1 .. UPROCMAX
  PROVE  /\ n \in 1 .. 3 * UPROCMAX
         /\ testo[n] = Fill(id) => n = 2 * id - 1
         /\ testo[n] = Create(id) => n = 2 * id
         /\ testo[n] = Join => n > 2 * UPROCMAX
<1>0. UPROCMAX \in Nat
  BY VmAssumption
<1>1. n \in 1 .. 3 * UPROCMAX
  BY DEF testo
<1>2. CASE n > 2 * UPROCMAX
  <2>1. testo[n] = <<"join">>
    BY <1>1, <1>2 DEF testo, Join
  <2>2. <<"join">> # Fill(id) /\ <<"join">> # Create(id)
    BY DEF Fill, Create
  <2>. QED  BY <1>1, <1>2, <2>1, <2>2
<1>3. CASE ~(n > 2 * UPROCMAX) /\ n % 2 = 1
  <2>1. testo[n] = <<"fill", (n + 1) \div 2>>
    BY <1>1, <1>3 DEF testo, Fill
  <2>2. testo[n][1] = "fill" /\ testo[n][2] = (n + 1) \div 2
    BY <2>1
  <2>3. Create(id)[1] = "create" /\ Join[1] = "join" /\ Fill(id)[2] = id
    BY DEF Fill, Create, Join
  <2>4. testo[n] # Create(id) /\ testo[n] # Join
    BY <2>2, <2>3
  <2>5. testo[n] = Fill(id) => id = (n + 1) \div 2
    BY <2>2, <2>3
  <2>6. 2 * ((n + 1) \div 2) = n + 1
    BY <1>0, <1>1, <1>3
  <2>. QED  BY <1>0, <1>1, <2>4, <2>5, <2>6
<1>4. CASE ~(n > 2 * UPROCMAX) /\ n % 2 # 1
  <2>1. testo[n] = <<"create", n \div 2>>
    BY <1>1, <1>4 DEF testo, Create
  <2>2. testo[n][1] = "create" /\ testo[n][2] = n \div 2
    BY <2>1
  <2>3. Fill(id)[1] = "fill" /\ Join[1] = "join" /\ Create(id)[2] = id
    BY DEF Fill, Create, Join
  <2>4. testo[n] # Fill(id) /\ testo[n] # Join
    BY <2>2, <2>3
  <2>5. testo[n] = Create(id) => id = n \div 2
    BY <2>2, <2>3
  <2>6. 2 * (n \div 2) = n
    BY <1>0, <1>1, <1>4
  <2>. QED  BY <1>0, <1>1, <2>4, <2>5, <2>6
<1>. QED  BY <1>2, <1>3, <1>4

(* What the steps other than the P of the pager leave alone: if no process *)
(* enters or leaves the pager and the semaphore is not touched, OneInPager *)
(* stays.                                                                  *)
LEMMA PagerFrame ==
  ASSUME OneInPager, InPager' = InPager,
         semVal'["swapPoolSem"] = semVal["swapPoolSem"],
         procQ'["swapPoolSem"] = procQ["swapPoolSem"]
  PROVE  OneInPager'
BY DEF OneInPager

LEMMA VmInitLemma == VmInit => VmInv
<1> SUFFICES ASSUME VmInit  PROVE VmInv
  OBVIOUS
<1>0. UPROCMAX \in Nat \ {0} /\ "swapPoolSem" \in Sem
  BY VmAssumption DEF Sem
<1>1. VmTypes
  BY <1>0 DEF VmInit, VmTypes, Stages
<1>2. UserProcesses = {}
  BY DEF VmInit, UserProcesses, Live
<1>3. initialised = {id \in 1 .. UPROCMAX : 2 * id - 1 < next}
  BY <1>0 DEF VmInit
<1>4. \A p \in Live : stage[p] = "testo" <=> asid[p] = 0
  BY DEF VmInit, Live
<1>5. InPager = {} /\ Cardinality({}) = 0
  BY <1>2, FS_EmptySet DEF InPager
<1>6. semVal["swapPoolSem"] = 1 /\ Len(procQ["swapPoolSem"]) = 0
  BY <1>0 DEF VmInit, Init, mkEmptyProcQ
<1>. QED  BY <1>1, <1>2, <1>3, <1>4, <1>5, <1>6 DEF VmInv, Progress, OneInPager

(* A process that executes is one of the live ones.                        *)
LEMMA RunningLive ==
  ASSUME IInv, cpu = "run"
  PROVE  currentProcess \in Live /\ currentProcess \in Pcb
BY DEF IInv, Types, CpuOK, Places, Live

(* initSuppStructs fills in the next support structure.                    *)
LEMMA FillStep ==
  ASSUME VmInv, NEW id \in 1 .. UPROCMAX, initSuppStructs(id)
  PROVE  VmInv'
<1>0. UPROCMAX \in Nat \ {0}
  BY VmAssumption
<1>1. /\ next = 2 * id - 1 /\ next' = next + 1 /\ next \in 1 .. 3 * UPROCMAX
      /\ initialised' = initialised \cup {id}
      /\ UNCHANGED <<asid, stage, pcbFree, p_supportStruct, semVal, procQ>>
  BY TestoLemma DEF initSuppStructs, Statement, vars
<1>2. VmTypes'
  BY <1>0, <1>1 DEF VmInv, VmTypes
<1>3. Live' = Live /\ UserProcesses' = UserProcesses
  BY <1>1 DEF Live, UserProcesses
<1>4. InPager' = InPager
  BY <1>1, <1>3 DEF InPager
<1>5. initialised' = {i \in 1 .. UPROCMAX : 2 * i - 1 < next'}
  BY <1>0, <1>1 DEF VmInv, Progress
<1>6. \A p \in UserProcesses : asid[p] \in Nat
  BY <1>0 DEF VmInv, VmTypes, UserProcesses, Live
<1>7. Progress'
  BY <1>1, <1>3, <1>5, <1>6 DEF VmInv, Progress
<1>. QED  BY <1>1, <1>2, <1>4, <1>7, PagerFrame DEF VmInv

(* SYS1 of testo: the new process, if there is a pcb for it, has an asid   *)
(* that no other process has.                                              *)
LEMMA CreateStep ==
  ASSUME IInv, VmInv, NEW id \in 1 .. UPROCMAX, initUserProc(id)
  PROVE  VmInv'
<1>0. UPROCMAX \in Nat \ {0} /\ pcbFree \subseteq Pcb /\ "swapPoolSem" \in Sem
  BY VmAssumption DEF IInv, Types, Sem
<1> DEFINE son == pcbFree \ pcbFree'
<1>1. /\ next = 2 * id /\ next' = next + 1 /\ next \in 1 .. 3 * UPROCMAX
      /\ asid' = [p \in Pcb |-> IF p \in son THEN id ELSE asid[p]]
      /\ stage' = [p \in Pcb |-> IF p \in son THEN "user" ELSE stage[p]]
      /\ initialised' = initialised
  BY TestoLemma DEF initUserProc, Statement
<1>2. /\ semVal' = semVal /\ procQ' = procQ
      /\ \/ pcbFree' = pcbFree /\ p_supportStruct' = p_supportStruct /\ son = {}
         \/ \E x \in pcbFree : /\ pcbFree' = pcbFree \ {x}
                               /\ p_supportStruct' = [p_supportStruct EXCEPT ![x] = TRUE]
                               /\ son = {x}
  BY DEF initUserProc, CreateProcess, treeVars, pcbVars, semVars
<1>3. VmTypes'
  BY <1>0, <1>1 DEF VmInv, VmTypes, Stages
<1>4. /\ son \subseteq pcbFree /\ Live' = Live \cup son
      /\ \A p, q \in son : p = q
      /\ \A p \in son : p_supportStruct'[p]
      /\ \A p \in Live : p_supportStruct'[p] = p_supportStruct[p]
  BY <1>0, <1>2 DEF Live, IInv, Types
<1>5. /\ \A p \in son : p \in Pcb /\ asid'[p] = id /\ stage'[p] = "user"
      /\ \A p \in Live : /\ p \in Pcb /\ p \notin son
                         /\ asid'[p] = asid[p] /\ stage'[p] = stage[p]
  BY <1>0, <1>1, <1>4 DEF Live
<1> HIDE DEF son
<1>6. UserProcesses' = UserProcesses \cup son
  BY <1>4, <1>5 DEF UserProcesses
<1>7. InPager' = InPager
  BY <1>2, <1>4, <1>5, <1>6 DEF InPager, UserProcesses
<1>8. \A p \in UserProcesses : asid[p] \in Nat /\ 2 * asid[p] < next /\ p_supportStruct[p]
                               /\ asid'[p] = asid[p] /\ p_supportStruct'[p]
  BY <1>0, <1>4, <1>5 DEF VmInv, VmTypes, Progress, UserProcesses, Live
<1>9. initialised' = {i \in 1 .. UPROCMAX : 2 * i - 1 < next'}
  BY <1>0, <1>1 DEF VmInv, Progress
<1>10. \A p \in UserProcesses' : p_supportStruct'[p] /\ 2 * asid'[p] < next'
  BY <1>0, <1>1, <1>4, <1>5, <1>6, <1>8
<1>11. \A p, q \in UserProcesses' : asid'[p] = asid'[q] => p = q
  <2>1. \A p \in UserProcesses : asid'[p] # id
    BY <1>0, <1>1, <1>8
  <2>2. \A p, q \in UserProcesses : asid'[p] = asid'[q] => p = q
    BY <1>8 DEF VmInv, Progress
  <2>. QED  BY <1>4, <1>5, <1>6, <2>1, <2>2
<1>12. \A p \in Live' : stage'[p] = "testo" <=> asid'[p] = 0
  BY <1>0, <1>4, <1>5 DEF VmInv, Progress
<1>13. Progress'
  BY <1>9, <1>10, <1>11, <1>12 DEF Progress
<1>. QED  BY <1>2, <1>3, <1>7, <1>13, PagerFrame DEF VmInv

(* The steps after which only the stage of the current process may be      *)
(* another, without entering or leaving the pager, and those of testo that *)
(* wait.                                                                   *)
LEMMA QuietStep ==
  ASSUME VmInv,
         UNCHANGED <<asid, initialised, pcbFree, p_supportStruct>>,
         next' \in {next, next + 1} /\ next' \in 1 .. 3 * UPROCMAX + 1,
         next' = next + 1 => next > 2 * UPROCMAX,
         stage' \in [Pcb -> Stages],
         \A p \in Live : stage'[p] = "testo" <=> stage[p] = "testo"
  PROVE  VmTypes' /\ Progress' /\ UserProcesses' = UserProcesses /\ Live' = Live
<1>0. UPROCMAX \in Nat \ {0} /\ next \in Nat
  BY VmAssumption DEF VmInv, VmTypes
<1>1. VmTypes'
  BY DEF VmInv, VmTypes
<1>2. Live' = Live /\ UserProcesses' = UserProcesses
  BY DEF Live, UserProcesses
<1>3. \A p \in UserProcesses : asid[p] \in Nat
  BY <1>0 DEF VmInv, VmTypes, UserProcesses, Live
<1>4. \A i \in 1 .. UPROCMAX : 2 * i - 1 < next <=> 2 * i - 1 < next'
  BY <1>0
<1>5. initialised' = {i \in 1 .. UPROCMAX : 2 * i - 1 < next'}
  BY <1>0, <1>4 DEF VmInv, Progress
<1>6. \A p \in UserProcesses : p_supportStruct[p] /\ 2 * asid[p] < next'
  BY <1>0, <1>3 DEF VmInv, Progress
<1>7. Progress'
  BY <1>2, <1>5, <1>6 DEF VmInv, Progress
<1>. QED  BY <1>1, <1>2, <1>7

(* P(mainSem) of testo.                                                    *)
LEMMA JoinStep ==
  ASSUME IInv, VmInv, WaitForAll
  PROVE  VmInv'
<1>0. UPROCMAX \in Nat \ {0} /\ next \in Nat
  BY VmAssumption DEF VmInv, VmTypes
<1>1. /\ next \in 1 .. 3 * UPROCMAX /\ next > 2 * UPROCMAX /\ next' = next + 1
      /\ UNCHANGED <<asid, initialised, stage>>
  BY TestoLemma, <1>0 DEF WaitForAll, Statement
<1>2. /\ UNCHANGED <<pcbFree, p_supportStruct>>
      /\ semVal'["swapPoolSem"] = semVal["swapPoolSem"]
      /\ procQ'["swapPoolSem"] = procQ["swapPoolSem"]
  <2>1. /\ semVal \in [Sem -> Int] /\ procQ \in [Sem -> Seq(Pcb)]
        /\ "swapPoolSem" \in Sem /\ "swapPoolSem" # "mainSem"
    BY VmAssumption DEF IInv, Types, Sem
  <2>2. semVal' = [semVal EXCEPT !["mainSem"] = @ - 1]
    BY DEF WaitForAll, Passeren
  <2>3. \/ procQ' = procQ
        \/ procQ' = [procQ EXCEPT !["mainSem"] = insertProcQ(@, currentProcess)]
    BY DEF WaitForAll, Passeren, Block
  <2>4. UNCHANGED <<pcbFree, p_supportStruct>>
    BY DEF WaitForAll, Passeren, treeVars, pcbVars
  <2>. QED  BY <2>1, <2>2, <2>3, <2>4
<1>3. VmTypes' /\ Progress' /\ UserProcesses' = UserProcesses
  BY <1>0, <1>1, <1>2, QuietStep DEF VmInv, VmTypes
<1>4. InPager' = InPager
  BY <1>1, <1>2, <1>3 DEF InPager
<1>. QED  BY <1>2, <1>3, <1>4, PagerFrame DEF VmInv

(* The page fault itself, and a step of the pager after its P.             *)
LEMMA FaultStep ==
  ASSUME IInv, VmInv, PageFault \/ getFrame
  PROVE  VmInv'
<1>1. currentProcess \in Live /\ currentProcess \in Pcb
  BY RunningLive DEF PageFault, getFrame, At
<1>2. CASE PageFault
  <2>1. p_supportStruct[currentProcess]
    BY <1>1, <1>2 DEF PageFault, At, VmInv, Progress, UserProcesses
  <2>2. UNCHANGED <<pcbFree, p_supportStruct, semVal, procQ, asid, initialised, next>>
    BY <1>2, <2>1 DEF PageFault, passupOrDie, treeVars, pcbVars, semVars
  <2>3. /\ stage[currentProcess] = "user"
        /\ stage' = [stage EXCEPT ![currentProcess] = "pager"]
    BY <1>2 DEF PageFault, At, Go
  <2>4. VmTypes' /\ Progress' /\ UserProcesses' = UserProcesses
    BY <1>1, <2>2, <2>3, QuietStep DEF VmInv, VmTypes, Stages
  <2>5. InPager' = InPager
    BY <1>1, <2>2, <2>3, <2>4 DEF InPager, VmInv, VmTypes, UserProcesses, Live
  <2>. QED  BY <2>2, <2>4, <2>5, PagerFrame DEF VmInv
<1>3. CASE getFrame
  <2>2. UNCHANGED <<pcbFree, p_supportStruct, semVal, procQ, asid, initialised, next>>
    BY <1>3 DEF getFrame, vars
  <2>3. /\ stage[currentProcess] = "frame"
        /\ stage' = [stage EXCEPT ![currentProcess] = "stray"]
    BY <1>3 DEF getFrame, At, Go
  <2>4. VmTypes' /\ Progress' /\ UserProcesses' = UserProcesses
    BY <1>1, <2>2, <2>3, QuietStep DEF VmInv, VmTypes, Stages
  <2>5. InPager' = InPager
    BY <1>1, <2>2, <2>3, <2>4 DEF InPager, VmInv, VmTypes, UserProcesses, Live
  <2>. QED  BY <2>2, <2>4, <2>5, PagerFrame DEF VmInv
<1>. QED  BY <1>2, <1>3

(* P(swapPoolSem): the process either enters, and then it is alone, or it  *)
(* waits in the queue.                                                     *)
LEMMA PagerStep ==
  ASSUME IInv, VmInv, pager
  PROVE  VmInv'
<1> DEFINE s == "swapPoolSem"
           cp == currentProcess
<1>1. cp \in Live /\ cp \in Pcb /\ s \in Sem /\ s \in UserSem /\ cpu = "run"
  BY RunningLive, VmAssumption DEF pager, At, Sem
<1>2. /\ stage[cp] = "pager" /\ stage' = [stage EXCEPT ![cp] = "frame"]
      /\ UNCHANGED <<pcbFree, p_supportStruct, asid, initialised, next>>
  BY DEF pager, At, Go, Passeren, treeVars, pcbVars
<1>3. VmTypes' /\ Progress' /\ UserProcesses' = UserProcesses
  BY <1>1, <1>2, QuietStep DEF VmInv, VmTypes, Stages
<1>4. /\ semVal \in [Sem -> Int] /\ procQ[s] \in Seq(Pcb) /\ procQ \in [Sem -> Seq(Pcb)]
      /\ cp \notin ToSet(procQ[s])
  BY <1>1 DEF IInv, Types, Places
<1>5. cp \in UserProcesses /\ cp \notin InPager
  BY <1>1, <1>2 DEF VmInv, Progress, UserProcesses, InPager
<1>6. ~NoDescriptor(s)
  BY <1>1, DescriptorLemma DEF IInv, DescriptorAvailable
<1>7. semVal'[s] = semVal[s] - 1
  BY <1>1, <1>4 DEF pager, Passeren
<1>8. IsFiniteSet(InPager) /\ Cardinality(InPager) \in Nat
  <2>1. InPager \subseteq Pcb
    BY DEF InPager, UserProcesses, Live
  <2>. QED  BY <2>1, PcbAssumption, FS_Subset, FS_CardinalityType
<1>9. Len(procQ[s]) \in Nat
  BY <1>4
<1>10. /\ Cardinality(InPager) <= 1
       /\ semVal[s] = 1 - Cardinality(InPager) - Len(procQ[s])
  BY DEF VmInv, OneInPager
<1>11. CASE semVal[s] - 1 < 0
  <2>1. procQ' = [procQ EXCEPT ![s] = insertProcQ(@, cp)]
    BY <1>6, <1>11 DEF pager, Passeren, Block
  <2>2. procQ'[s] = insertProcQ(procQ[s], cp)
    BY <1>1, <1>4, <2>1
  <2>3. /\ Len(procQ'[s]) = Len(procQ[s]) + 1
        /\ ToSet(procQ'[s]) = ToSet(procQ[s]) \cup {cp}
    BY <1>1, <1>4, <2>2, InsertLemma
  <2>4. InPager' = InPager
    BY <1>1, <1>2, <1>3, <1>5, <2>3 DEF InPager, VmInv, VmTypes, UserProcesses, Live
  <2>5. OneInPager'
    BY <1>7, <1>8, <1>9, <1>10, <2>3, <2>4 DEF OneInPager
  <2>. QED  BY <1>3, <2>5 DEF VmInv
<1>12. CASE ~(semVal[s] - 1 < 0)
  <2>1. procQ' = procQ
    BY <1>12 DEF pager, Passeren
  <2>2. Cardinality(InPager) = 0 /\ Len(procQ[s]) = 0
    BY <1>1, <1>4, <1>8, <1>9, <1>10, <1>12
  <2>3. InPager' = InPager \cup {cp}
    BY <1>1, <1>2, <1>3, <1>4, <1>5, <2>1 DEF InPager, VmInv, VmTypes, UserProcesses, Live
  <2>4. Cardinality(InPager') = 1
    <3>1. Cardinality(InPager \cup {cp}) = Cardinality(InPager) + 1
      BY <1>5, <1>8, FS_AddElement
    <3>. QED  BY <2>2, <2>3, <3>1
  <2>5. OneInPager'
    BY <1>7, <1>10, <2>1, <2>2, <2>4 DEF OneInPager
  <2>. QED  BY <1>3, <2>5 DEF VmInv
<1>. QED  BY <1>11, <1>12

(* Refills, a processor that is lost, preemptions, and stuttering.         *)
LEMMA OtherStep ==
  ASSUME VmInv,
         uTLB_RefillHandler \/ Stray \/ Preempt \/ Stop \/ UNCHANGED allVars
  PROVE  VmInv'
<1>1. UNCHANGED <<pcbFree, p_supportStruct, semVal, procQ, asid, stage, initialised, next>>
  <2>1. CASE uTLB_RefillHandler
    BY <2>1 DEF uTLB_RefillHandler, vars
  <2>2. CASE Stray
    BY <2>2 DEF Stray, treeVars, pcbVars, semVars, vmVars
  <2>3. CASE Preempt
    BY <2>3 DEF Preempt, TimeSlice, treeVars, pcbVars, semVars, vmVars
  <2>4. CASE Stop \/ UNCHANGED allVars
    BY <2>4 DEF Stop, Stopped, allVars, vars, vmVars
  <2>. QED  BY <2>1, <2>2, <2>3, <2>4
<1>2. VmTypes' /\ Progress' /\ UserProcesses' = UserProcesses
  BY <1>1, QuietStep DEF VmInv, VmTypes
<1>3. InPager' = InPager
  BY <1>1, <1>2 DEF InPager
<1>. QED  BY <1>1, <1>2, <1>3, PagerFrame DEF VmInv

LEMMA VmNextLemma ==
  ASSUME IInv, VmInv, [VmNext]_allVars
  PROVE  VmInv'
BY FillStep, CreateStep, JoinStep, FaultStep, PagerStep, OtherStep
   DEF VmNext, Process

------------------------------------------------------------------------------
(* Every step is one of the nucleus, or none of its business.              *)
LEMMA VmStep ==
  ASSUME [VmNext]_allVars
  PROVE  [Next]_vars
<1>1. ASSUME NEW id \in 1 .. UPROCMAX, initSuppStructs(id) \/ initUserProc(id)
      PROVE  [Next]_vars
  BY <1>1, VmAssumption DEF initSuppStructs, initUserProc, Next, Syscall
<1>2. CASE WaitForAll \/ pager
  BY <1>2, VmAssumption DEF WaitForAll, pager, Next, Syscall
<1>3. CASE uTLB_RefillHandler \/ getFrame \/ UNCHANGED allVars
  BY <1>3 DEF uTLB_RefillHandler, getFrame, allVars
<1>4. CASE PageFault
  BY <1>4 DEF PageFault, Next
<1>5. CASE Stray
  <2>1. WaitForIO_OutOfRange
    BY <1>5 DEF Stray, At, WaitForIO_OutOfRange
  <2>. QED  BY <2>1 DEF Next, Syscall
<1>6. CASE Preempt \/ Stop
  BY <1>6 DEF Preempt, Stop, Next, Interrupt
<1>. QED  BY <1>1, <1>2, <1>3, <1>4, <1>5, <1>6 DEF VmNext, Process

(***************************************************************************)
(* Every behaviour of testo and its user processes is one of the nucleus.  *)
(***************************************************************************)
THEOREM VmRunsOnNucleus == VmSpec => Spec
<1>1. VmInit => Init
  BY DEF VmInit
<1>. QED  BY <1>1, VmStep, PTL DEF VmSpec, Spec

(***************************************************************************)
(* VmInv is an invariant.                                                  *)
(***************************************************************************)
THEOREM VmInvariance == VmSpec => []VmInv
BY VmInitLemma, VmNextLemma, VmRunsOnNucleus, Invariance, PTL DEF VmSpec

LEMMA PageNumbers == KUSEG \in Nat /\ StackPage \in Nat
BY SMT DEF KUSEG, StackPage

(***************************************************************************)
(* The refill handler finds the entry of the page and of the process that  *)
(* faulted, whatever the number of pages and processes, for every page but *)
(* the stack's.                                                            *)
(***************************************************************************)
THEOREM RefillIsRight == VmSpec => []RefillRight
<1>1. ASSUME VmInv  PROVE RefillRight
  <2> SUFFICES ASSUME NEW p \in UserProcesses
               PROVE  p_supportStruct[p] /\ \A page \in Pages \ {StackPage} : Found(p, page)
    BY DEF RefillRight
  <2>1. /\ MAXPAGES \in Nat /\ MAXPAGES >= 2 /\ MAXPAGES <= StackPage - KUSEG
        /\ UPROCMAX \in Nat /\ KUSEG \in Nat /\ StackPage \in Nat
    BY PageNumbers, VmAssumption
  <2>2. p_supportStruct[p] /\ asid[p] \in initialised
    <3>1. asid[p] \in 1 .. UPROCMAX
      BY <1>1, <2>1 DEF VmInv, VmTypes, UserProcesses, Live
    <3>. QED  BY <1>1, <2>1, <3>1 DEF VmInv, VmTypes, Progress
  <2>3. ASSUME NEW page \in Pages \ {StackPage}  PROVE Found(p, page)
    <3>1. pageIndex(page) \in 0 .. MAXPAGES - 2 /\ KUSEG + pageIndex(page) = page
      BY <2>1 DEF Pages, pageIndex
    <3>2. sup_privatePgTbl(asid[p])[pageIndex(page)] = Entry(KUSEG + pageIndex(page), asid[p])
      BY <2>1, <2>2, <3>1 DEF sup_privatePgTbl
    <3>. QED  BY <2>1, <3>1, <3>2 DEF Found
  <2>. QED  BY <2>2, <2>3
<1>. QED  BY <1>1, VmInvariance, PTL

(***************************************************************************)
(* No two exception stacks are the same page, nor is one testo's stack.    *)
(***************************************************************************)
THEOREM StacksAreDisjoint == VmSpec => []StacksDisjoint
<1>1. ASSUME VmInv  PROVE StacksDisjoint
  <2> SUFFICES ASSUME NEW p \in UserProcesses, NEW q \in UserProcesses,
                      NEW e \in {"general", "page"},
                      NEW f \in {"general", "page"}
               PROVE  /\ stackOf(asid[p], e) > 1
                      /\ stackOf(asid[p], e) = stackOf(asid[q], f) => p = q /\ e = f
    BY DEF StacksDisjoint
  <2>1. asid[p] \in Nat \ {0} /\ asid[q] \in Nat \ {0}
    <3>1. asid \in [Pcb -> 0 .. UPROCMAX] /\ UPROCMAX \in Nat
      BY <1>1, VmAssumption DEF VmInv, VmTypes
    <3>. QED  BY <3>1 DEF UserProcesses, Live
  <2>2. stackOf(asid[p], e) = stackOf(asid[q], f) => asid[p] = asid[q] /\ e = f
    <3>1. \A a, b \in Nat : 2 * a + 1 # 2 * b
      OBVIOUS
    <3>2. CASE e = f
      BY <2>1, <3>2 DEF stackOf
    <3>3. CASE e # f
      BY <2>1, <3>1, <3>3 DEF stackOf
    <3>. QED  BY <3>2, <3>3
  <2>3. stackOf(asid[p], e) > 1
    BY <2>1 DEF stackOf
  <2>. QED  BY <1>1, <2>2, <2>3 DEF VmInv, Progress
<1>. QED  BY <1>1, VmInvariance, PTL

(***************************************************************************)
(* swapPoolSem lets one process into getFrame, whatever their number.      *)
(***************************************************************************)
THEOREM OneProcessInPager == VmSpec => []OneInPager
<1>1. VmInv => OneInPager
  BY DEF VmInv
<1>. QED  BY <1>1, VmInvariance, PTL
==============================================================================
