------------------------------ MODULE VmSupport ------------------------------
(***************************************************************************)
(* The beginnings of the support level (src/src/{initProc,vmSupport}.c and *)
(* uTLB_RefillHandler of exceptions.c) on the nucleus: testo creates the   *)
(* user processes, each of them faults on its first instruction, and the   *)
(* pager takes it from there.  Nothing ever makes a page valid, so no user *)
(* process executes an instruction of its own.                             *)
(*                                                                         *)
(* Of an address only the page number is kept.  The frames' table has no   *)
(* variable: no statement sets sw_asid, so no frame is ever occupied and   *)
(* the pager's branch for that case is never taken.                        *)
(***************************************************************************)
EXTENDS Nucleus

CONSTANTS
  UPROCMAX,  \* the user processes, 8 in pandos_const.h
  MAXPAGES,  \* entries of a page table, 32; the last one is for the stack
  TlbSize    \* entries of the TLB, 16 in phase3Config

\* Page numbers: 0x80000, where a program's text begins and UPROCSTARTADDR is,
\* and 0xBFFFF, its stack.
KUSEG     == 524288
StackPage == 786431
Pages     == (KUSEG .. KUSEG + MAXPAGES - 2) \cup {StackPage}

ASSUME VmAssumption ==
  /\ UPROCMAX \in Nat \ {0} /\ TlbSize \in Nat \ {0}
  /\ MAXPAGES \in 2 .. StackPage - KUSEG
  /\ {"swapPoolSem", "mainSem"} \subseteq UserSem /\ TRUE \in Support
  /\ Pcb \subseteq Nat

POOLSIZE == UPROCMAX * 2

VARIABLES
  asid,         \* for each pcb the user process it runs, 0 for testo
  stage,        \* for each pcb what it executes
  next,         \* the next statement of testo
  initialised,  \* the user processes whose suppStruct has been filled in
  tlb,          \* the entries TLBWR has written; none is valid
  frame         \* the static variable of getFrame

vmVars  == <<asid, stage, next, initialised, tlb, frame>>
allVars == <<vars, vmVars>>

(***************************************************************************)
(* Page tables.  initSuppStructs fills in a table that was zero; TLBWR     *)
(* takes the page and the address space from the entry, not from the fault.*)
(***************************************************************************)
Entry(page, id) == [page |-> page, asid |-> id]

sup_privatePgTbl(id) ==
  [i \in 0 .. MAXPAGES - 1 |->
     IF id \notin initialised THEN Entry(0, 0)
     ELSE IF i = MAXPAGES - 1 THEN Entry(StackPage, id)
     ELSE Entry(KUSEG + i, id)]

\* The index of uTLB_RefillHandler for a page.  The clamp that follows it in
\* the code, to the last entry, is on another variable.
pageIndex(page) == page - KUSEG

(***************************************************************************)
(* The exception stacks of a user process, numbered by page down from      *)
(* RAMTOP; testo runs on page 1.                                           *)
(***************************************************************************)
stackOf_OnePage(id, exception) == IF exception = "general" THEN id + 1 ELSE id

stackOf(id, exception) == IF exception = "general" THEN 2 * id + 1 ELSE 2 * id

(***************************************************************************)
(* testo: for each user process initSuppStructs and SYS1, then as many     *)
(* P(mainSem).  Nobody raises mainSem: the SYS2 behind them is not reached.*)
(***************************************************************************)
Fill(id)   == <<"fill", id>>
Create(id) == <<"create", id>>
Join       == <<"join">>

testo_CreatesFirst ==
  [n \in 1 .. 3 * UPROCMAX |->
     IF n > 2 * UPROCMAX THEN Join
     ELSE IF n % 2 = 1 THEN Create((n + 1) \div 2) ELSE Fill(n \div 2)]

testo ==
  [n \in 1 .. 3 * UPROCMAX |->
     IF n > 2 * UPROCMAX THEN Join
     ELSE IF n % 2 = 1 THEN Fill((n + 1) \div 2) ELSE Create(n \div 2)]

At(s) == cpu = "run" /\ stage[currentProcess] = s
Go(s) == stage' = [stage EXCEPT ![currentProcess] = s]

Statement(instr) ==
  /\ At("testo")
  /\ next \in DOMAIN testo /\ testo[next] = instr
  /\ next' = next + 1

initSuppStructs(id) ==
  /\ Statement(Fill(id))
  /\ initialised' = initialised \cup {id}
  /\ UNCHANGED <<vars, asid, stage, tlb, frame>>

\* The pcb of a new process is the smallest free one: pcbs are alike.  SYS1
\* returns 0 even if it fails, so the SYS2 for that case is never made.
initUserProc(id) ==
  /\ Statement(Create(id))
  /\ CreateProcess(TRUE)
  /\ LET son == pcbFree \ pcbFree' IN
       /\ \A s \in son, p \in pcbFree : s <= p
       /\ asid'  = [p \in Pcb |-> IF p \in son THEN id ELSE asid[p]]
       /\ stage' = [p \in Pcb |-> IF p \in son THEN "user" ELSE stage[p]]
  /\ UNCHANGED <<initialised, tlb, frame>>

WaitForAll ==
  /\ Statement(Join)
  /\ Passeren("mainSem")
  /\ UNCHANGED <<asid, stage, initialised, tlb, frame>>

(***************************************************************************)
(* A user process: it fetches its first instruction.  TLBWR may write over *)
(* any entry; a page that is in the TLB, but not valid, is a TLB exception *)
(* that passupOrDie sends to the pager.                                    *)
(***************************************************************************)
InTlb == Entry(KUSEG, asid[currentProcess]) \in tlb

uTLB_RefillHandler ==
  /\ At("user") /\ ~InTlb
  /\ \E old \in {{}} \cup {{e} : e \in tlb} :
       tlb' = (tlb \ old)
                \cup {sup_privatePgTbl(asid[currentProcess])[pageIndex(KUSEG)]}
  /\ Cardinality(tlb') <= TlbSize
  /\ UNCHANGED <<vars, asid, stage, next, initialised, frame>>

PageFault ==
  /\ At("user") /\ InTlb
  /\ passupOrDie
  /\ Go("pager")
  /\ UNCHANGED <<asid, next, initialised, tlb, frame>>

(***************************************************************************)
(* The pager: P(swapPoolSem), a frame, and the return.  There is no V, and *)
(* no caller to return to: the processor executes what it finds there,     *)
(* which changes nothing of the kernel's, or the system is lost.           *)
(***************************************************************************)
pager ==
  /\ At("pager")
  /\ Passeren("swapPoolSem")
  /\ Go("frame")
  /\ UNCHANGED <<asid, next, initialised, tlb, frame>>

getFrame ==
  /\ At("frame")
  /\ frame' = IF frame + 1 >= POOLSIZE THEN 0 ELSE frame + 1
  /\ Go("stray")
  /\ UNCHANGED <<vars, asid, next, initialised, tlb>>

Stray ==
  /\ At("stray")
  /\ cpu' = "lost"
  /\ UNCHANGED <<treeVars, semVars, readyQueue, currentProcess, softBlockCount,
                 busy, heads, reg_v0, vmVars>>

Preempt == TimeSlice /\ UNCHANGED vmVars
Stop    == Stopped /\ UNCHANGED vmVars

\* testo is the first process, with swapPoolSem as initSwapStructs leaves it.
VmInit ==
  /\ semVal = [s \in Sem |-> IF s = "swapPoolSem" THEN 1 ELSE 0]
  /\ Init
  /\ \A p \in Pcb : currentProcess <= p
  /\ asid  = [p \in Pcb |-> 0]
  /\ stage = [p \in Pcb |-> "testo"]
  /\ next  = 1
  /\ initialised = {}
  /\ tlb   = {}
  /\ frame = 0

Process ==
  \/ \E id \in 1 .. UPROCMAX : initSuppStructs(id) \/ initUserProc(id)
  \/ WaitForAll
  \/ uTLB_RefillHandler \/ PageFault \/ pager \/ getFrame

VmNext == Process \/ Stray \/ Preempt \/ Stop

VmSpec == VmInit /\ [][VmNext]_allVars

(***************************************************************************)
(* The local timer runs down, but a time slice is long enough for a step,  *)
(* and an entry survives the few instructions until it is used, at some    *)
(* time at least.                                                          *)
(***************************************************************************)
FairVm ==
  VmSpec /\ SF_allVars(Process) /\ SF_allVars(PageFault) /\ WF_allVars(Preempt)

------------------------------------------------------------------------------
UserProcesses == {p \in Live : asid[p] # 0}

\* The refill handler reads the entry of that very page and process.
Found(p, page) ==
  /\ pageIndex(page) \in 0 .. MAXPAGES - 1
  /\ sup_privatePgTbl(asid[p])[pageIndex(page)] = Entry(page, asid[p])

(***************************************************************************)
(* A user process exists, and so can miss a page, only with a support      *)
(* structure that testo has filled in before, and the refill handler then  *)
(* finds the entry of the page it missed in the process's own table: for   *)
(* the pages of the program, see StackRefilled for the other one.          *)
(***************************************************************************)
RefillRight ==
  \A p \in UserProcesses :
    p_supportStruct[p] /\ \A page \in Pages \ {StackPage} : Found(p, page)

(***************************************************************************)
(* The guide, 4.2.1: of a page table ``the final entry is for the U-proc's *)
(* stack page'', and initSuppStructs puts 0xBFFFF there: a miss of that    *)
(* page is to be refilled from it.                                         *)
(***************************************************************************)
StackRefilled == \A p \in UserProcesses : Found(p, StackPage)

(***************************************************************************)
(* The pagers and exception handlers of different processes, which run     *)
(* interleaved, have each a stack page of their own.                       *)
(***************************************************************************)
StacksDisjoint ==
  \A p, q \in UserProcesses, e, f \in {"general", "page"} :
    /\ stackOf(asid[p], e) > 1
    /\ stackOf(asid[p], e) = stackOf(asid[q], f) => p = q /\ e = f

(***************************************************************************)
(* Frames are handed out under swapPoolSem: one process at most gets to    *)
(* getFrame, and the semaphore accounts for it and for those that wait.    *)
(***************************************************************************)
InPager == {p \in UserProcesses : p \notin ToSet(procQ["swapPoolSem"])
                                    /\ stage[p] \in {"frame", "stray"}}

OneInPager ==
  /\ Cardinality(InPager) <= 1
  /\ semVal["swapPoolSem"] =
       1 - Cardinality(InPager) - Len(procQ["swapPoolSem"])

(***************************************************************************)
(* The pager keeps swapPoolSem: in the end one process has a frame and no  *)
(* use for it, all the others wait, testo for them, and neither HALT nor   *)
(* PANIC comes, unless the return from the pager lost the system before.   *)
(***************************************************************************)
EndsStuck ==
  <>[](\/ cpu = "lost"
       \/ /\ Cardinality(InPager) = 1
          /\ Cardinality(UserProcesses) = UPROCMAX
          /\ Live \ InPager = Blocked)
==============================================================================
