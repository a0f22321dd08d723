------------------------------- MODULE Nucleus -------------------------------
(***************************************************************************)
(* The PandOS nucleus: process table, semaphores, scheduler, system calls  *)
(* and interrupts (src/src/{initial,scheduler,exceptions,interrupts}.c     *)
(* over pcb.c and asl.c).                                                  *)
(*                                                                         *)
(* The machine has one processor, and a handler runs with interrupts       *)
(* masked until it reloads a processor state (LDST, LDCXT) or waits.  One  *)
(* handler is therefore one step, except SYS2: terminating a process tree  *)
(* is a recursion of one step per call and return, and the bus error it    *)
(* can cause is an exception of its own.  Interrupts are steps that the    *)
(* hardware takes whenever they are not masked; the priorities among them  *)
(* are left open here.  Processor states, times and the status words of    *)
(* devices are abstracted.                                                 *)
(***************************************************************************)
EXTENDS Integers, FiniteSets, ProcQ

CONSTANTS
  Pcb,        \* the pcb table of pcb.c: MAXPROC process control blocks
  UserSem,    \* the semaphores of the programs: integers anywhere in memory
  Device,     \* the (sub)devices, each with its semaphore deviceSem[i], i < 48
  Receiver,   \* the receive sub-devices of the terminals, lines 40..47
  Transmitter,  \* their transmit sub-devices, lines 32..39
  Clock,      \* the pseudo-clock semaphore, deviceSem[48]
  NULL,
  Support,    \* what programs pass to SYS1 in a2: TRUE for a support structure
  MaxSem,     \* bound: no semaphore is raised above it, nor a device's waited
              \* for below -MaxSem
  MaxDrift    \* bound: no process blocks or is created beyond this drift

Sem       == UserSem \cup Device \cup {Clock}
DeviceSem == Device \cup {Clock}

ASSUME PcbAssumption  == IsFiniteSet(Pcb) /\ Pcb # {} /\ NULL \notin Pcb
ASSUME SemAssumption  == /\ NULL \notin Sem
                         /\ Receiver \cup Transmitter \subseteq Device
                         /\ Receiver \cap Transmitter = {}
                         /\ Clock \notin UserSem \cup Device
                         /\ UserSem \cap Device = {}
ASSUME SupportAssumption == Support \subseteq BOOLEAN
ASSUME BoundAssumption   == MaxSem \in Nat /\ MaxDrift \in Nat

MAXPROC == Cardinality(Pcb)

VARIABLES
  pcbFree,          \* pcbfree_h, the pcbs on the free list
  p_prnt,           \* the parent of each pcb, or NULL
  p_child,          \* the children of each pcb, first child first
  p_semAdd,         \* the semaphore a pcb is (or was last) blocked on, or NULL
  p_supportStruct,  \* TRUE for a pcb with a support structure
  readyQueue,
  currentProcess,
  processCount,
  softBlockCount,
  semVal,           \* the integer of each semaphore
  procQ,            \* s_procQ; a semaphore is on the ASL iff its queue is not empty
  busy,             \* the devices with a command or a character not acknowledged
  cpu,              \* what the processor executes, see Cpu
  heads,            \* the call stack of sys2Helper: its argument in each call
  reg_v0            \* what the process on the processor last got from SYS1

pcbVars  == <<pcbFree, p_prnt, p_child>>
treeVars == <<pcbVars, p_supportStruct, processCount>>
semVars  == <<semVal, procQ, p_semAdd>>
vars     == <<pcbFree, p_prnt, p_child, p_semAdd, p_supportStruct, readyQueue,
              currentProcess, processCount, softBlockCount, semVal, procQ,
              busy, cpu, heads, reg_v0>>

(***************************************************************************)
(* "run": the current process.  "wait": the WAIT of the scheduler.         *)
(* "kill": sys2Helper.  "trap": the exception handler, entered by a bus    *)
(* error in sys2Helper.  "halt", "panic": the machine has stopped.         *)
(* "lost": a handler returned to the BIOS, or scheduler() to its caller;   *)
(* the code says nothing of what follows.                                  *)
(***************************************************************************)
Cpu     == {"run", "wait", "kill", "trap", "halt", "panic", "lost"}
Enabled == cpu \in {"run", "wait"}  \* interrupts are not masked

\* The semaphores on the ASL, and the descriptors initASL made for them.
ActiveSem == {s \in Sem : ~emptyProcQ(procQ[s])}
SemdTable == MAXPROC

\* insertBlocked returns TRUE: a descriptor is needed and none is free.
NoDescriptor(s) == emptyProcQ(procQ[s]) /\ Cardinality(ActiveSem) >= SemdTable

\* Bounds.  The drift of softBlockCount and of a semaphore is unbounded in the
\* program; the model stops creating, blocking and raising beyond these.
SoftBounded   == softBlockCount \in -MaxDrift .. MAXPROC - 1 + MaxDrift
SemBounded(s) == semVal[s] < MaxSem

(***************************************************************************)
(* pcb.c: the free list and the tree                                       *)
(***************************************************************************)
\* outChild: p leaves the children of its parent, if it has one.
outChild_KeepsSibling(p) == p_child

outChild(p) ==
  IF p_prnt[p] = NULL
    THEN p_child
    ELSE [p_child EXCEPT ![p_prnt[p]] = Without(@, p)]

\* freePcb after outChild.  The semaphore and the support structure of a free
\* pcb keep their values until allocPcb and createProcess give them new ones.
outChildAndFree(p) ==
  /\ p_child' = [outChild(p) EXCEPT ![p] = <<>>]
  /\ p_prnt'  = [p_prnt EXCEPT ![p] = NULL]
  /\ pcbFree' = pcbFree \cup {p}

(***************************************************************************)
(* scheduler(), called with ready queue rq, process count n and soft-block *)
(* count soft.  The register of SYS1 is no longer that of the process.     *)
(***************************************************************************)
scheduler(rq, n, soft) ==
  /\ reg_v0' = NULL
  /\ IF emptyProcQ(rq)
       THEN /\ currentProcess' = NULL
            /\ readyQueue' = rq
            /\ cpu' = CASE n = 0             -> "halt"
                        [] n > 0 /\ soft = 0 -> "panic"
                        [] n > 0 /\ soft > 0 -> "wait"
                        [] OTHER             -> "lost"
       ELSE /\ currentProcess' = headProcQ(rq)
            /\ readyQueue' = removeProcQ(rq)
            /\ cpu' = "run"

\* How an interrupt handler ends: the current process goes on, if there is
\* one, and the scheduler is called otherwise.
LoadOrSchedule_Load(rq, soft) ==
  readyQueue' = rq /\ UNCHANGED <<currentProcess, cpu, reg_v0>>

LoadOrSchedule(rq, soft) ==
  IF currentProcess # NULL
    THEN readyQueue' = rq /\ UNCHANGED <<currentProcess, cpu, reg_v0>>
    ELSE scheduler(rq, processCount, soft)

(***************************************************************************)
(* main() up to the first process: `test' runs, nothing else exists.  The  *)
(* programs initialise their semaphores, main those of the devices.        *)
(***************************************************************************)
Init ==
  /\ \E root \in Pcb : currentProcess = root /\ pcbFree = Pcb \ {root}
  /\ p_prnt          = [p \in Pcb |-> NULL]
  /\ p_child         = [p \in Pcb |-> <<>>]
  /\ p_semAdd        = [p \in Pcb |-> NULL]
  /\ p_supportStruct = [p \in Pcb |-> FALSE]
  /\ readyQueue      = mkEmptyProcQ
  /\ processCount    = 1
  /\ softBlockCount  = 0
  /\ semVal \in {v \in [Sem -> 0 .. MaxSem] : \A s \in DeviceSem : v[s] = 0}
  /\ procQ = [s \in Sem |-> mkEmptyProcQ]
  /\ busy  = {}
  /\ cpu   = "run"
  /\ heads = <<>>
  /\ reg_v0 = NULL

(***************************************************************************)
(* SYS1, createProcess.  Line 130 sets the result to 0 in every case.      *)
(***************************************************************************)
CreateProcess(sup) ==
  /\ cpu = "run" /\ SoftBounded
  /\ reg_v0' = 0
  /\ \/ /\ pcbFree = {}
        /\ UNCHANGED <<treeVars, semVars, readyQueue>>
     \/ \E son \in pcbFree :
          /\ pcbFree'         = pcbFree \ {son}
          /\ p_semAdd'        = [p_semAdd EXCEPT ![son] = NULL]
          /\ p_supportStruct' = [p_supportStruct EXCEPT ![son] = sup]
          /\ readyQueue'      = insertProcQ(readyQueue, son)
          /\ p_prnt'          = [p_prnt EXCEPT ![son] = currentProcess]
          /\ p_child'         = [p_child EXCEPT ![currentProcess] = Append(@, son)]
          /\ processCount'    = processCount + 1
          /\ UNCHANGED <<semVal, procQ>>
  /\ UNCHANGED <<currentProcess, softBlockCount, busy, cpu, heads>>

(***************************************************************************)
(* SYS2, terminateProcess and sys2Helper.  A leaf is released at once; any *)
(* other process is the argument of the first call of sys2Helper.          *)
(***************************************************************************)
ReleaseCurrent ==
  /\ outChildAndFree(currentProcess)
  /\ processCount' = processCount - 1
  /\ scheduler(readyQueue, processCount - 1, softBlockCount)
  /\ heads' = <<>>
  /\ UNCHANGED <<semVars, p_supportStruct, softBlockCount, busy>>

terminateProcess_NotItsTree == ReleaseCurrent

terminateProcess ==
  IF p_child[currentProcess] = <<>>
    THEN ReleaseCurrent
    ELSE /\ cpu' = "kill"
         /\ heads' = <<currentProcess>>
         /\ UNCHANGED <<treeVars, semVars, readyQueue, currentProcess,
                        softBlockCount, busy, reg_v0>>

TerminateProcess == cpu = "run" /\ terminateProcess

\* The innermost call of sys2Helper, and that call once its loop is over.
head     == Last(heads)
KillSelf == cpu = "kill" /\ p_child[head] = <<>>

\* The loop: removeChild and the recursive call.
KillChild ==
  /\ cpu = "kill"
  /\ p_child[head] # <<>>
  /\ LET son == Head(p_child[head]) IN
       /\ p_child' = [p_child EXCEPT ![head] = Tail(@)]
       /\ p_prnt'  = [p_prnt EXCEPT ![son] = NULL]
       /\ heads'   = Append(heads, son)
  /\ UNCHANGED <<pcbFree, p_supportStruct, processCount, semVars, readyQueue,
                 currentProcess, softBlockCount, busy, cpu, reg_v0>>

\* The accounts of a process that is blocked, as far as p_semAdd tells: the
\* soft-block count for a device, the value of the semaphore for any other.
LeaveSemaphore_KeepsValue(s) ==
  /\ softBlockCount' = softBlockCount - 1
  /\ UNCHANGED semVal

LeaveSemaphore_KeepsCount(s) ==
  /\ semVal' = [semVal EXCEPT ![s] = @ + 1]
  /\ UNCHANGED softBlockCount

LeaveSemaphore(s) ==
  IF s \in DeviceSem
    THEN softBlockCount' = softBlockCount - 1 /\ UNCHANGED semVal
    ELSE semVal' = [semVal EXCEPT ![s] = @ + 1] /\ UNCHANGED softBlockCount

\* freePcb and the return to the caller, the pcb having no child and no parent.
FreeHead_Uncounted ==
  /\ pcbFree' = pcbFree \cup {head}
  /\ heads'   = Front(heads)
  /\ UNCHANGED <<p_prnt, p_child, p_supportStruct, p_semAdd, processCount,
                 currentProcess, busy, cpu, reg_v0>>

FreeHead ==
  /\ pcbFree'      = pcbFree \cup {head}
  /\ processCount' = processCount - 1
  /\ heads'        = Front(heads)
  /\ UNCHANGED <<p_prnt, p_child, p_supportStruct, p_semAdd, currentProcess,
                 busy, cpu, reg_v0>>

\* p_semAdd is set and outBlocked finds the process in the queue.
KillBlocked_LeavesQueue ==
  /\ KillSelf
  /\ \E s \in Sem :
       /\ s = p_semAdd[head]
       /\ head \in ToSet(procQ[s])
       /\ LeaveSemaphore(s)
  /\ FreeHead
  /\ UNCHANGED <<procQ, readyQueue>>

KillBlocked ==
  /\ KillSelf
  /\ \E s \in Sem :
       /\ s = p_semAdd[head]
       /\ head \in ToSet(procQ[s])
       /\ procQ' = [procQ EXCEPT ![s] = outProcQ(@, head)]
       /\ LeaveSemaphore(s)
  /\ FreeHead
  /\ UNCHANGED readyQueue

\* p_semAdd is set, but an interrupt woke the process up since: outBlocked
\* returns NULL, and freePcb(NULL) stores at address 0.  The bus error finds
\* the calls of sys2Helper unfinished, and nothing resumes them.
KillStale ==
  /\ KillSelf
  /\ \E s \in Sem :
       /\ s = p_semAdd[head]
       /\ head \notin ToSet(procQ[s])
       /\ LeaveSemaphore(s)
  /\ cpu'   = "trap"
  /\ heads' = <<>>
  /\ UNCHANGED <<treeVars, procQ, p_semAdd, readyQueue, currentProcess, busy,
                 reg_v0>>

\* The ready queue is tried for every process that is not the current one.
KillReady_LeavesQueue ==
  /\ KillSelf
  /\ p_semAdd[head] = NULL /\ head # currentProcess
  /\ FreeHead
  /\ UNCHANGED <<readyQueue, semVal, procQ, softBlockCount>>

KillReady_Oldest ==
  /\ KillSelf
  /\ p_semAdd[head] = NULL /\ head # currentProcess
  /\ readyQueue' = IF emptyProcQ(readyQueue) THEN readyQueue ELSE removeProcQ(readyQueue)
  /\ FreeHead
  /\ UNCHANGED <<semVal, procQ, softBlockCount>>

KillReady ==
  /\ KillSelf
  /\ p_semAdd[head] = NULL /\ head # currentProcess
  /\ readyQueue' = outProcQ(readyQueue, head)
  /\ FreeHead
  /\ UNCHANGED <<semVal, procQ, softBlockCount>>

\* The outermost call, and the rest of terminateProcess.
KillCurrent ==
  /\ KillSelf
  /\ p_semAdd[head] = NULL /\ head = currentProcess
  /\ ReleaseCurrent

(***************************************************************************)
(* passupOrDie, for an exception of the current process (a system call the *)
(* nucleus does not know or one in user mode, a program trap, a TLB        *)
(* exception) and for the bus error of sys2Helper.  A process with a       *)
(* support structure goes on in its exception handler.                     *)
(***************************************************************************)
passupOrDie_Retry ==
  /\ cpu \in {"run", "trap"}
  /\ IF p_supportStruct[currentProcess]
       THEN UNCHANGED vars
       ELSE terminateProcess

passupOrDie ==
  /\ cpu \in {"run", "trap"}
  /\ IF p_supportStruct[currentProcess]
       THEN /\ cpu' = "run"
            /\ UNCHANGED <<treeVars, semVars, readyQueue, currentProcess,
                           softBlockCount, busy, heads, reg_v0>>
       ELSE terminateProcess

(***************************************************************************)
(* insertBlocked, and the end of SYS3, SYS5 and SYS7: the current process  *)
(* joins the queue of semaphore s and the scheduler is called.             *)
(***************************************************************************)
Block_NoKey(s) ==
  /\ procQ' = [procQ EXCEPT ![s] = insertProcQ(@, currentProcess)]
  /\ softBlockCount' = softBlockCount + 1
  /\ scheduler(readyQueue, processCount, softBlockCount + 1)
  /\ UNCHANGED p_semAdd

Block(s) ==
  /\ procQ' = [procQ EXCEPT ![s] = insertProcQ(@, currentProcess)]
  /\ p_semAdd' = [p_semAdd EXCEPT ![currentProcess] = s]
  /\ softBlockCount' = softBlockCount + 1
  /\ scheduler(readyQueue, processCount, softBlockCount + 1)

\* SYS3, passeren: the process goes on if the value allows it, and also if
\* insertBlocked fails.
Passeren_OffByOne(s) ==
  /\ cpu = "run" /\ SoftBounded
  /\ semVal' = [semVal EXCEPT ![s] = @ - 1]
  /\ IF semVal[s] < 0 /\ ~NoDescriptor(s)
       THEN Block(s)
       ELSE UNCHANGED <<p_semAdd, procQ, softBlockCount, readyQueue,
                        currentProcess, cpu, reg_v0>>
  /\ UNCHANGED <<treeVars, busy, heads>>

Passeren(s) ==
  /\ cpu = "run" /\ SoftBounded
  /\ semVal' = [semVal EXCEPT ![s] = @ - 1]
  /\ IF semVal[s] - 1 < 0 /\ ~NoDescriptor(s)
       THEN Block(s)
       ELSE UNCHANGED <<p_semAdd, procQ, softBlockCount, readyQueue,
                        currentProcess, cpu, reg_v0>>
  /\ UNCHANGED <<treeVars, busy, heads>>

\* SYS4, verhogen.
Verhogen_WakesOrCounts(s) ==
  /\ cpu = "run" /\ SemBounded(s)
  /\ IF semVal[s] + 1 <= 0 /\ ~emptyProcQ(procQ[s])
       THEN /\ procQ'      = [procQ EXCEPT ![s] = removeProcQ(@)]
            /\ p_semAdd'   = [p_semAdd EXCEPT ![headProcQ(procQ[s])] = NULL]
            /\ readyQueue' = insertProcQ(readyQueue, headProcQ(procQ[s]))
            /\ softBlockCount' = softBlockCount - 1
            /\ UNCHANGED semVal
       ELSE /\ semVal' = [semVal EXCEPT ![s] = @ + 1]
            /\ UNCHANGED <<procQ, p_semAdd, readyQueue, softBlockCount>>
  /\ UNCHANGED <<treeVars, currentProcess, busy, cpu, heads, reg_v0>>

Verhogen(s) ==
  /\ cpu = "run" /\ SemBounded(s)
  /\ semVal' = [semVal EXCEPT ![s] = @ + 1]
  /\ IF semVal[s] + 1 <= 0 /\ ~emptyProcQ(procQ[s])
       THEN /\ procQ'      = [procQ EXCEPT ![s] = removeProcQ(@)]
            /\ p_semAdd'   = [p_semAdd EXCEPT ![headProcQ(procQ[s])] = NULL]
            /\ readyQueue' = insertProcQ(readyQueue, headProcQ(procQ[s]))
            /\ softBlockCount' = softBlockCount - 1
       ELSE UNCHANGED <<procQ, p_semAdd, readyQueue, softBlockCount>>
  /\ UNCHANGED <<treeVars, currentProcess, busy, cpu, heads, reg_v0>>

\* SYS5 and SYS7, waitForIO and waitForClock, always block; if insertBlocked
\* fails they return to the BIOS.
WaitFor(s) ==
  /\ cpu = "run" /\ SoftBounded /\ semVal[s] >= -MaxSem
  /\ semVal' = [semVal EXCEPT ![s] = @ - 1]
  /\ IF NoDescriptor(s)
       THEN /\ cpu' = "lost"
            /\ UNCHANGED <<p_semAdd, procQ, softBlockCount, readyQueue,
                           currentProcess, reg_v0>>
       ELSE Block(s)
  /\ UNCHANGED <<treeVars, busy, heads>>

WaitForIO(d) == WaitFor(d)
WaitForClock == WaitFor(Clock)

\* waitForIO with a line or device number out of range reads deviceSem at the
\* index they give and returns to the BIOS.
WaitForIO_OutOfRange ==
  /\ cpu = "run"
  /\ cpu' = "lost"
  /\ UNCHANGED <<treeVars, semVars, readyQueue, currentProcess, softBlockCount,
                 busy, heads, reg_v0>>

\* A program in kernel mode writes the command register of an idle device.
Command(d) ==
  /\ cpu = "run" /\ SemBounded(d)
  /\ d \notin busy
  /\ busy' = busy \cup {d}
  /\ UNCHANGED <<treeVars, semVars, readyQueue, currentProcess, softBlockCount,
                 cpu, heads, reg_v0>>

(***************************************************************************)
(* interruptHandler                                                        *)
(***************************************************************************)
\* Line 1, the processor's local timer: the time slice is over.
TimeSlice_Reload ==
  /\ cpu = "run"
  /\ UNCHANGED vars

TimeSlice ==
  /\ cpu = "run"
  /\ scheduler(insertProcQ(readyQueue, currentProcess), processCount, softBlockCount)
  /\ UNCHANGED <<treeVars, semVars, softBlockCount, busy, heads>>

\* Line 2, the interval timer: every process in the queue of the pseudo-clock
\* becomes ready.  Their p_semAdd stays.
ClockTick_WakesNone ==
  /\ Enabled
  /\ semVal' = [semVal EXCEPT ![Clock] = 0]
  /\ LoadOrSchedule(readyQueue, softBlockCount)
  /\ UNCHANGED <<treeVars, p_semAdd, procQ, softBlockCount, busy, heads>>

ClockTick_CountsOne ==
  /\ Enabled
  /\ semVal' = [semVal EXCEPT ![Clock] = 0]
  /\ procQ'  = [procQ EXCEPT ![Clock] = mkEmptyProcQ]
  /\ softBlockCount' = softBlockCount - 1
  /\ LoadOrSchedule(readyQueue \o procQ[Clock], softBlockCount - 1)
  /\ UNCHANGED <<treeVars, p_semAdd, busy, heads>>

ClockTick ==
  /\ Enabled
  /\ semVal' = [semVal EXCEPT ![Clock] = 0]
  /\ procQ'  = [procQ EXCEPT ![Clock] = mkEmptyProcQ]
  /\ softBlockCount' = softBlockCount - Len(procQ[Clock])
  /\ LoadOrSchedule(readyQueue \o procQ[Clock], softBlockCount - Len(procQ[Clock]))
  /\ UNCHANGED <<treeVars, p_semAdd, busy, heads>>

\* Lines 3 to 7: acknowledge, V the semaphore of the device and wake up its
\* oldest process, whose p_semAdd stays.  For a transmitter only if the status
\* is 5, character transmitted.
DeviceInterrupt(d) ==
  /\ Enabled
  /\ d \in busy \ Receiver
  /\ busy' = busy \ {d}
  /\ semVal' = [semVal EXCEPT ![d] = @ + 1]
  /\ IF semVal[d] + 1 <= 0 /\ ~emptyProcQ(procQ[d])
       THEN /\ procQ' = [procQ EXCEPT ![d] = removeProcQ(@)]
            /\ softBlockCount' = softBlockCount - 1
            /\ LoadOrSchedule(insertProcQ(readyQueue, headProcQ(procQ[d])),
                              softBlockCount - 1)
       ELSE /\ LoadOrSchedule(readyQueue, softBlockCount)
            /\ UNCHANGED <<procQ, softBlockCount>>
  /\ UNCHANGED <<treeVars, p_semAdd, heads>>

\* Line 7, a character received, or a transmission that ended with any other
\* status: the handler does nothing, not even acknowledge it, and the interrupt
\* stays.  Left open here: how the operation ends, and that a transmitter that
\* failed has nothing else to be served; module Interrupts has both.
IgnoredInterrupt(d) ==
  /\ Enabled
  /\ d \in busy \cap (Receiver \cup Transmitter)
  /\ LoadOrSchedule(readyQueue, softBlockCount)
  /\ UNCHANGED <<treeVars, semVars, softBlockCount, busy, heads>>

\* HALT and PANIC stop the machine, and the code says nothing of "lost".
Stopped == cpu \in {"halt", "panic", "lost"} /\ UNCHANGED vars

Sys2Helper == KillChild \/ KillBlocked \/ KillStale \/ KillReady \/ KillCurrent

Syscall ==
  \/ \E sup \in Support : CreateProcess(sup)
  \/ TerminateProcess
  \/ \E s \in UserSem : Passeren(s) \/ Verhogen(s)
  \/ \E d \in Device : WaitForIO(d)
  \/ WaitForClock
  \/ WaitForIO_OutOfRange

Interrupt ==
  \/ TimeSlice
  \/ ClockTick
  \/ \E d \in Device : DeviceInterrupt(d) \/ IgnoredInterrupt(d)

Next ==
  \/ Syscall
  \/ Sys2Helper
  \/ passupOrDie
  \/ \E d \in Device : Command(d)
  \/ Interrupt
  \/ Stopped

Spec == Init /\ [][Next]_vars

(***************************************************************************)
(* The kernel finishes what it has begun; the local timer runs down while  *)
(* a process executes; the interval timer's interrupt stays pending until  *)
(* it is taken, which masking it for a while only delays.  Programs owe    *)
(* nothing: they may compute forever.                                      *)
(***************************************************************************)
Fairness ==
  /\ WF_vars(Sys2Helper)
  /\ WF_vars(cpu = "trap" /\ passupOrDie)
  /\ WF_vars(TimeSlice)
  /\ SF_vars(ClockTick)

FairSpec == Spec /\ Fairness

------------------------------------------------------------------------------
(***************************************************************************)
(* Type correctness: every field holds what its C type and the tables      *)
(* allow, and the bounds of the model are the bounds of the counters.      *)
(***************************************************************************)
TypeOK ==
  /\ pcbFree \subseteq Pcb
  /\ p_prnt \in [Pcb -> Pcb \cup {NULL}]
  /\ p_child \in [Pcb -> Seq(Pcb)]
  /\ p_semAdd \in [Pcb -> Sem \cup {NULL}]
  /\ p_supportStruct \in [Pcb -> BOOLEAN]
  /\ readyQueue \in Seq(Pcb)
  /\ currentProcess \in Pcb \cup {NULL}
  /\ processCount \in 0 .. MAXPROC
  /\ softBlockCount \in Int
  /\ semVal \in [Sem -> Int]
  /\ procQ \in [Sem -> Seq(Pcb)]
  /\ busy \subseteq Device
  /\ cpu \in Cpu
  /\ heads \in Seq(Pcb)
  /\ reg_v0 \in {NULL, 0, -1}
  /\ cpu \in {"run", "kill", "trap"} => currentProcess # NULL
  /\ cpu \in {"wait", "halt", "panic"} => currentProcess = NULL
  /\ cpu = "kill" <=> heads # <<>>

Live    == Pcb \ pcbFree
Blocked == UNION {ToSet(procQ[s]) : s \in Sem}

NoDuplicates ==
  IsInjective(readyQueue) /\ \A s \in Sem : IsInjective(procQ[s])

OnePlace ==
  /\ currentProcess \notin pcbFree \cup ToSet(readyQueue) \cup Blocked
  /\ pcbFree \cap (ToSet(readyQueue) \cup Blocked) = {}
  /\ ToSet(readyQueue) \cap Blocked = {}
  /\ \A s, t \in Sem : s # t => ToSet(procQ[s]) \cap ToSet(procQ[t]) = {}

SomePlace ==
  Live = ({currentProcess} \ {NULL}) \cup ToSet(readyQueue) \cup Blocked

(***************************************************************************)
(* ``Processes can't hide'': whatever handlers have run, also in the       *)
(* middle of a SYS2 and after a bus error cut one short, each process is   *)
(* the current one, once in the ready queue or once in the queue of one    *)
(* semaphore, and none is a free pcb.                                      *)
(***************************************************************************)
NoHiding == NoDuplicates /\ OnePlace /\ SomePlace

(***************************************************************************)
(* processCount is the number of pcbs in use, which is what HALT and PANIC *)
(* are decided by: no exit of a partly done SYS2 counts one twice.         *)
(***************************************************************************)
ProcessCountExact == processCount = Cardinality(Live)

(***************************************************************************)
(* The links of the tree agree in both directions, no pcb is its own       *)
(* ancestor, and a free pcb is nobody's parent or child, so SYS2 never     *)
(* follows a link into a pcb that belongs to someone else by now.          *)
(***************************************************************************)
TreeConsistent ==
  /\ \A p, q \in Pcb : q \in ToSet(p_child[p]) <=> p_prnt[q] = p
  /\ \A p \in Pcb : IsInjective(p_child[p])
  /\ \A p \in pcbFree : p_prnt[p] = NULL /\ p_child[p] = <<>>
  /\ \A S \in (SUBSET Pcb) \ {{}} : \E p \in S : p_prnt[p] \notin S

(***************************************************************************)
(* The guide's invariant of semaphores: a negative value is the number of  *)
(* processes blocked.  For the semaphores of programs it survives the      *)
(* killing of blocked processes.  The clock's value may be lower (a killed *)
(* process leaves its P behind) but never hides a waiting process.         *)
(***************************************************************************)
SemaphoreCountsWaiters ==
  /\ \A s \in UserSem : Len(procQ[s]) = IF semVal[s] < 0 THEN -semVal[s] ELSE 0
  /\ Len(procQ[Clock]) <= -semVal[Clock]

(***************************************************************************)
(* outBlocked finds the queue of a blocked process through p_semAdd; and   *)
(* where p_semAdd is out of date it names a device, never a semaphore of a *)
(* program, whose value SYS2 would then raise for nobody.                  *)
(***************************************************************************)
SemAddReliable ==
  /\ \A s \in Sem : \A p \in ToSet(procQ[s]) : p_semAdd[p] = s
  /\ \A p \in Live \ Blocked : p_semAdd[p] \in DeviceSem \cup {NULL}

(***************************************************************************)
(* insertBlocked never fails: with as many descriptors as pcbs, a process  *)
(* that can make a system call finds one.  The callers need it: on failure *)
(* SYS3 enters its critical section and SYS5 and SYS7 return to the BIOS.  *)
(***************************************************************************)
DescriptorAvailable == cpu = "run" => \A s \in Sem : ~NoDescriptor(s)

(***************************************************************************)
(* The processor waits or stops only with nothing left to run, whichever   *)
(* handler called the scheduler, and HALT comes when every pcb is free.    *)
(***************************************************************************)
IdleRules ==
  /\ cpu \in {"wait", "panic"} => Live # {} /\ Live = Blocked
  /\ cpu = "halt" => Live = {}

(***************************************************************************)
(* SYS2 and what the exceptions do in its place take the current process   *)
(* and its progeny, and nobody else: of the processes outside a set with   *)
(* those in it none is freed or loses its parent, in any step.  While      *)
(* sys2Helper runs and after its bus error each of them also stays in its  *)
(* queue, until the scheduler takes one that is ready, and the set still   *)
(* holds all there is left to terminate.                                   *)
(***************************************************************************)
InHand(S) ==
  /\ ({currentProcess} \ {NULL}) \cup ToSet(heads) \subseteq S
  /\ \A p \in S : ToSet(p_child[p]) \subseteq S

Spared(p) ==
  /\ p \notin pcbFree' /\ p_prnt'[p] = p_prnt[p]
  /\ cpu \in {"kill", "trap"} =>
       /\ \A s \in Sem : p \in ToSet(procQ[s]) <=> p \in ToSet(procQ'[s])
       /\ p \in ToSet(readyQueue) <=> p \in ToSet(readyQueue') \cup {currentProcess'}

KillsOnlyProgeny ==
  [][\A S \in SUBSET Pcb : InHand(S) =>
       /\ \A p \in Live \ S : Spared(p)
       /\ cpu' \in {"kill", "trap"} => InHand(S)']_vars

(***************************************************************************)
(* softBlockCount, by which the scheduler tells a wait from a deadlock,    *)
(* follows the number of blocked processes through every handler.  Only    *)
(* SYS2 makes it wrong: one too high for each process it terminates on a   *)
(* program's semaphore, one too low for each bus error it ends in.  So     *)
(* PANIC, which comes when processes are left, all blocked, and the count  *)
(* is 0, comes after such a bus error only, and never for a deadlock.      *)
(***************************************************************************)
Drift == softBlockCount - Cardinality(Blocked)

CountDrifts ==
  [][\/ Drift' = Drift
     \/ /\ Drift' = Drift + 1
        /\ cpu = "kill" /\ \E s \in UserSem : head \in ToSet(procQ[s])
     \/ Drift' = Drift - 1 /\ cpu = "kill" /\ cpu' = "trap"]_vars

(***************************************************************************)
(* SYS2 comes to an end, however the recursion and the bus errors it       *)
(* causes alternate: the processor goes back to a process, waits or stops. *)
(***************************************************************************)
KillEnds == cpu \in {"kill", "trap"} ~> cpu \notin {"kill", "trap"}

(***************************************************************************)
(* Round robin: if SYS2 is not called on process trees for ever and no     *)
(* handler is lost, every ready process gets the processor.                *)
(***************************************************************************)
Runs(p) == p \in ToSet(readyQueue) ~> p \notin ToSet(readyQueue)

ReadyRuns == <>[](cpu \in {"run", "wait"}) => \A p \in Pcb : Runs(p)

(***************************************************************************)
(* No process sleeps on the pseudo-clock for ever, unless the machine      *)
(* stops.                                                                  *)
(***************************************************************************)
ClockWakes ==
  \A p \in Pcb : p \in ToSet(procQ[Clock])
                   ~> p \notin ToSet(procQ[Clock]) \/ cpu \in {"panic", "lost"}

(***************************************************************************)
(* exceptions.h on terminateProcess: ``Termina un processo e tutta la      *)
(* progenie''.  Only the first process has no parent, so none that is left *)
(* running is the orphan of a process that was terminated.                 *)
(***************************************************************************)
NoOrphan ==
  Enabled => Cardinality({p \in Live : p_prnt[p] = NULL}) <= 1

(***************************************************************************)
(* The guide, 3.2: ``Your Nucleus should guarantee finite progress;        *)
(* consequently, every ready process will have an opportunity to           *)
(* execute'', whatever system calls the others make, SYS2 on process trees *)
(* again and again included.                                               *)
(***************************************************************************)
FiniteProgress == \A p \in Pcb : Runs(p)
==============================================================================
