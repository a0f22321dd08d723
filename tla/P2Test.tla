------------------------------- MODULE P2Test -------------------------------
(***************************************************************************)
(* The test program of the nucleus (src/phase3/p2test.c, which            *)
(* src/phase2/p2test.c equals but for the names of three fields): the      *)
(* processes p1 to p8, what they do to each other through semaphores, the  *)
(* clock, the terminal and SYS2, one system call or exception at a time.   *)
(* Every step of the nucleus in it is an action of Nucleus.                *)
(*                                                                         *)
(* The code of a process is a sequence of instructions: its system calls,  *)
(* the characters it sends and the exceptions it causes.  What it computes *)
(* in between and the states it prepares for SYS1 are left out.            *)
(***************************************************************************)
EXTENDS Nucleus

CONSTANTS
  MsgLen,          \* bound: characters of a message
  CLOCKLOOP,       \* bound: WAITCLOCKs of p3, 10 in p2test.c
  Incarnations,    \* bound: incarnations of p8, 4 in p2test.c
  MaxSlices,       \* bound: how often the local timer preempts a process
  EarlyInterrupt,  \* may a character be sent before its SYS5?
  Handlers         \* the TLB refill handlers: "exceptions" is that of
                   \* exceptions.c, "test" the one the test was written with,
                   \* commented out by now

ASSUME TestAssumption ==
  /\ {"term_mut", "testsem", "s", "startp2", "endp2", "endp3", "blkp4", "synp4",
      "endp4", "endp5", "endp8", "endcreate", "blkp8"} \subseteq UserSem
  /\ "terminal" \in Transmitter
  /\ Support = BOOLEAN /\ Pcb \subseteq Nat
  /\ MsgLen \in Nat /\ CLOCKLOOP \in Nat /\ Incarnations \in Nat /\ MaxSlices \in Nat
  /\ EarlyInterrupt \in BOOLEAN /\ Handlers \subseteq {"exceptions", "test"}

VARIABLES
  pc,      \* for each pcb its program and the instruction it is at
  slices,  \* the preemptions so far
  idled,   \* processes that slept on the clock while the processor was idle
  handler  \* the refill handler the kernel was linked with

allVars == <<vars, pc, slices, idled, handler>>

(***************************************************************************)
(* Instructions                                                            *)
(***************************************************************************)
P(s)              == <<"P", s>>
V(s)              == <<"V", s>>
Create(prog, sup) == <<"create", prog, sup>>
Char              == <<"char">>      \* a character to the transmitter
Wait              == <<"wait">>      \* WAITIO for it
Clockwait         == <<"clock">>
\* Back to the WAITCLOCK before, unless half a clock interval has passed.
UntilHalf         == <<"half">>
Exit              == <<"exit">>      \* TERMINATETHREAD
Trap              == <<"trap">>      \* an exception, or a SYS above 8
Store             == <<"store">>     \* at page 0x80000, which has no TLB entry

Repeat(n, body) == FlattenSeq([i \in 1 .. n |-> body])

print == <<P("term_mut")>> \o Repeat(MsgLen, <<Char, Wait>>) \o <<V("term_mut")>>

\* p1, the root.  Its last store, at BADADDR, ends it.
test ==
  <<V("testsem")>> \o print
    \o <<Create("p2", FALSE)>> \o print
    \o <<V("startp2"), P("endp2"), Create("p3", FALSE)>> \o print
    \o <<P("endp3"), Create("p4", FALSE), Create("p5", TRUE),
         Create("p6", FALSE), Create("p7", FALSE), P("endp5")>> \o print
    \o <<P("blkp4")>>
    \o Repeat(Incarnations, <<Create("p8root", FALSE), P("endp8")>>)
    \o print \o <<Trap>>

\* One semaphore stands for those of the array s, which are used alike.
p2 == <<P("startp2")>> \o print \o <<V("s"), P("s")>> \o print \o print
        \o <<V("endp2"), Exit>>

p3 == <<Clockwait, UntilHalf>> \o print \o Repeat(CLOCKLOOP, <<Clockwait>>)
        \o print \o <<V("endp3"), Exit>>

\* Both incarnations.  The second is to block at P(blkp4).
p4 == print \o <<V("synp4"), P("blkp4"), P("synp4"), Create("p4", FALSE),
                 P("synp4")>>
        \o print \o <<V("endp4"), Exit>>

\* p5 and its handlers, which the exceptions of p5 lead to one after another:
\* a bus error; a TLB exception after a TLB refill; an address error in user
\* mode; a system call above 8.
p5gen == print
p5mm  == print \o print
p5sys == print
p5a   == <<Store>> \o p5mm
p5b   == <<Trap>> \o p5gen \o <<Trap>> \o p5sys
           \o <<P("endp4"), Clockwait, UntilHalf, V("blkp4"), V("endp5"), Exit>>
p5    == print \o <<Trap>> \o p5gen \o p5a \o p5b

p6 == print \o <<Trap>>
p7 == print \o <<Trap>>

p8root == print \o <<Create("child1", FALSE), Create("child2", FALSE)>>
            \o Repeat(4, <<P("endcreate")>>) \o <<V("endp8"), Exit>>
child1 == print \o <<Create("p8leaf", FALSE), Create("p8leaf", FALSE), P("blkp8")>>
child2 == print \o <<Create("p8leaf", FALSE), Create("p8leaf", FALSE), P("blkp8")>>
p8leaf == print \o <<V("endcreate"), P("blkp8")>>

Code == [test |-> test, p2 |-> p2, p3 |-> p3, p4 |-> p4, p5 |-> p5, p6 |-> p6,
         p7 |-> p7, p8root |-> p8root, child1 |-> child1, child2 |-> child2,
         p8leaf |-> p8leaf]

Nowhere == <<"test", 0>>
Start(prog) == <<prog, 1>>
Instruction(p) == Code[pc[p][1]][pc[p][2]]

(***************************************************************************)
(* What a step of the nucleus does to the variables of this module.  A     *)
(* free pcb runs nothing.                                                  *)
(***************************************************************************)
Counters(f) == pc' = [p \in Pcb |-> IF p \in pcbFree' THEN Nowhere ELSE f[p]]

Sleepers(S) ==
  idled' = (IF cpu' = "wait" THEN S \cup ToSet(procQ'[Clock]) ELSE S) \ pcbFree'

Jump(n) == [pc EXCEPT ![currentProcess][2] = @ + n]

(***************************************************************************)
(* The instructions.  The pcb of a new process is the smallest free one:   *)
(* pcbs are alike.                                                         *)
(***************************************************************************)
RunCreate(prog, sup) ==
  /\ CreateProcess(sup)
  /\ LET new == pcbFree \ pcbFree' IN
       /\ \A son \in new, p \in pcbFree : son <= p
       /\ Counters([p \in Pcb |-> IF p \in new THEN Start(prog) ELSE Jump(1)[p]])
  /\ Sleepers(idled)

\* With the refill handler that the test was written with, which gives page
\* 0x80000 an entry that is not valid, the store is a TLB exception.
InvalidEntry == handler = "test" /\ passupOrDie

Simple(instr) ==
  \/ instr = Exit /\ TerminateProcess
  \/ instr = Trap /\ passupOrDie
  \/ instr = Store /\ InvalidEntry
  \/ instr = Char /\ Command("terminal")
  \/ instr = Wait /\ WaitForIO("terminal")
  \/ \E s \in UserSem : instr = P(s) /\ Passeren(s)
  \/ \E s \in UserSem : instr = V(s) /\ Verhogen(s)

RunSimple ==
  /\ Simple(Instruction(currentProcess))
  /\ Counters(Jump(1))
  /\ Sleepers(idled)

\* The page table of p5 is empty: the entry that exceptions.c writes for page
\* 0x80000 is one for page 0.  The store is tried again, and refilled again.
RefillAgain ==
  /\ handler = "exceptions"
  /\ Instruction(currentProcess) = Store
  /\ UNCHANGED <<vars, pc, idled>>

RunClockwait ==
  /\ Instruction(currentProcess) = Clockwait
  /\ WaitForClock
  /\ Counters(Jump(1))
  /\ Sleepers(idled \ {currentProcess})

\* Processes compute for less than half a clock interval before all of them
\* wait, so a sleep that long has seen the processor idle.
HalfPassed ==
  /\ cpu = "run"
  /\ Instruction(currentProcess) = UntilHalf
  /\ currentProcess \in idled
  /\ pc' = Jump(1)
  /\ idled' = idled \ {currentProcess}
  /\ UNCHANGED vars

HalfNotPassed ==
  /\ cpu = "run"
  /\ Instruction(currentProcess) = UntilHalf
  /\ pc' = Jump(-1)
  /\ UNCHANGED <<vars, idled>>

Execute ==
  /\ cpu = "run"
  /\ \/ RunSimple \/ RunClockwait \/ HalfPassed \/ HalfNotPassed
     \/ RefillAgain
     \/ \E prog \in DOMAIN Code, sup \in BOOLEAN :
          Instruction(currentProcess) = Create(prog, sup) /\ RunCreate(prog, sup)
  /\ UNCHANGED <<slices, handler>>

(***************************************************************************)
(* What happens to the processes.                                          *)
(***************************************************************************)
Kernel(action) == action /\ Counters(pc) /\ Sleepers(idled)

Terminating == Kernel(Sys2Helper) /\ UNCHANGED <<slices, handler>>
BusError    == cpu = "trap" /\ Kernel(passupOrDie) /\ UNCHANGED <<slices, handler>>
Tick        == Kernel(ClockTick) /\ UNCHANGED <<slices, handler>>

Sent ==
  /\ EarlyInterrupt \/ ~emptyProcQ(procQ["terminal"])
  /\ Kernel(DeviceInterrupt("terminal"))
  /\ UNCHANGED <<slices, handler>>

Preempt ==
  /\ slices < MaxSlices
  /\ ~emptyProcQ(readyQueue)
  /\ Kernel(TimeSlice)
  /\ slices' = slices + 1
  /\ UNCHANGED handler

Halted == Stopped /\ UNCHANGED <<pc, slices, idled, handler>>

\* main() has started `test', and the semaphores have their initial values.
TestInit ==
  /\ semVal = [s \in Sem |-> IF s \in {"term_mut", "blkp4"} THEN 1 ELSE 0]
  /\ Init
  /\ \A p \in Pcb : currentProcess <= p
  /\ pc = [p \in Pcb |-> IF p = currentProcess THEN Start("test") ELSE Nowhere]
  /\ slices = 0
  /\ idled = {}
  /\ handler \in Handlers

TestNext ==
  Execute \/ Terminating \/ BusError \/ Tick \/ Sent \/ Preempt \/ Halted

TestSpec == TestInit /\ [][TestNext]_allVars

(***************************************************************************)
(* Processes and kernel execute, a character is sent in the end, without   *)
(* an error, ticks go on coming, and a process that waits for the clock    *)
(* again and again will at some time have waited long enough.              *)
(***************************************************************************)
FairTest ==
  /\ TestSpec
  /\ WF_allVars(Execute) /\ WF_allVars(Terminating) /\ WF_allVars(BusError)
  /\ WF_allVars(Sent)
  /\ SF_allVars(Tick) /\ SF_allVars(HalfPassed /\ UNCHANGED <<slices, handler>>)

------------------------------------------------------------------------------
\* A process other than the root has lost its parent to a SYS2 cut short.
Orphaned == Enabled /\ Cardinality({p \in Live : p_prnt[p] = NULL}) > 1

At(p, prog) == p \in Live /\ pc[p][1] = prog

RefillsForEver ==
  handler = "exceptions" /\ cpu = "run" /\ Instruction(currentProcess) = Store

(***************************************************************************)
(* The test comes to its end, ``System halted'', with every process gone,  *)
(* unless a character's interrupt was there before the SYS5 for it, a SYS2 *)
(* left an orphan behind, or p5 gets to the refill that has no end:        *)
(* nothing else, no preemption and no order of interrupts, makes it hang   *)
(* or panic.                                                               *)
(***************************************************************************)
TestEnds ==
  <>(cpu = "halt" \/ semVal["terminal"] > 0 \/ Orphaned \/ RefillsForEver)

(***************************************************************************)
(* Messages do not mix: between its P(term_mut) and its V(term_mut) a      *)
(* process is alone, also when others have been terminated meanwhile.      *)
(***************************************************************************)
Printing == {p \in Live : p \notin ToSet(procQ["term_mut"]) /\ pc[p][2] > 0
               /\ pc[p][2] <= Len(Code[pc[p][1]])
               /\ Instruction(p) \in {Char, Wait, V("term_mut")}}

PrintExclusive == Cardinality(Printing) <= 1

(***************************************************************************)
(* No process takes the terminal with it when it ends or is terminated:    *)
(* the semaphore accounts for the one that prints and those that wait.     *)
(***************************************************************************)
PrintReturned ==
  cpu # "lost" => semVal["term_mut"] =
       1 - Cardinality(Printing) - Len(procQ["term_mut"])

(***************************************************************************)
(* p5 on V(blkp4): ``if p4 and offspring are really dead, this will        *)
(* increment blkp4''.  They are, in every interleaving, except for an      *)
(* orphan that a SYS2 cut short has left.                                  *)
(***************************************************************************)
P4Dead ==
  cpu = "run" /\ Instruction(currentProcess) = V("blkp4")
    => Orphaned \/ ~\E p \in Live : At(p, "p4")

(***************************************************************************)
(* Line 1 of the expected output of the test (term0-Phase2.umps), ``p1     *)
(* v(testsem)'', is printed in the end.                                    *)
(***************************************************************************)
FirstLine == <>(\E p \in Live : At(p, "test") /\ pc[p][2] > 1 + Len(print))
==============================================================================
