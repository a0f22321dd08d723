# A TLA+ verification of the PandOS nucleus

This directory models the operating system of this repository: the nucleus
under `src/src` with its headers in `src/include` (paths here are those of the
repository, below `src/`). TLC checks the models on small instances; TLAPS
proves the safety properties, and that the pointers of phase 1 implement the
sequences that the nucleus works on, for any number of processes, semaphores and
devices. "The guide" is `src/pandos.pdf`, the specification the code was
written to.

## 1. The system

PandOS runs on a uMPS3 machine with one MIPS processor. The nucleus has no
threads of its own: it is entered by a system call, a program exception, a TLB
miss or an interrupt, works on global variables with interrupts masked, and
leaves by loading a processor state (`LDST`, `LDCXT`), waiting (`WAIT`) or
stopping (`HALT`, `PANIC`). The components communicate only by calls and
through those globals.

| Component | State | Operations | What makes it correct |
|---|---|---|---|
| Queues and free list, `pcb.c` | `pcbfree_h`, tail pointers, `p_next`/`p_prev` | `allocPcb`, `freePcb`, `insertProcQ`, `removeProcQ`, `outProcQ`, `headProcQ` | every ring closes, no pcb in two lists, none lost; the functions compute what callers think |
| Process tree, `pcb.c` | `p_prnt`, `p_child`, sibling pointers | `insertChild`, `removeChild`, `outChild` | links agree both ways, no cycle, free pcbs unlinked |
| Active semaphore list, `asl.c` | sorted list of descriptors, free descriptors, `s_procQ`, `p_semAdd` | `insertBlocked`, `removeBlocked`, `outBlocked`, `headBlocked` | a semaphore has a descriptor exactly while processes wait; descriptors never run out |
| Initialisation, `initial.c` | pass-up vectors, `deviceSem`, counts | `main` | `test` is the only process |
| Scheduler, `scheduler.c` | `readyQueue`, `currentProcess`, counts | `scheduler` | round robin; HALT, PANIC and wait exactly when due |
| System calls, `exceptions.c` | all of these | SYS1 to SYS8, `sys2Helper` | counts stay exact, a process is in one place, SYS2 ends and takes the whole progeny |
| Exception dispatch, `exceptions.c` | saved state, support structure | `exceptionHandler`, `passupOrDie`, `trapHandler`, `tlbHandler` | passes up or terminates, never resumes |
| Interrupts, `interrupts.c` | `deviceSem`, device registers | local timer, interval timer, devices | no wake-up lost or done twice; the interrupted process goes on |
| TLB refill, `exceptions.c` | page table, TLB | `uTLB_RefillHandler` | reads the entry of the page that was missed |
| CPU time | `p_time`, `initialTOD`, `currentTOD` | on every entry and exit | a process is charged for what it ran |
| Swap pool and pager, `vmSupport.c` | swap pool table, `swapPoolSem` | `initSwapStructs`, `pager`, `getFrame` | one page per frame, mutual exclusion (unfinished in the source) |
| User processes, `initProc.c`, `sysSupport.c` | support structures, `mainSem` | `initUserProc`, `testo` | start and join all user processes (unfinished) |
| Test of the nucleus, `p2test.c` | its semaphores, shared counters | p1 to p8 | messages do not mix, the test ends |
| Other programs and tests | their own | `p1test.c`, `testPrograms`, `daDavoli` | external to the nucleus |

`main` starts `test`, which is linked with the nucleus; in this commit that is
the test of phase 2 or phase 3. `testo`, the first process of the support
level, is in the source but not yet started by `main`.

### Where the difficulty is

* **SYS2 is a recursion over a tree that changes under it.** A process may be
  current, ready or blocked; `sys2Helper` decides by `p_semAdd`, leaves the
  matching queue, adjusts the matching count and frees the pcb.
* **`p_semAdd` goes stale.** `removeBlocked` inside SYS4 is followed by a reset
  of `p_semAdd`; `interruptHandler` has no such reset. A process that once
  waited for a device or the clock looks blocked for ever. `outBlocked` then
  returns NULL, `freePcb(NULL)` stores at address 0, and the **bus error is
  taken inside SYS2**: its recursion is abandoned half way and the exception
  goes through pass up or die for the process that called SYS2.
* **Counts drift.** SYS3 raises `softBlockCount` as SYS5 does, SYS2 lowers it
  for devices only, and a stale `p_semAdd` lowers it once too often. The
  scheduler's choice of HALT, PANIC or wait rests on it.
* **`outProcQ` rotates.** Taking out the newest element moves the tail pointer
  the wrong way, to the oldest element, which becomes the newest.
* **Interrupts meet every state**: a running process, the wait state with one
  process that can run, a semaphore left at -1 by a process killed in its wait,
  a process that has written its command and not yet called SYS5. One is served
  per call of the handler, the lowest line and device first, and those of a
  received character and of a failed transmission are never acknowledged.
* **Lists of descriptors and siblings** are threaded through fields that keep
  old values when a node leaves: `p_next_sib`, `p_prev_sib`, `s_next`.
* **The clock is read in six places** into a global that each of them has to
  set for the next, and it wraps around.
* **The support level is a torso**: the refill handler has an index that one
  page of a process does not fit, the pager takes a semaphore and never returns
  it, and a refill for an empty page table never ends.

`PROJECT.json` lists these as hazards, each at its line, with the properties
that watch it.

## 2. The modules

Everything above the data structures is built on `Nucleus`; `A <-- B` reads "B
extends A", `==>` "implements".

    ProcQ <--+-- Nucleus <--+-- MCNucleus, MCRelay             (TLC)
             |              +-- P2Test, VmSupport              (TLC)
             |              +-- CpuTime, Interrupts
             |              +-- NucleusProofs                  (TLAPS)
             +-- PcbPool, BlockedQ

    Links <-- PcbList  ==> PcbPool   <-- MCPhase1               (TLC)
          <-- ProcTree ==> Forest    \__ instances in MCPhase1
          <-- Asl      ==> BlockedQ  /
    CpuTime, Interrupts ==> Nucleus, instances in MCMachine    (TLC)

    ProcQProofs <-- NucleusProofs <-- P2TestProofs, VmSupportProofs,
                |                     MachineProofs            (TLAPS)
                +-- ProcTreeProofs, AslProofs <-- Phase1Proofs (TLAPS)

| Module | Models | Lines of code it stands for |
|---|---|---|
| `ProcQ` | a process queue as the sequence of its elements, oldest first; the queue functions as operators, `outProcQ`'s rotation (`DropNewest`) included | `pcb.c` 83-212 |
| `PcbPool` | what the lists of `pcb.c` promise: a pool and queues of sequences | the same, as an abstract specification |
| `Links` | following a link from node to node, as every loop of phase 1 does | `pcb.c` 234-238 |
| `PcbList` | the pointers: `pcbfree_h`, tail pointers, `p_next`, `p_prev`, every assignment to them | `pcb.c` 7-203 |
| `Forest` | what the tree promises: the sequence of children of each pcb | `pcb.c` 218-294, abstract |
| `ProcTree` | the pointers `p_prnt`, `p_child`, `p_next_sib`, `p_prev_sib` | the same |
| `BlockedQ` | what the ASL promises: one queue per semaphore, and a failure only when all descriptors are in use | `asl.c`, abstract |
| `Asl` | the sorted list, the free list, every function | `asl.c` 10-181 |
| `Nucleus` | processes, tree, semaphores, scheduler, system calls, pass up or die, interrupts | `initial.c`, `scheduler.c`, `exceptions.c`, `interrupts.c`, and the parts of `pcb.c` and `asl.c` they call |
| `CpuTime` | the clock, `initialTOD`, `p_time`, SYS6, on `Nucleus` | `exceptions.c` 271-303, `interrupts.c` 41-53, `scheduler.c` 8-17 |
| `Interrupts` | pending interrupts, `findLine`, `findDevice`, the order in which they are served, on `Nucleus` | `interrupts.c` 6-110 |
| `P2Test` | the processes of `p2test.c`, as programs of `Nucleus` | `phase3/p2test.c`; the handler of `phase2/test.c` 134-142 |
| `VmSupport` | `testo` and its user processes, the refill handler, the pager, as programs of `Nucleus` | `initProc.c`, `vmSupport.c`, `exceptions.c` 22-55 |
| `MCNucleus`, `MCRelay`, `MCPhase1`, `MCMachine` | nothing; instances for TLC. `MCRelay` restricts the open programs of `Nucleus` to one | |
| `ProcQProofs` | lemmas on queues, for every queue | |
| `NucleusProofs`, `P2TestProofs`, `VmSupportProofs`, `MachineProofs` | invariants and theorems of the nucleus and of what runs on it | |
| `ProcTreeProofs`, `AslProofs`, `Phase1Proofs` | invariants and refinements of the tree and of the ASL; those of the lists, and of all three together | |

`Nucleus` works on sequences and sets: `p_child[p]`, `procQ[s]`, `readyQueue`.
That these are what the pointers of `pcb.c` and `asl.c` amount to is what the
refinements `ImplementsPool`, `ImplementsForest` and `ImplementsBlockedQ` say,
value by value that the functions return.

### How Nucleus corresponds to the code

**Variables** have the names of the code's globals and fields. Exceptions:
`procQ[s]` is `s_procQ` of the descriptor of semaphore `s`, empty when `s` is
not on the ASL; `semVal[s]` the integer at the semaphore's address; `busy` the
devices with a finished or running operation not acknowledged; `cpu` what the
processor is doing; `heads` the call stack of `sys2Helper`; `reg_v0` the result
of SYS1 still in the register of the running process. Sibling pointers are the
order of `p_child[p]`.

**Steps.** Interrupts are masked in a handler, so a handler is one action,
including the call to `scheduler()` at its end: `CreateProcess`,
`Passeren`, `Verhogen`, `WaitForIO`, `WaitForClock`, `passupOrDie`,
`TimeSlice`, `ClockTick`, `DeviceInterrupt`, `IgnoredInterrupt`. SYS2 is finer,
because an exception can fall into it: `KillChild` is a turn of the loop of
`sys2Helper` with its recursive call, and `KillBlocked`, `KillReady`,
`KillCurrent` are the end of a call, by the place of the process. `KillStale`
is the call that ends in `freePcb(NULL)`: `cpu` becomes `"trap"`, the stack is
gone, and `passupOrDie` is next, on the tree as the unfinished SYS2 left it.

**`"lost"`** stands for a handler that returns to the BIOS (SYS5 with a line
out of range; a failed `insertBlocked`) and for a `scheduler()` that returns
because `softBlockCount` is negative. The code does not say what follows; the
model stops there and counts nothing of it as correct.

**Programs are open.** The current process may make any system call with any
argument at any time, raise an exception, write a device's command register
(`Command`) or compute for ever. Nothing is assumed of their protocol. A
semaphore of a program starts at any value from 0: the programs of the
repository initialise theirs to 0 or 1.

**Terminals.** The handler looks at a transmitter only if its status is 5, and
at a receiver never. `DeviceInterrupt` is the first case, `IgnoredInterrupt` all
others: the handler does nothing and the device stays in `busy`, so it gets no
other command. `Nucleus` leaves open how an operation ends; `Interrupts` says
which device the handler is called for.

**Abstracted.** Processor states and their copies; times (see `CpuTime`);
status words of devices; addresses (a semaphore is a name, its device index
another); printing; the order of lines and devices within one interrupt (any
pending one may be served first; `Interrupts` has the order of the code). After a bus error inside
SYS2 the state passed up is one of the kernel's; a program's exception handler
that loads it again, in kernel mode, to go on inside `sys2Helper` is left out.

**Bounds of `Nucleus`.** `MaxSem`: SYS4 does not raise a semaphore above `MaxSem`; a device
whose semaphore has reached it gets no new command; and no process waits for a
device or the clock whose semaphore is below `-MaxSem`, where kills may leave
it. `MaxDrift`: no process blocks or is created once `softBlockCount` is
further than `MaxDrift` outside `0..MAXPROC-1`. Both only stop the model from
going on; they cut no step short. In the proofs they are any natural numbers.

### The data structures

`PcbList`, `ProcTree` and `Asl` have one action per function of the source, and
call it with any arguments its callers may pass: `insertChild` with a pcb that
has no parent and is no ancestor of the new one, `outProcQ` and `outBlocked` also
with a pcb that has left its queue. `s_procQ` in `Asl` is a sequence, as `PcbList`
allows. An address of a semaphore is a number up to `MaxAdd`; the list of
`asl.c` has no dummies at its ends, unlike the one of the guide. `headProcQ`
follows `tp` without looking whether the queue is empty, against the comment
above it; its only caller, `headBlocked`, never passes an empty queue.

### P2Test

The code of each process is a sequence of instructions: P, V, SYS1, a character
to the terminal, SYS5, SYS7, SYS2, an exception, a store into a page without a
TLB entry. `pc` has the instruction of each process; every instruction is one
action of `Nucleus`, and interrupts and preemptions come in between. What the
processes compute and check between their calls is left out, except p3's and
p5's comparison of the clock: a process goes on from its WAITCLOCK loop
(`HalfPassed`) once it has slept while the processor was idle, because less
than half a clock interval of computing (50 ms) lies between two waits; it may
also be sent back.

The test was written with a refill handler of its own, `phase2/test.c`
134-142 and commented out in `phase3/p2test.c`, that gives a page an invalid
entry; this commit's handler in `exceptions.c` copies an entry of the page table
of the process. p5 has none filled in, so its store into page 0x80000 is refilled
with an entry for page 0 and tried again for ever. `handler` is either of the
two, and `TestEnds` names that end.

Its terminal transmits without errors: weak fairness of `Sent` asks of every
character that its status is 5.

**Bounds of `P2Test`.** `MsgLen` characters per message (1: a message of more
repeats the same two steps under the same semaphore), `CLOCKLOOP` and
`Incarnations` as in the source (10 and 4), at most `MaxSlices` preemptions,
`EarlyInterrupt` for characters whose interrupt comes before the SYS5. `MaxSem`
and `MaxDrift` are large enough never to stop a step. There are 20 pcbs as in
the source: with fewer SYS1 fails without saying so, and the test hangs.

### VmSupport

`testo` is a sequence of statements, fill in a support structure and SYS1 for
each user process, then as many P(`mainSem`). A user process misses its first
page; the refill handler writes the entry at `pageIndex` and TLBWR may replace
any other; the entry is not valid, so a TLB exception follows and pass up or die
enters `pager`. Facts of the source that the model keeps:

* the clamp in `uTLB_RefillHandler` is on `p`, the index is `n`: the stack page
  0xBFFFF, whose entry is the last of the table, has the index 0x3FFFF (finding
  5; no process gets as far as its stack);
* nothing sets `sw_asid`, so the pager's branch for an occupied frame is never
  taken, and nothing makes a page valid;
* `pager` is entered by LDCXT and returns to nobody: `Stray`, or for ever
  executing what is there;
* `mainSem` and `swapPoolSem` are lowered and never raised.

**Bounds of `VmSupport`.** `UPROCMAX` 4 instead of 8 processes, `TlbSize`
entries.

### CpuTime and Interrupts

`CpuTime` adds a clock modulo `W` and, for each process, what it has been
charged (`p_time`) and how long it has had the processor (`ran`, which is not in
the code). Its actions are those of `Nucleus` sorted by what they do to the
account: `getCpuTime` (SYS6), `Blocking` and `Slice` charge, `Return` does not,
`Dispatch` gives the processor to another process and sets `initialTOD`. Between
two readings of the clock in one handler it may have gone on (`Meanwhile`). The
time a handler takes for a process before it reads the clock is that process's.

`Interrupts` adds what is pending: `done` for devices, `failed` for those of them
that are transmitters with a status other than 5, `tick`, `slice`. The
hardware raises an interrupt in one action and the handler serves the one that
`findLine` and `findDevice` select; a program goes on only when none is pending.
`Selected` may be both sub-devices of a terminal: `Finished` acknowledges the
transmitter, if it has not failed, and `Ignored` is the handler that finds
nothing else. `SetTimer` is what `setTIMER` in the scheduler does to a slice
that ran down meanwhile, in the dispatch and before the wait.

## 3. The runs

| Run | Instance | What it asks |
|---|---|---|
| `nucleus_safety` | 3 pcbs, one semaphore of programs, the clock; with and without support structures | the invariants below, through every interleaving of system calls, exceptions, ticks and half-done SYS2s; what SYS2 leaves alone, and how the count of blocked processes drifts |
| `nucleus_devices` | 3 pcbs, the screen of a terminal, two semaphores of programs, the clock; no support structures | the same where interrupts come before, during and after the wait, or do nothing, also for processes killed meanwhile; the drift of the count with devices; what a stale `p_semAdd` can name; descriptors, with one semaphore more than there are of them |
| `nucleus_liveness` | 3 pcbs, the clock, no symmetry | SYS2 ends, ready processes run, sleepers wake |
| `phase1` | 4 pcbs and two queues; 4 pcbs in trees; 3 pcbs and 3 addresses for the ASL | the pointers of `pcb.c` and `asl.c` implement the pool and queues, the sequences of children and the queues of semaphores |
| `machine` | 2 pcbs, a semaphore, the clock modulo 3; 1 pcb with a disk, a keyboard and two screens; 3 pcbs with the timers only | time is charged right; every interrupt is served that no unacknowledged one of a terminal keeps from it; no time slice is pending in the wait state |
| `p2test` | the test program on 20 pcbs, three preemptions, both refill handlers | its messages, p4's death, its end |
| `vm_support` | `testo` with 4 user processes | refills, stacks, mutual exclusion, the final deadlock |
| `no_orphan` | 3 pcbs | finding 1 below |
| `lost_wakeup` | the test program, no preemption | finding 2 |
| `starvation` | 6 pcbs, a semaphore; one program instead of all, `MCRelay` | finding 3 |
| `error_ignored` | 1 pcb, a screen | finding 4 |
| `stack_refill` | as `vm_support` | finding 5 |

**Why the instances are enough.** Three pcbs are the smallest number with a
grandchild (recursion in SYS2 under a caller that has already lost a child),
with two siblings, with two waiters on one semaphore, and with a process
running while two others are in different places. With three the free list
runs empty. A descriptor is missing when as many other semaphores are active as
there are descriptors, so `nucleus_devices` has four semaphores for the
three descriptors of three pcbs: two of programs, the screen's and the clock's. The
drift bound of `nucleus_safety` lets `softBlockCount` pass 0 in both directions.
Rotation by `outProcQ` matters with three elements in a queue, which `phase1` has;
to starve a process the rotations have to go on for ever, which takes six pcbs
(`starvation`). Pcbs are interchangeable in `Nucleus` (the allocator takes any
free one, a superset of the code's FIFO choice), and so are the semaphores of
programs; symmetry is sound for the invariants and for `KillsOnlyProgeny` and
`CountDrifts`, which name no pcb. Liveness is checked without it. The order of
the free list is checked in `phase1`, where the pcbs of `PcbList` are not
symmetric.

`phase1` and `machine` each explore parts that share nothing; `part`, chosen at
the start, says which. Four pcbs give a queue with an element in the middle
next to another queue, and a family with a first, a middle and a last child.
Three descriptors are in use at once for three addresses in every order.
A clock modulo 3 tells a charge that is one unit short from one that is one unit
too long. One process is enough for `Served`, since what is pending and served
does not depend on who runs; the disk is on a lower line than the terminals, one
screen shares the number of the keyboard and the other has a higher one, and
either may fail.
`TimerFindsProcess` needs three: one that waits for the clock, and one that
terminates with a child, so that SYS2 takes several steps.

Assumptions about what is only instantiated, not extended, by a run (`Asl`,
`ProcTree`, `CpuTime`, `Interrupts`) are stated in `MCPhase1` and `MCMachine`,
where TLC evaluates them.

### The properties

* `TypeOK`: types, and which states of the processor have a current process.
* `NoHiding`: each process is current, once in the ready queue or once on one
  semaphore; no free pcb is anywhere. Also in the middle of SYS2.
* `ProcessCountExact`: `processCount` is the number of pcbs in use, at every
  exit of a SYS2, regular or by bus error.
* `TreeConsistent`: links agree, no cycle, free pcbs unlinked.
* `SemaphoreCountsWaiters`: a negative semaphore of a program is the number of
  its waiters. For the clock only an inequality is true: a process killed in
  its wait leaves its P behind.
* `SemAddReliable`: `p_semAdd` leads to the queue of every blocked process, and
  where it is stale it names a device. This is what keeps a stale `p_semAdd`
  from changing a *program's* semaphore in SYS2.
* `DescriptorAvailable`: `insertBlocked` never fails for lack of a descriptor;
  its callers do not survive a failure.
* `IdleRules`: wait and panic only with every process blocked, halt only with
  none left, whichever handler called the scheduler.
* `KillsOnlyProgeny`: whatever set of processes contains the one that SYS2 was
  called for and, with a process, its children, SYS2 leaves everybody outside it
  alone: alive, with its parent, in its queue; and as long as SYS2 goes on the
  set stays one. The smallest such set is the progeny.
* `CountDrifts`: `softBlockCount` follows the number of blocked processes through
  every handler; only SYS2 makes it wrong, by one too many for a process it
  terminates on a program's semaphore and by one too few for a bus error it ends
  in. The scheduler reaches PANIC with processes left, all blocked and the count
  at 0, so it comes after such a bus error only: a deadlock of the programs, for
  which the guide (3.1, 3.2) wants it, waits, because SYS3 counts as soft-blocked.
* `KillEnds`, `ReadyRuns`, `ClockWakes`: see the next section.
* `SiblingsLinked`, `AslSorted`: the sibling pointers of a family agree and end
  in NULL; the ASL ascends strictly, holds exactly the semaphores that have a
  queue, and together with the free list every descriptor.
* `ImplementsForest`, `ImplementsBlockedQ`: `ProcTree` and `Asl` refine `Forest`
  and `BlockedQ`.
* `TimeCharged`: what a process is charged, with the open slice of the current
  one, is what it ran, modulo the word.
* `Served`: every interrupt of a device or of the interval timer is served,
  except received characters, failed transmissions and terminals behind one
  of those.
* `TimerFindsProcess`: when the scheduler waits, the local timer's interrupt is
  not pending, even if the slice ran down in the middle of a SYS2. The handler
  has no branch for it without a process.
* `PrintExclusive`: between its P and its V of `term_mut` a process is alone.
* `PrintReturned`: `term_mut` accounts for the process that prints and those
  that wait; no process takes it along when it ends or is terminated.
* `P4Dead`: at p5's V(`blkp4`) no process of p4 is left, which the test's own
  final message takes for granted.
* `TestEnds`: the test halts, or one of three things stopped it: a character's
  interrupt before its SYS5, an orphan, or the endless refill. Nothing else in
  any order of interrupts and preemptions does. The orphan: p4's second
  incarnation, preempted between V(`synp4`) and P(`blkp4`), may be killed at a
  time when its stale `p_semAdd` ends SYS2 half way (finding 1).
* `RefillRight`, `StacksDisjoint`, `OneInPager`, `EndsStuck`: a user process
  exists only with a support structure that is filled in, the handler reads the
  right entry for every page of its program, no two exception stacks are one,
  one process at most has a frame, and in the end one has it and all the others
  wait. `RefillRight` leaves the stack page out, for which the handler is wrong
  (finding 5).
* `RingsClosed`, `PoolComplete`, `ImplementsPool`: the loop of `outProcQ`
  ends, no pcb is lost, and the functions of `pcb.c` refine `PcbPool` under
  `free <- FreeList`, `queue <- Ring(tp)`; the rotation is in `PcbPool` too,
  because it is what callers get.

### Fairness

`FairSpec` adds to `Spec`:

* weak fairness of `Sys2Helper` and of `passupOrDie` after a bus error: the
  processor goes on executing kernel code;
* weak fairness of `TimeSlice`: the local timer counts down while a process
  executes and nothing stops it. A handler that returns to the process
  without the scheduler leaves the timer as it is;
* strong fairness of `ClockTick`: the interval timer's interrupt comes every
  100 ms and stays pending while it is masked; kernel code masks it again and
  again, but always for a while only.

Programs are owed nothing and owe nothing.

`FairTest`: the processes of the test, unlike open programs, execute their code
(weak fairness of `Execute`); a character is sent in the end; ticks as above;
and a process that waits for the clock again and again will have slept long
enough at some time (strong fairness of `HalfPassed`).

`FairVm`: processes execute, although preempted again and again (strong fairness
of `Process`): a slice of 5 ms is more than an instruction; an entry in the TLB
survives until it is used, at some time at least (strong fairness of
`PageFault`: `TLBWR` overwrites at random); the local timer runs down.

`LineFairness`, in `MCMachine`: SYS2 goes on; the local timer's interrupt is taken; the interval
timer's, and each device's, strongly: the timers run down every 5 and 100 ms,
which leaves time for the others, so an interrupt that is the next one again and
again is served. Nothing is assumed of the order: that a higher line or device
becomes the next one is what `Served` says.

`KillEnds` holds although the bus error may call SYS2 again: each attempt frees
a pcb or takes a link away, and those do not come back in between.
`ReadyRuns` has a premise, `<>[](cpu \in {"run", "wait"})`: SYS2 on trees stops
at some time (and nobody is lost). It is needed: `outProcQ` moves the oldest ready
process to the end whenever the newest is terminated from elsewhere, and
`starvation` shows it doing so for ever (finding 3). `ClockWakes` excludes PANIC and
`"lost"`: with a drifted count the scheduler may stop a machine in which
processes wait.

### What the code does against its documentation

1. `no_orphan`: with a descendant that once waited for the clock SYS2 ends in
   its bus error and part of the progeny goes on running.
   `include/exceptions.h` promises the whole progeny.
2. `lost_wakeup`: SYS5 blocks whatever the value of the semaphore, so the V of
   an interrupt that came first is of no use. `p2test.c` writes the command of
   a character and calls SYS5 with interrupts enabled in between; with the
   interrupt there, p1 never gets past its first line, which the expected output
   `term0-Phase2.umps` begins with.
3. `starvation`: a process stays ready for ever. The others take turns until one
   of them, the last before it, creates a child and terminates with it: the child
   is the newest in the queue, `outProcQ` makes the oldest one the newest, and the
   process at the head loses its turn. A leader replaces those that terminate.
   The guide (3.2) wants "finite progress" for every ready process.
4. `error_ignored`: a transmission that ends with a status other than 5 is not
   acknowledged, and its process is not woken up. The guide (3.6.1) has every
   outstanding interrupt acknowledged, after saving its status code.
5. `stack_refill`: for the stack page the refill handler reads at index 0x3FFFF,
   far outside the table; its clamp to 31 is on the wrong variable. `initProc.c`
   and the guide (4.2.1) have that page in the last entry.

Four more are in the models, as single steps or as consequences of single steps,
and have no run of their own:

* SYS1 with no free pcb returns 0: line 130 of `exceptions.c` overwrites the -1
  that `include/exceptions.h` promises (`CreateProcess`).
* A process blocked by SYS3 counts as soft-blocked, so a deadlock of programs ends
  in the wait state and not in the PANIC of the guide (`Passeren`, `scheduler`).
* A received character is never acknowledged. Its interrupt comes again as soon
  as a state is loaded, and no process gets to an instruction (`Ignored`).
* p5's page table is zero, so the refill handler of `exceptions.c` writes an entry
  for page 0 and the store misses again, for ever; `p2test.c` announces "a TLB
  exception after a TLB-Refill event" (`RefillsForEver`).

## 4. The proofs

Assumptions: `PcbAssumption` (the table of pcbs is finite, not empty, without
NULL), `SemAssumption` (semaphores of programs, of devices and the clock's are
different, receivers and transmitters are devices), `SupportAssumption`, `BoundAssumption`; and
`TestAssumption` and `VmAssumption` for the programs. TLC evaluates them in the
runs of `MCNucleus`, `P2Test` and `VmSupport`. `TimeIsCharged` has the hypothesis
that `W` is not 0; for the lists `TableAssumption` (there is at least one pcb),
and for the tree and the ASL the hypothesis `Table`, which `TreePcbAssumption`
and `AslPcbAssumption` of `MCPhase1` discharge.

### The nucleus

`TypeOK`, `NoHiding`, `ProcessCountExact`, `TreeConsistent`,
`SemaphoreCountsWaiters`, `SemAddReliable`, `DescriptorAvailable` and
`IdleRules` are theorems of `Spec` (`NucleusProofs`). None is inductive alone;
the invariant `IInv` adds what they need from each other:

* `Places` ties `p_semAdd` to the queues in both directions: a process in the
  queue of `s` has `p_semAdd = s`, which makes the queues disjoint without
  saying so, and a process whose `p_semAdd` is a *program's* semaphore is in
  its queue, which is why a stale one names a device.
* `Calls` describes the stack of `sys2Helper`: the bottom is the current
  process, the others have no parent any more, and none is free. Without it
  `FreeHead` might free a pcb twice.
* `Acyclic` gives every process a depth greater than its parent's and than
  those of the calls around its own; a new process takes its parent's plus one.
  That any set of pcbs then has a member whose parent is outside it is the
  minimum of the depths.
* `CpuOK` says what each state of the processor implies for the current process
  and the ready queue; `IdleRules` follows from it with `Places`.

`DescriptorAvailable` follows from a counting argument (`DescriptorLemma`):
active semaphores map injectively to their first waiter, none of which is the
current process, so there are fewer of them than pcbs.

Two action properties follow:

* `OnlyProgenyDies`, `KillsOnlyProgeny` for trees of any shape. A set that holds
  the current process, the calls in progress and all children of its members is
  given; a step of SYS2 frees the process of the innermost call or takes its
  first child, both in the set, and the children left are the others.
  `SparedOutside` says what it takes for a process to be spared; that the scheduler
  at the end only moves the head of the ready queue to the processor is in it.
* `CountIsExplained`, `CountDrifts` for any number of processes and semaphores.
  The count is compared with a cardinality: a process that wakes or is
  killed leaves exactly one queue because `Places` makes them disjoint
  (`BlockedFacts`, `WakeCount`), a tick empties the clock's queue and lowers the
  count by its length (`ClockDrift`), and SYS2 lowers it by the device that
  `p_semAdd` names, in a queue of it or not (`KillDrift`).

Each part of `IInv` has a lemma with one case per action, `InitLemma` and
`NextLemma` collect them, `Invariance` is the induction. `ProcQProofs` has what
the queue operators do to the set of elements and to repetitions
(`InsertLemma`, `RemoveLemma`, `OutLemma`, ...); the rotation is harmless for
safety because it keeps both.

### The programs and refinements of the nucleus

`P2TestProofs`, `VmSupportProofs` and `MachineProofs` show, by a case per action,
that each of `TestSpec`, `VmSpec`, `TimeSpec` and `LineSpec` implements `Spec`: each
step is a step of the nucleus or leaves its variables alone. So every theorem about the
nucleus holds for them (`TestKeepsNucleusSound` states three of them for the
test), and `IInv` may be used in inductive arguments about them:

* `RefillIsRight`, `StacksAreDisjoint` and `OneProcessInPager` follow from
  `VmInv`, inductive together with `IInv`. Its part `Progress` ties how far
  `testo` is to the support structures filled in and to the numbers given out;
  that a number is given once is why stacks differ. `OneInPager` is inductive
  with it because `SemaphoreCountsWaiters` holds of `swapPoolSem`.
* `WaitsWithoutSlice`, `TimerFindsProcess` for any number of processes and devices,
  follows from `SliceHasOwner`: a pending slice has a process, because it runs
  down while there is one and every change of the current process sets the timer.
* `TimeIsCharged` follows from `TimeInv`, `TimeCharged` with its types. Lemmas
  on remainders (`RemainderAdd` and those before it) reduce each action to
  integers; `SettledLemma` says when all accounts are closed, and `SwitchLemma`
  that the processor is taken without a charge only from a process that ends.
* `MessagesDoNotMix`, `PrintExclusive` for messages of any length, any number of
  pcbs and of preemptions, follows from `TestInv`, inductive together with
  `IInv`:
  * a process is at an instruction of its program; past the last one it waits on
    `blkp8`, whose value is never positive, or is in the middle of its own SYS2.
    Without this a process could run past its end into anything.
  * p5 alone has a support structure, and no children, so pass up or die of any
    other process ends it, and p5's SYS2 takes one step.
  * `Alone`: `term_mut` is at most 1, a process is inside only if it is not 1,
    and at most one is.

  What the proof uses of the programs is `Section`: an instruction inside a
  message comes right after `P(term_mut)` or another one inside. It is closed under
  concatenation (`SectionConcat`) and repetition (`RepeatLemma`), so the programs
  are checked piece by piece (`CodeLemma`) with `MsgLen` and `CLOCKLOOP` open. What it
  uses of the nucleus is that every step but a P or a V of the program is
  `Quiet`: semaphores of programs keep the sign of their values, and only who is
  terminated leaves a queue (`KillQuiet`, `PassupQuiet`, `WaitQuiet`, `InterruptQuiet`).

* `P4ReallyDead`, `P4Dead` for any number of pcbs, preemptions, characters and
  WAITCLOCKs, follows from `P4Inv`: p5 has raised `blkp4` already (`Late`), or there
  is a root r for which `Early` holds, the conjunction of
  * `Waiting`: r, p1, is safe from SYS2, which needs that it has no parent
    (`RootSafe`), and after creating its sons waits at P(`endp5`);
  * `OneP5`, `NotYet`: there is one p5, and no p4 or p5 before p1 creates them;
  * `Gate`: at most one p4 has got through P(`blkp4`), and every other is its child,
    a child of its, or an orphan;
  * `Signal`, `Leaving`: V(`endp4`) is heard by p5 only when that p4 is past it,
    where it blocks no more;
  * `Slept`: if p5 has slept until the processor idled, that p4 is gone, because
    whoever lives while the processor idles is blocked.

  It rests on where the instructions are in the code (`p4Code`, `p5Code`,
  `testCode`, `otherCode`, collected in `WhereLemma`) and on `StepFacts`, what any step
  does to positions, semaphores, queues, links and sleepers.
* `TerminalLostByDeath`: only a step that frees the printing process ends
  `PrintReturned`. By `MessageGoesOn` a message goes on to its V(`term_mut`);
  whoever waits on `term_mut` will print (`Lined`), so that V with processes
  waiting hands the terminal to one (`HandsOver`).

### The data structures

`Phase1Proofs` proves all properties of the run `phase1` of `Phase1Spec`. Its
parts share no variable, so `Phase1Spec` implements the specification of each, and
the theorems of `ProcTreeProofs` and `AslProofs` are used through the instances.

`Links!Walk` is a recursive function over the links; `WalkLemma` says once that
it is the one sequence whose neighbours are linked, by the least position at
which it were not (`LeastLemma`). From there on a list is a sequence, and each
function is shown to turn the sequences before it into those after it:

* **Lists** (`PcbInv`). Each tail pointer closes a ring of distinct pcbs linked in
  both directions, the free list ends in NULL, no two of them share a pcb, and a pcb
  is in one of them or held by the caller. `RingsStayClosed`,
  `PoolStaysComplete` and `ListsImplementPool` follow; the last with the rotation of
  `outProcQ`, for queues of any length.
* **Tree** (`TreeInv`). The children of a process are a sequence without
  repetition, threaded from `p_child` through `p_next_sib` to NULL and back through
  `p_prev_sib`; it holds the pcbs with that `p_prnt` and no others, and a pcb
  without parent has no sibling links. The last is what removes the danger of
  links that keep old values. That `Walk`, which gives up after as many steps as
  there are pcbs, does not cut a family short is the pigeonhole.
  `Phase1SiblingsLinked` and `Phase1ImplementsForest` follow.
* **ASL** (`AslInv`). The active descriptors and the free ones are two disjoint
  lists that hold all descriptors; addresses ascend strictly along the first, each
  with a queue that is not empty and has no process twice, and whose processes have
  that address in `p_semAdd`. `Phase1AslSorted` and `Phase1ImplementsBlockedQ` follow: the
  insertion point, the removal of a descriptor whose queue became empty, and
  the failure when the free list is empty are those of the abstract queue per
  semaphore.

### Only model-checked

* The liveness properties (`KillEnds`, `ReadyRuns`, `ClockWakes`, `TestEnds`,
  `EndsStuck`, `Served`): out of the prover's reach.
* `PrintReturned`. `TerminalLostByDeath` reduces it to: nobody is terminated while
  it prints. That needs the whole protocol of the test: that p1 ends after p6 and
  p7 have printed follows from the order of the queue of `term_mut`, that a p8root
  ends after its progeny has from the sum of the V(`endcreate`) of a generation,
  that p4 ends after its son has from `synp4`.
* `TimeCharged` and `TimerFindsProcess` as `MCMachine` states them, for one
  `part`; the theorems are about `CpuTime` and `Interrupts`.
* The five findings, which are behaviours of one instance.

## 5. What is not modelled

* The local timer running down in the wait state: the scheduler sets it to 1000
  seconds and the interval timer comes first, every 100 ms.
* SYS8, which returns a pointer, and the contents of processor states and device
  registers: `moveState`, saved states, status words.
* What the processes of `p2test.c` compute and compare between their calls:
  registers and CPU times of p2, shared counters, the creation counter of p8.
* `p1test.c` calls the functions of phase 1 in one fixed order; `PcbList`,
  `ProcTree` and `Asl` allow any order.
* The headers: types, constants and declarations.
* The programs of `testPrograms` are for the support level, which this commit
  has the beginnings of only; so are those of `daDavoli`, which otherwise holds
  headers and a configuration.

## 6. Plan

What is left, in order of importance:

1. A property that an operation of a device is completed by its own interrupt,
   not by that of a process killed before.
2. Proofs: `PrintReturned`, from an invariant on which processes of the test can be
   terminated; the refinements of phase 1 carried into `Nucleus`, whose
   queues and trees are those of `PcbPool`, `Forest` and `BlockedQ` by
   definition only.
3. The support level, as the source grows: the rest of the pager, system calls
   of user processes.
