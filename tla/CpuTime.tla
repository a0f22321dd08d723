------------------------------ MODULE CpuTime ------------------------------
(***************************************************************************)
(* The accounting of processor time, on the nucleus: where exceptions.c,   *)
(* interrupts.c and scheduler.c read the clock (STCK), into initialTOD and *)
(* into the p_time of a process.  The clock is a word that wraps around.   *)
(***************************************************************************)
EXTENDS Nucleus

CONSTANT W  \* bound: the clock and p_time count modulo W, 2^32 in the machine

VARIABLES
  now,         \* the clock
  initialTOD,  \* when the current process was last charged or dispatched
  p_time,      \* what each process has been charged
  ran          \* how long each process has had the processor, modulo W

timeVars == <<now, initialTOD, p_time, ran>>
allVars  == <<vars, timeVars>>

Add(time, p, n) == [time EXCEPT ![p] = (@ + n) % W]

\* From one reading of the clock to the next in the same handler.
Meanwhile == \E d \in 0 .. 1 : now' = (now + d) % W

TimeInit ==
  /\ Init
  /\ now \in 0 .. W - 1
  /\ initialTOD = now
  /\ p_time = [p \in Pcb |-> 0]
  /\ ran    = [p \in Pcb |-> 0]

(***************************************************************************)
(* Time passes, for the current process, if there is one: also when the    *)
(* kernel works for it, or handles an interrupt that returns to it.        *)
(***************************************************************************)
Elapse ==
  /\ cpu \in {"run", "wait", "kill", "trap"}
  /\ now' = (now + 1) % W
  /\ ran' = IF currentProcess = NULL THEN ran ELSE Add(ran, currentProcess, 1)
  /\ UNCHANGED <<vars, initialTOD, p_time>>

(***************************************************************************)
(* The handlers that charge the current process.                           *)
(***************************************************************************)
\* SYS6
getCpuTime ==
  /\ cpu = "run"
  /\ p_time' = Add(p_time, currentProcess, now - initialTOD)
  /\ initialTOD' = now
  /\ UNCHANGED <<vars, now, ran>>

\* SYS3, SYS5 and SYS7, when the process blocks, and the scheduler.  That
\* insertBlocked fails is left out: see DescriptorAvailable.
Blocking ==
  /\ \/ \E s \in UserSem : Passeren(s)
     \/ \E d \in Device : WaitForIO(d)
     \/ WaitForClock
  /\ softBlockCount' = softBlockCount + 1
  /\ p_time' = Add(p_time, currentProcess, now - initialTOD)
  /\ Meanwhile
  /\ initialTOD' = IF cpu' = "run" THEN now' ELSE now
  /\ UNCHANGED ran

\* The local timer: the handler charges the process, and so does the
\* scheduler, which still finds it there, for the time since.
Slice ==
  /\ TimeSlice
  /\ Meanwhile
  /\ p_time' = Add(Add(p_time, currentProcess, now - initialTOD),
                   currentProcess, now' - now)
  /\ initialTOD' = now'
  /\ ran' = Add(ran, currentProcess, now' - now)

(***************************************************************************)
(* The handlers that charge nobody.  A new process starts with nothing on  *)
(* its account, and one that is dispatched with the clock of that moment.  *)
(***************************************************************************)
Uncharged ==
  \/ \E sup \in Support : CreateProcess(sup)
  \/ TerminateProcess \/ Sys2Helper \/ passupOrDie
  \/ \E s \in UserSem : \/ Passeren(s) /\ softBlockCount' = softBlockCount
                        \/ Verhogen(s)
  \/ \E d \in Device : Command(d) \/ DeviceInterrupt(d) \/ IgnoredInterrupt(d)
  \/ ClockTick
  \/ WaitForIO_OutOfRange
  \/ Stopped

Reset(time) == [p \in Pcb |-> IF p \in pcbFree \ pcbFree' THEN 0 ELSE time[p]]

Return ==
  /\ Uncharged
  /\ currentProcess' = currentProcess
  /\ p_time' = Reset(p_time)
  /\ ran'    = Reset(ran)
  /\ UNCHANGED <<now, initialTOD>>

Dispatch_KeepsTOD ==
  /\ Uncharged
  /\ currentProcess' # currentProcess
  /\ Meanwhile
  /\ UNCHANGED <<initialTOD, p_time, ran>>

Dispatch ==
  /\ Uncharged
  /\ currentProcess' # currentProcess
  /\ Meanwhile
  /\ initialTOD' = IF cpu' = "run" THEN now' ELSE initialTOD
  /\ UNCHANGED <<p_time, ran>>

TimeNext == Elapse \/ getCpuTime \/ Blocking \/ Slice \/ Return \/ Dispatch

TimeSpec == TimeInit /\ [][TimeNext]_allVars

------------------------------------------------------------------------------
(***************************************************************************)
(* A process is charged for the time it has had the processor, no more and *)
(* no less: not for the time the processor was idle or another process     *)
(* ran, not twice when two readings are close together, and also when the  *)
(* clock wraps around between them.                                        *)
(***************************************************************************)
TimeCharged ==
  \A p \in Live :
    ran[p] = (p_time[p] + (IF p = currentProcess THEN now - initialTOD ELSE 0)) % W
==============================================================================
