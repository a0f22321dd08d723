----------------------------- MODULE MCMachine -----------------------------
(***************************************************************************)
(* Instances of CpuTime and Interrupts for TLC.  Both add what Nucleus     *)
(* abstracts; a run explores each of them, chosen at the start as `part',  *)
(* while the variables of the other do not change.  Interrupts has two     *)
(* instances: with devices, and with timers only but more processes.       *)
(***************************************************************************)
EXTENDS Integers

CONSTANTS
  Support, Clock, NULL, MaxSem, MaxDrift,  \* of both
  TimePcb, UserSem, W,                     \* of CpuTime, without devices
  LinePcb, Device, Receiver, Transmitter, Line, Number,
                                           \* of Interrupts with devices
  SlicePcb                                 \* of Interrupts with timers only

ASSUME WordAssumption == W \in Nat \ {0}
ASSUME LineAssumption ==
  /\ Receiver \cup Transmitter \subseteq Device /\ Receiver \cap Transmitter = {}
  /\ \A d \in Device : Line[d] \in 3 .. 7 /\ Number[d] \in 0 .. 7
  /\ \A d \in Device : Line[d] = 7 <=> d \in Receiver \cup Transmitter

VARIABLES
  part,
  pcbFree, p_prnt, p_child, p_semAdd, p_supportStruct, readyQueue, currentProcess,
  processCount, softBlockCount, semVal, procQ, busy, cpu, heads, reg_v0,
  now, initialTOD, p_time, ran,
  done, failed, tick, slice

timeVars == <<now, initialTOD, p_time, ran>>
lineVars == <<done, failed, tick, slice>>
allVars  == <<part, pcbFree, p_prnt, p_child, p_semAdd, p_supportStruct, readyQueue,
              currentProcess, processCount, softBlockCount, semVal, procQ, busy,
              cpu, heads, reg_v0, timeVars, lineVars>>

Time   == INSTANCE CpuTime    WITH Pcb <- TimePcb, Device <- {}, Receiver <- {},
                                   Transmitter <- {}
Lines  == INSTANCE Interrupts WITH Pcb <- LinePcb, UserSem <- {}
Slices == INSTANCE Interrupts WITH Pcb <- SlicePcb, UserSem <- {}, Device <- {},
                                   Receiver <- {}, Transmitter <- {}

Init ==
  \/ /\ part = "time" /\ Time!TimeInit
     /\ done = {} /\ failed = {} /\ tick = FALSE /\ slice = FALSE
  \/ /\ \/ part = "lines"  /\ Lines!LineInit
        \/ part = "slices" /\ Slices!LineInit
     /\ now = 0 /\ initialTOD = 0 /\ p_time = <<>> /\ ran = <<>>

Next ==
  \/ part = "time"   /\ Time!TimeNext   /\ UNCHANGED <<part, lineVars>>
  \/ part = "lines"  /\ Lines!LineNext  /\ UNCHANGED <<part, timeVars>>
  \/ part = "slices" /\ Slices!LineNext /\ UNCHANGED <<part, timeVars>>

lineAll == Lines!lineAll

(***************************************************************************)
(* The processor takes interrupts and goes on in SYS2.  The timers run     *)
(* down too seldom, every 5 and 100 ms, to keep others from being served:  *)
(* an interrupt that is the next one again and again is served.            *)
(***************************************************************************)
LineFairness ==
  /\ WF_lineAll(Lines!Terminating)
  /\ WF_lineAll(Lines!LocalTimer) /\ SF_lineAll(Lines!IntervalTimer)
  /\ \A d \in Device \ Receiver : SF_lineAll(Lines!Finished(d))

Spec ==
  /\ Init
  /\ [][Next]_allVars
  /\ LineFairness

\* See CpuTime and Interrupts.
TimeCharged       == part = "time" => Time!TimeCharged
Served            == part = "lines" => Lines!Served
TimerFindsProcess == part = "slices" => Slices!TimerFindsProcess
Acknowledged      == part = "lines" => Lines!Acknowledged

MCLine   == [disk |-> 3, kbd |-> 7, scr0 |-> 7, scr1 |-> 7]
MCNumber == [disk |-> 1, kbd |-> 0, scr0 |-> 0, scr1 |-> 1]
==============================================================================
