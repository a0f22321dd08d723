---------------------------- MODULE Interrupts ----------------------------
(***************************************************************************)
(* The interrupts of the machine, on the nucleus: which are pending, that  *)
(* the hardware takes one before the next instruction of a program, and    *)
(* which one interruptHandler serves, by findLine and findDevice           *)
(* (src/src/interrupts.c).  Module Nucleus leaves that open.               *)
(***************************************************************************)
EXTENDS Nucleus

CONSTANTS
  Line,   \* the line of each device, 3 to 7; the terminals are on line 7
  Number  \* its number on the line; the two sub-devices of a terminal share it

VARIABLES
  done,    \* the devices whose interrupt is pending
  failed,  \* those of them that are transmitters with a status other than 5
  tick,    \* is the interrupt of the interval timer pending?
  slice    \* is that of the processor's local timer?

lineVars == <<done, failed, tick, slice>>
lineAll  == <<vars, lineVars>>

Terminal == 7

Raised == (IF slice THEN {1} ELSE {}) \cup (IF tick THEN {2} ELSE {})
            \cup {Line[d] : d \in done}

\* The lowest of the lines in cause, and of the devices in the line's bitmap.
findLine_Highest == Max(Raised)

findLine == Min(Raised)

findDevice(line) == Min({Number[d] : d \in {e \in done : Line[e] = line}})

\* The (sub)devices that the handler looks at.
Selected == {d \in done : Line[d] = findLine /\ Number[d] = findDevice(findLine)}

\* The scheduler sets the local timer anew, also before it waits.
SetTimer_OnDispatch ==
  slice' = (slice /\ (currentProcess' = currentProcess \/ cpu' # "run"))

SetTimer == slice' = (slice /\ currentProcess' = currentProcess)

LineInit == Init /\ done = {} /\ failed = {} /\ tick = FALSE /\ slice = FALSE

(***************************************************************************)
(* The hardware: a device finishes, the transmitter of a terminal well or  *)
(* not, or a timer runs down.                                              *)
(***************************************************************************)
Complete(d) ==
  /\ d \in busy \ done
  /\ done' = done \cup {d}
  /\ \E bad \in SUBSET ({d} \cap Transmitter) : failed' = failed \cup bad
  /\ UNCHANGED <<vars, tick, slice>>

IntervalElapsed == ~tick /\ tick' = TRUE /\ UNCHANGED <<vars, done, failed, slice>>

SliceElapsed ==
  /\ cpu \in {"run", "kill", "trap"}
  /\ ~slice
  /\ slice' = TRUE
  /\ UNCHANGED <<vars, done, failed, tick>>

(***************************************************************************)
(* interruptHandler                                                        *)
(***************************************************************************)
LocalTimer ==
  /\ Enabled /\ Raised # {} /\ findLine = 1
  /\ TimeSlice
  /\ slice' = FALSE
  /\ UNCHANGED <<done, failed, tick>>

IntervalTimer ==
  /\ Enabled /\ Raised # {} /\ findLine = 2
  /\ ClockTick
  /\ tick' = FALSE
  /\ SetTimer
  /\ UNCHANGED <<done, failed>>

\* Disks, flash devices, network and printers, whatever their status; and the
\* transmitter of a terminal if its status is 5, whether or not there is a
\* received character too.
Finished(d) ==
  /\ Enabled /\ Raised # {} /\ findLine > 2
  /\ d \in Selected \ (Receiver \cup failed)
  /\ DeviceInterrupt(d)
  /\ done' = done \ {d}
  /\ SetTimer
  /\ UNCHANGED <<failed, tick>>

\* A terminal with nothing but a received character or a transmission that
\* failed.  Neither is acknowledged.
Ignored ==
  /\ Enabled /\ Raised # {} /\ findLine = Terminal
  /\ Selected \subseteq Receiver \cup failed
  /\ \E d \in Selected : IgnoredInterrupt(d)
  /\ SetTimer
  /\ UNCHANGED <<done, failed, tick>>

(***************************************************************************)
(* Everything else that happens: a program, to which the processor comes   *)
(* only with no interrupt pending, and SYS2 and its bus error.             *)
(***************************************************************************)
Program ==
  /\ cpu = "run" /\ Raised = {}
  /\ \/ Syscall \/ passupOrDie
     \/ \E d \in Device : Command(d)
  /\ SetTimer
  /\ UNCHANGED <<done, failed, tick>>

Terminating ==
  /\ \/ Sys2Helper
     \/ cpu = "trap" /\ passupOrDie
  /\ SetTimer
  /\ UNCHANGED <<done, failed, tick>>

Halted == Stopped /\ UNCHANGED lineVars

LineNext ==
  \/ \E d \in Device : Complete(d) \/ Finished(d)
  \/ IntervalElapsed \/ SliceElapsed
  \/ LocalTimer \/ IntervalTimer \/ Ignored
  \/ Program \/ Terminating \/ Halted

LineSpec == LineInit /\ [][LineNext]_lineAll

------------------------------------------------------------------------------
(***************************************************************************)
(* Every interrupt of the interval timer is served, and every one of a     *)
(* device, whatever is pending besides: received characters and failed     *)
(* transmissions, which nobody acknowledges and whose interrupts come      *)
(* again and again, take nothing from the lines below theirs, nor from the *)
(* terminals with a lower number.                                          *)
(***************************************************************************)
Over == cpu \in {"halt", "panic", "lost"}

Unacknowledged == done \cap (Receiver \cup failed)

Shadowed(d) ==
  \E e \in Unacknowledged : Line[e] = Line[d] /\ Number[e] < Number[d]

Served ==
  /\ tick ~> ~tick \/ Over
  /\ \A d \in Device \ Receiver :
       d \in done ~> d \notin done \/ d \in failed \/ Shadowed(d) \/ Over

(***************************************************************************)
(* The guide, 3.2: ``The first interrupt that occurs after entering a Wait *)
(* State should not be for the PLT''.  interruptHandler has no branch for  *)
(* the local timer without a process, so a time slice that ran down while  *)
(* SYS2 took a tree apart must not be pending when the scheduler waits.    *)
(***************************************************************************)
TimerFindsProcess == cpu = "wait" => ~slice

(***************************************************************************)
(* The guide, 3.6.1: the handler of device interrupts is to ``acknowledge  *)
(* the outstanding interrupt'', whatever the status code of the device.    *)
(***************************************************************************)
Acknowledged == \A d \in Device : d \in done ~> d \notin done \/ Over
==============================================================================
