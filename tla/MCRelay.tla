------------------------------- MODULE MCRelay -------------------------------
(***************************************************************************)
(* An instance of Nucleus for TLC with one program instead of all.  A      *)
(* leader creates runners and computes.  A runner waits on a semaphore     *)
(* that another one raises, or raises it for another one, creates a        *)
(* process that only computes, and terminates with it.  Nobody waits for   *)
(* the clock or a device, and no SYS1 fails.  Its behaviours are some of   *)
(* those of FairSpec: every step is one of Next, and pcbs being alike, the *)
(* smallest free one is allocated.                                         *)
(***************************************************************************)
EXTENDS Nucleus

NoChild == p_child[currentProcess] = <<>>

Create ==
  /\ pcbFree # {}
  /\ CreateProcess(FALSE)
  /\ \A son \in pcbFree \ pcbFree', p \in pcbFree : son <= p

Leader == cpu = "run" /\ p_prnt[currentProcess] = NULL /\ Create

Runner ==
  /\ cpu = "run"
  /\ p_prnt[currentProcess] # NULL
  /\ p_prnt[p_prnt[currentProcess]] = NULL
  /\ \/ \E s \in UserSem :
          /\ NoChild
          /\ IF emptyProcQ(procQ[s]) THEN Passeren(s) ELSE Verhogen(s)
     \/ NoChild /\ Create
     \/ ~NoChild /\ TerminateProcess

RelayInit ==
  /\ Init
  /\ \A p \in Pcb : currentProcess <= p
  /\ \A s \in UserSem : semVal[s] = 0

RelaySpec ==
  RelayInit /\ [][Leader \/ Runner \/ Sys2Helper \/ TimeSlice]_vars /\ Fairness
==============================================================================
