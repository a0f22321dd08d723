--------------------------- MODULE MachineProofs ---------------------------
(***************************************************************************)
(* CpuTime and Interrupts add to the nucleus what Nucleus leaves out, and  *)
(* every behaviour of theirs is one of Nucleus, so NucleusProofs holds for *)
(* them.  The processor never waits with its local timer's interrupt       *)
(* pending; and time is charged right for any number of processes and any  *)
(* size of the clock's word.                                               *)
(***************************************************************************)
EXTENDS CpuTime, Interrupts, NucleusProofs

(***************************************************************************)
(* Serving the interrupts in the order of the code, with the hardware that *)
(* raises them, the nucleus does nothing that it does not without.         *)
(***************************************************************************)
LEMMA LineStep ==
  ASSUME [LineNext]_lineAll
  PROVE  [Next]_vars
<1>1. CASE \E d \in Device : Complete(d)
  BY <1>1 DEF Complete
<1>2. CASE IntervalElapsed \/ SliceElapsed
  BY <1>2 DEF IntervalElapsed, SliceElapsed
<1>3. CASE LocalTimer \/ IntervalTimer
  BY <1>3 DEF LocalTimer, IntervalTimer, Next, Interrupt
<1>4. CASE \E d \in Device : Finished(d)
  BY <1>4 DEF Finished, Next, Interrupt
<1>5. CASE Ignored
  BY <1>5, SemAssumption DEF Ignored, Next, Interrupt, IgnoredInterrupt
<1>6. CASE Program \/ Terminating
  BY <1>6 DEF Program, Terminating, Next
<1>7. CASE Halted
  BY <1>7 DEF Halted, Next
<1>8. CASE UNCHANGED lineAll
  BY <1>8 DEF lineAll
<1>. QED  BY <1>1, <1>2, <1>3, <1>4, <1>5, <1>6, <1>7, <1>8 DEF LineNext

(***************************************************************************)
(* interruptHandler, by findLine and findDevice, implements the interrupts *)
(* of Nucleus, which come in any order.                                    *)
(***************************************************************************)
THEOREM LinesImplementNucleus == LineSpec => Spec
<1>1. LineInit => Init
  BY DEF LineInit
<1>. QED  BY <1>1, LineStep, PTL DEF LineSpec, Spec

(***************************************************************************)
(* A time slice belongs to the current process: its interrupt comes while  *)
(* there is one, and whatever gives the processor to another process, or   *)
(* to none, sets the timer anew.                                           *)
(***************************************************************************)
SliceHasOwner == slice => currentProcess # NULL

LEMMA OwnerStep ==
  ASSUME TypeOK, SliceHasOwner, [LineNext]_lineAll
  PROVE  SliceHasOwner'
<1>1. CASE SliceElapsed
  BY <1>1 DEF SliceElapsed, TypeOK, SliceHasOwner, vars
<1>2. CASE LocalTimer
  BY <1>2 DEF LocalTimer, SliceHasOwner
<1>3. CASE SetTimer
  BY <1>3 DEF SetTimer, SliceHasOwner
<1>4. CASE UNCHANGED <<currentProcess, slice>>
  BY <1>4 DEF SliceHasOwner
<1>5. IntervalTimer \/ Ignored \/ Program \/ Terminating => SetTimer
  BY DEF IntervalTimer, Ignored, Program, Terminating
<1>6. (\E d \in Device : Finished(d)) => SetTimer
  BY DEF Finished
<1>7. IntervalElapsed \/ (\E d \in Device : Complete(d))
        => UNCHANGED <<currentProcess, slice>>
  BY DEF IntervalElapsed, Complete, vars
<1>8. Halted \/ UNCHANGED lineAll => UNCHANGED <<currentProcess, slice>>
  BY DEF Halted, Stopped, lineAll, lineVars, vars
<1>. QED  BY <1>1, <1>2, <1>3, <1>4, <1>5, <1>6, <1>7, <1>8 DEF LineNext

(***************************************************************************)
(* In the wait state the local timer's interrupt, for which                *)
(* interruptHandler has nothing to do there, is not pending, for any       *)
(* number of processes and devices on any lines.                           *)
(***************************************************************************)
THEOREM WaitsWithoutSlice == LineSpec => []TimerFindsProcess
<1>1. LineInit => SliceHasOwner
  BY DEF LineInit, SliceHasOwner
<1>2. TypeOK /\ SliceHasOwner => TimerFindsProcess
  BY DEF TypeOK, SliceHasOwner, TimerFindsProcess
<1>. QED  BY <1>1, <1>2, OwnerStep, TypeCorrect, LinesImplementNucleus, PTL DEF LineSpec

(***************************************************************************)
(* The steps of CpuTime are steps of the nucleus.                          *)
(***************************************************************************)
LEMMA UnchargedStep ==
  ASSUME Uncharged
  PROVE  Next
  BY DEF Uncharged, Next, Syscall, Interrupt

LEMMA BlockingStep ==
  ASSUME Blocking
  PROVE  Next
  BY DEF Blocking, Next, Syscall

LEMMA TimeStep ==
  ASSUME [TimeNext]_allVars
  PROVE  [Next]_vars
<1>1. CASE Elapse \/ getCpuTime
  BY <1>1 DEF Elapse, getCpuTime
<1>2. CASE Blocking
  BY <1>2, BlockingStep
<1>3. CASE Slice
  BY <1>3 DEF Slice, Next, Interrupt
<1>4. CASE Return \/ Dispatch
  BY <1>4, UnchargedStep DEF Return, Dispatch
<1>5. CASE UNCHANGED allVars
  BY <1>5 DEF allVars
<1>. QED  BY <1>1, <1>2, <1>3, <1>4, <1>5 DEF TimeNext

(***************************************************************************)
(* Reading the clock changes nothing that the nucleus decides by.          *)
(***************************************************************************)
THEOREM TimeImplementsNucleus == TimeSpec => Spec
<1>1. TimeInit => Init
  BY DEF TimeInit
<1>. QED  BY <1>1, TimeStep, PTL DEF TimeSpec, Spec

------------------------------------------------------------------------------
(***************************************************************************)
(* Remainders.                                                             *)
(***************************************************************************)
LEMMA Division ==
  ASSUME NEW w \in Nat \ {0}, NEW a \in Int
  PROVE  /\ a % w \in 0 .. w - 1
         /\ a \div w \in Int
         /\ a = w * (a \div w) + (a % w)
  BY Z3

LEMMA RemainderUnique ==
  ASSUME NEW w \in Nat \ {0}, NEW q \in Int, NEW r \in 0 .. w - 1
  PROVE  (w * q + r) % w = r
<1> DEFINE a == w * q + r
           d == (a \div w) - q
<1>1. a \in Int
  BY Z3
<1>2. /\ a % w \in 0 .. w - 1 /\ a \div w \in Int
      /\ a = w * (a \div w) + (a % w)
  BY <1>1, Division
<1>3. d \in Int
  BY <1>2
<1>4. w * d = r - (a % w)
  BY <1>2, Z3
<1>5. CASE d >= 1
  <2>1. w * d >= w
    BY <1>3, <1>5, Z3
  <2>. QED  BY <2>1, <1>2, <1>4, Z3
<1>6. CASE d <= -1
  <2>1. w * d <= -w
    BY <1>3, <1>6, Z3
  <2>. QED  BY <2>1, <1>2, <1>4, Z3
<1>7. CASE d = 0
  BY <1>2, <1>4, <1>7, Z3
<1>. QED  BY <1>3, <1>5, <1>6, <1>7, Z3

LEMMA RemainderShift ==
  ASSUME NEW w \in Nat \ {0}, NEW a \in Int, NEW b \in Int, NEW k \in Int,
         a = b + w * k
  PROVE  a % w = b % w
<1>1. /\ b % w \in 0 .. w - 1 /\ b \div w \in Int
      /\ b = w * (b \div w) + (b % w)
  BY Division
<1>2. a = w * ((b \div w) + k) + (b % w)
  BY <1>1, Z3
<1>3. (b \div w) + k \in Int
  BY <1>1
<1>. QED  BY <1>1, <1>2, <1>3, RemainderUnique

LEMMA RemainderAdd ==
  ASSUME NEW w \in Nat \ {0}, NEW a \in Int, NEW b \in Int
  PROVE  ((a % w) + b) % w = (a + b) % w
<1> DEFINE x == (a % w) + b
           y == a + b
           k == 0 - (a \div w)
<1>1. /\ a % w \in Int /\ a \div w \in Int
      /\ a = w * (a \div w) + (a % w)
  BY Division
<1>2. x \in Int /\ y \in Int /\ k \in Int
  BY <1>1
<1>3. x = y + w * k
  BY <1>1, Z3
<1>4. x % w = y % w
  <2> HIDE DEF x, y, k
  <2>. QED  BY <1>2, <1>3, RemainderShift
<1>. QED  BY <1>4

------------------------------------------------------------------------------
(***************************************************************************)
(* TimeCharged, with the types it needs, is inductive over the states that *)
(* satisfy the invariant of the nucleus.                                   *)
(***************************************************************************)
TimeInv ==
  /\ now \in Int /\ initialTOD \in Int
  /\ p_time \in [Pcb -> Int] /\ ran \in [Pcb -> Int]
  /\ TimeCharged

Mod(n) == n % W

Due(p) == p_time[p] + (IF p = currentProcess THEN now - initialTOD ELSE 0)

LEMMA ModFacts ==
  ASSUME W \in Nat \ {0}
  PROVE  /\ \A a, b \in Int : Mod(a) \in Int /\ Mod(Mod(a) + b) = Mod(a + b)
         /\ \A a \in Int : Mod(Mod(a)) = Mod(a)
<1>1. ASSUME NEW a \in Int, NEW b \in Int
      PROVE  a % W \in Int /\ ((a % W) + b) % W = (a + b) % W
  <2>1. a % W \in 0 .. W - 1 /\ W \in Nat
    BY Division
  <2>2. ((a % W) + b) % W = (a + b) % W
    BY RemainderAdd
  <2>. QED  BY <2>1, <2>2
<1>2. ASSUME NEW a \in Int  PROVE (a % W) % W = a % W
  <2>1. PICK b \in Int : b = 0
    OBVIOUS
  <2>2. a % W \in Int /\ ((a % W) + b) % W = (a + b) % W
    BY <1>1
  <2>3. (a % W) + b = a % W /\ a + b = a
    BY <2>1, <2>2
  <2>. QED  BY <2>2, <2>3
<1>. QED  BY <1>1, <1>2 DEF Mod

LEMMA ChargedLemma ==
  TimeCharged <=> \A p \in Live : ran[p] = Mod(Due(p))
BY DEF TimeCharged, Mod, Due

LEMMA AddLemma ==
  ASSUME W \in Nat \ {0}, NEW f \in [Pcb -> Int], NEW p \in Pcb, NEW n \in Int
  PROVE  /\ Add(f, p, n) \in [Pcb -> Int]
         /\ Add(f, p, n)[p] = Mod(f[p] + n)
         /\ \A q \in Pcb : q # p => Add(f, p, n)[q] = f[q]
<1>1. f[p] + n \in Int
  OBVIOUS
<1>2. Mod(f[p] + n) \in Int
  BY <1>1, ModFacts
<1>3. Add(f, p, n) = [f EXCEPT ![p] = Mod(f[p] + n)]
  BY DEF Add, Mod
<1>. QED  BY <1>2, <1>3

LEMMA MeanwhileLemma ==
  ASSUME W \in Nat \ {0}, now \in Int, Meanwhile
  PROVE  now' \in Int
<1>1. PICK d \in 0 .. 1 : now' = Mod(now + d)
  BY DEF Meanwhile, Mod
<1>2. now + d \in Int
  OBVIOUS
<1>. QED  BY <1>1, <1>2, ModFacts

(* Time passes: the clock and the account of the current process go on.    *)
LEMMA ElapseStep ==
  ASSUME W \in Nat \ {0}, IInv, TimeInv, Elapse
  PROVE  TimeInv'
<1> DEFINE c == currentProcess
<1>1. /\ now \in Int /\ initialTOD \in Int /\ p_time \in [Pcb -> Int]
      /\ ran \in [Pcb -> Int] /\ \A p \in Live : ran[p] = Mod(Due(p))
      /\ c \in Pcb \cup {NULL} /\ NULL \notin Pcb
  BY PcbAssumption, ChargedLemma DEF TimeInv, IInv, Types
<1>2. /\ UNCHANGED <<currentProcess, pcbFree, initialTOD, p_time>>
      /\ now' = Mod(now + 1)
      /\ c = NULL => ran' = ran
      /\ c # NULL => ran' = Add(ran, c, 1)
  BY DEF Elapse, vars, Mod
<1>3. now + 1 \in Int /\ 1 \in Int
  BY <1>1
<1>4. now' \in Int
  BY <1>2, <1>3, ModFacts
<1>5. ASSUME c # NULL
      PROVE  /\ ran' \in [Pcb -> Int]
             /\ ran'[c] = Mod(ran[c] + 1)
             /\ \A q \in Pcb : q # c => ran'[q] = ran[q]
  <2>1. c \in Pcb /\ ran' = Add(ran, c, 1)
    BY <1>1, <1>2, <1>5
  <2>2. /\ Add(ran, c, 1) \in [Pcb -> Int]
        /\ Add(ran, c, 1)[c] = Mod(ran[c] + 1)
        /\ \A q \in Pcb : q # c => Add(ran, c, 1)[q] = ran[q]
    <3>1. ran \in [Pcb -> Int] /\ c \in Pcb
      BY <1>1, <2>1
    <3> HIDE DEF c
    <3>. QED  BY <1>3, <3>1, AddLemma
  <2>. QED  BY <2>1, <2>2
<1>6. ran' \in [Pcb -> Int]
  BY <1>1, <1>2, <1>5
<1>7. Live' = Live /\ Live \subseteq Pcb
  BY <1>2 DEF Live
<1>8. ASSUME NEW p \in Live, p # c  PROVE ran'[p] = Mod(Due(p)')
  <2>1. ran'[p] = ran[p]
    BY <1>2, <1>5, <1>7, <1>8
  <2>2. Due(p)' = Due(p)
    BY <1>2, <1>8 DEF Due
  <2>. QED  BY <1>1, <2>1, <2>2
<1>9. ASSUME NEW p \in Live, p = c  PROVE ran'[p] = Mod(Due(p)')
  <2> DEFINE b == p_time[p] - initialTOD
  <2>1. p # NULL /\ p \in Pcb /\ p_time[p] \in Int /\ b \in Int
    BY <1>1, <1>7, <1>9
  <2>2. Due(p) = now + b /\ Due(p) \in Int
    BY <1>1, <1>9, <2>1 DEF Due
  <2>3. ran'[p] = Mod(Mod(Due(p)) + 1)
    BY <1>1, <1>5, <1>9, <2>1
  <2>4. ran'[p] = Mod(Due(p) + 1)
    BY <1>3, <2>2, <2>3, ModFacts
  <2>5. Due(p)' = Mod(now + 1) + b
    <3>1. Due(p)' = p_time[p] + (now' - initialTOD)
      BY <1>2, <1>9 DEF Due
    <3>. QED  BY <1>1, <1>2, <1>4, <2>1, <3>1
  <2>6. Mod(Due(p)') = Mod((now + 1) + b)
    <3> HIDE DEF b
    <3>. QED  BY <1>3, <2>1, <2>5, ModFacts
  <2>7. (now + 1) + b = Due(p) + 1
    BY <1>1, <2>1, <2>2
  <2>. QED  BY <2>4, <2>6, <2>7
<1>10. TimeCharged'
  <2>1. \A p \in Live' : ran'[p] = Mod(Due(p)')
    BY <1>7, <1>8, <1>9
  <2>. QED  BY <2>1 DEF TimeCharged, Mod, Due
<1>. QED  BY <1>1, <1>2, <1>4, <1>6, <1>10 DEF TimeInv

(* A handler charges the current process for the time since initialTOD.    *)
LEMMA ChargeLemma ==
  ASSUME W \in Nat \ {0}, IInv, TimeInv, currentProcess # NULL,
         NEW f, f = Add(p_time, currentProcess, now - initialTOD)
  PROVE  /\ currentProcess \in Live
         /\ f \in [Pcb -> Int]
         /\ f[currentProcess] = ran[currentProcess]
         /\ \A p \in Live : ran[p] = Mod(f[p])
<1> DEFINE c == currentProcess
           n == now - initialTOD
<1>1. /\ n \in Int /\ p_time \in [Pcb -> Int] /\ c \in Live /\ Live \subseteq Pcb
      /\ \A p \in Live : ran[p] = Mod(Due(p))
  BY ChargedLemma DEF TimeInv, IInv, Types, Places, Live
<1>2. /\ f \in [Pcb -> Int]
      /\ f[c] = Mod(p_time[c] + n)
      /\ \A q \in Pcb : q # c => f[q] = p_time[q]
  <2>1. f = Add(p_time, c, n)
    OBVIOUS
  <2> HIDE DEF c, n
  <2>. QED  BY <1>1, <2>1, AddLemma
<1>3. f[c] = ran[c]
  BY <1>1, <1>2 DEF Due
<1>4. ASSUME NEW p \in Live  PROVE ran[p] = Mod(f[p])
  <2>1. CASE p = c
    <3>1. p_time[c] + n \in Int
      BY <1>1
    <3>2. Mod(f[c]) = f[c]
      <4> HIDE DEF c, n
      <4>. QED  BY <1>2, <3>1, ModFacts
    <3>. QED  BY <1>3, <2>1, <3>2
  <2>2. CASE p # c
    <3>1. Due(p) = p_time[p] + 0 /\ p_time[p] \in Int /\ f[p] = p_time[p]
      BY <1>1, <1>2, <2>2 DEF Due
    <3>. QED  BY <1>1, <3>1
  <2>. QED  BY <2>1, <2>2
<1>. QED  BY <1>1, <1>2, <1>3, <1>4

(* All accounts are settled, and initialTOD is set for the process, if any, *)
(* that has the processor from now on.                                     *)
LEMMA SettledLemma ==
  ASSUME now' \in Int, initialTOD' \in Int,
         p_time' \in [Pcb -> Int], ran' \in [Pcb -> Int],
         \A p \in Live' : ran'[p] = Mod(p_time'[p]),
         currentProcess' = NULL \/ initialTOD' = now'
  PROVE  TimeInv'
<1>1. ASSUME NEW p \in Live'
      PROVE  (p_time'[p] + (IF p = currentProcess' THEN now' - initialTOD' ELSE 0))
               = p_time'[p]
  <2>1. p_time'[p] \in Int /\ p \in Pcb /\ NULL \notin Pcb
    BY PcbAssumption DEF Live
  <2>. QED  BY <2>1
<1>2. TimeCharged'
  BY <1>1 DEF TimeCharged, Mod
<1>. QED  BY <1>2 DEF TimeInv

------------------------------------------------------------------------------
(***************************************************************************)
(* The actions.                                                            *)
(***************************************************************************)
LEMMA GetCpuTimeStep ==
  ASSUME W \in Nat \ {0}, IInv, TimeInv, getCpuTime
  PROVE  TimeInv'
<1>1. /\ currentProcess # NULL
      /\ p_time' = Add(p_time, currentProcess, now - initialTOD)
      /\ initialTOD' = now /\ now' = now /\ ran' = ran /\ Live' = Live
  BY DEF getCpuTime, IInv, CpuOK, vars, Live
<1>2. p_time' \in [Pcb -> Int] /\ \A p \in Live : ran[p] = Mod(p_time'[p])
  BY <1>1, ChargeLemma
<1>. QED  BY <1>1, <1>2, SettledLemma DEF TimeInv

LEMMA SchedulerRuns ==
  ASSUME NEW rq, NEW n, NEW soft, scheduler(rq, n, soft)
  PROVE  currentProcess' = NULL \/ cpu' = "run"
BY DEF scheduler

LEMMA BlocksLemma ==
  ASSUME IInv, Blocking
  PROVE  /\ cpu = "run" /\ Live' = Live
         /\ currentProcess' = NULL \/ cpu' = "run"
<1>1. softBlockCount' = softBlockCount + 1 /\ softBlockCount \in Int
  BY DEF Blocking, IInv, Types
<1>2. PICK s : \/ s \in UserSem /\ Passeren(s)
               \/ WaitFor(s)
  BY DEF Blocking, WaitForIO, WaitForClock
<1>3. cpu = "run" /\ UNCHANGED pcbFree
  BY <1>2 DEF Passeren, WaitFor, treeVars, pcbVars
<1>4. Block(s)
  BY <1>1, <1>2 DEF Passeren, WaitFor
<1>. QED  BY <1>3, <1>4, SchedulerRuns DEF Block, Live

LEMMA BlockingTimeStep ==
  ASSUME W \in Nat \ {0}, IInv, TimeInv, Blocking
  PROVE  TimeInv'
<1>1. /\ currentProcess # NULL /\ Live' = Live
      /\ p_time' = Add(p_time, currentProcess, now - initialTOD)
      /\ ran' = ran /\ now \in Int /\ initialTOD' \in {now, now'}
      /\ currentProcess' = NULL \/ initialTOD' = now'
  BY BlocksLemma DEF Blocking, IInv, CpuOK, TimeInv
<1>2. now' \in Int
  BY MeanwhileLemma DEF Blocking, TimeInv
<1>3. p_time' \in [Pcb -> Int] /\ \A p \in Live : ran[p] = Mod(p_time'[p])
  BY <1>1, ChargeLemma
<1>. QED  BY <1>1, <1>2, <1>3, SettledLemma DEF TimeInv

LEMMA SliceStep ==
  ASSUME W \in Nat \ {0}, IInv, TimeInv, Slice
  PROVE  TimeInv'
<1> DEFINE c == currentProcess
           f == Add(p_time, c, now - initialTOD)
           n == now' - now
<1>1. /\ c # NULL /\ Live' = Live /\ Live \subseteq Pcb
      /\ p_time' = Add(f, c, n) /\ ran' = Add(ran, c, n)
      /\ initialTOD' = now' /\ ran \in [Pcb -> Int] /\ now \in Int
  BY DEF Slice, TimeSlice, treeVars, pcbVars, IInv, CpuOK, TimeInv, Live
<1>2. now' \in Int /\ n \in Int
  <2>1. now' \in Int
    BY MeanwhileLemma DEF Slice, TimeInv
  <2>. QED  BY <1>1, <2>1
<1>3. /\ c \in Live /\ c \in Pcb /\ f \in [Pcb -> Int] /\ f[c] = ran[c]
      /\ \A p \in Live : ran[p] = Mod(f[p])
  BY <1>1, ChargeLemma
<1>4. /\ Add(f, c, n) \in [Pcb -> Int] /\ Add(ran, c, n) \in [Pcb -> Int]
      /\ Add(f, c, n)[c] = Mod(ran[c] + n) /\ Add(ran, c, n)[c] = Mod(ran[c] + n)
      /\ \A q \in Pcb : q # c => Add(f, c, n)[q] = f[q] /\ Add(ran, c, n)[q] = ran[q]
  <2> HIDE DEF c, f, n
  <2>1. /\ Add(f, c, n) \in [Pcb -> Int]
        /\ Add(f, c, n)[c] = Mod(f[c] + n)
        /\ \A q \in Pcb : q # c => Add(f, c, n)[q] = f[q]
    BY <1>2, <1>3, AddLemma
  <2>2. /\ Add(ran, c, n) \in [Pcb -> Int]
        /\ Add(ran, c, n)[c] = Mod(ran[c] + n)
        /\ \A q \in Pcb : q # c => Add(ran, c, n)[q] = ran[q]
    BY <1>1, <1>2, <1>3, AddLemma
  <2>. QED  BY <1>3, <2>1, <2>2
<1>5. ASSUME NEW p \in Live  PROVE ran'[p] = Mod(p_time'[p])
  <2>1. CASE p = c
    <3>1. ran[c] + n \in Int
      BY <1>1, <1>2, <1>3
    <3>2. Mod(Mod(ran[c] + n)) = Mod(ran[c] + n)
      <4> HIDE DEF c, n
      <4>. QED  BY <3>1, ModFacts
    <3>. QED  BY <1>1, <1>4, <2>1, <3>2
  <2>2. CASE p # c
    BY <1>1, <1>3, <1>4, <2>2
  <2>. QED  BY <2>1, <2>2
<1>. QED  BY <1>1, <1>2, <1>4, <1>5, SettledLemma

(* A handler that charges nobody and takes the processor from a process    *)
(* does so because the process has ended.                                  *)
LEMMA ReleasesLemma ==
  ASSUME ReleaseCurrent
  PROVE  /\ pcbFree' = pcbFree \cup {currentProcess}
         /\ currentProcess' = NULL \/ cpu' = "run"
BY SchedulerRuns DEF ReleaseCurrent, outChildAndFree

LEMMA TerminatesLemma ==
  ASSUME terminateProcess
  PROVE  \/ currentProcess' = currentProcess
         \/ /\ pcbFree' = pcbFree \cup {currentProcess}
            /\ currentProcess' = NULL \/ cpu' = "run"
BY ReleasesLemma DEF terminateProcess

LEMMA LoadsLemma ==
  ASSUME NEW rq, NEW soft, LoadOrSchedule(rq, soft), currentProcess' # currentProcess
  PROVE  currentProcess = NULL /\ (currentProcess' = NULL \/ cpu' = "run")
BY SchedulerRuns DEF LoadOrSchedule

LEMMA SwitchLemma ==
  ASSUME IInv, Uncharged, currentProcess' # currentProcess
  PROVE  /\ pcbFree \subseteq pcbFree'
         /\ currentProcess = NULL \/ currentProcess \in pcbFree'
         /\ currentProcess' = NULL \/ cpu' = "run"
<1>1. CASE \E sup \in Support : CreateProcess(sup)
  BY <1>1 DEF CreateProcess
<1>2. CASE TerminateProcess
  BY <1>2, TerminatesLemma DEF TerminateProcess
<1>3. CASE Sys2Helper
  <2>1. CASE KillChild \/ KillBlocked \/ KillStale \/ KillReady
    BY <2>1 DEF KillChild, KillBlocked, KillStale, KillReady, FreeHead
  <2>2. CASE KillCurrent
    BY <2>2, ReleasesLemma DEF KillCurrent
  <2>. QED  BY <1>3, <2>1, <2>2 DEF Sys2Helper
<1>4. CASE passupOrDie
  BY <1>4, TerminatesLemma DEF passupOrDie
<1>5. CASE \E s \in UserSem : Passeren(s) /\ softBlockCount' = softBlockCount
  <2>1. PICK s \in UserSem : Passeren(s) /\ softBlockCount' = softBlockCount
    BY <1>5
  <2>2. softBlockCount + 1 # softBlockCount
    BY DEF IInv, Types
  <2>. QED  BY <2>1, <2>2 DEF Passeren, Block
<1>6. CASE \E s \in UserSem : Verhogen(s)
  BY <1>6 DEF Verhogen
<1>7. CASE \E d \in Device : Command(d)
  BY <1>7 DEF Command
<1>8. CASE \E d \in Device : DeviceInterrupt(d) \/ IgnoredInterrupt(d)
  BY <1>8, LoadsLemma DEF DeviceInterrupt, IgnoredInterrupt, treeVars, pcbVars
<1>9. CASE ClockTick
  BY <1>9, LoadsLemma DEF ClockTick, treeVars, pcbVars
<1>10. CASE WaitForIO_OutOfRange \/ Stopped
  BY <1>10 DEF WaitForIO_OutOfRange, Stopped, vars
<1>. QED  BY <1>1, <1>2, <1>3, <1>4, <1>5, <1>6, <1>7, <1>8, <1>9, <1>10
          DEF Uncharged

LEMMA DispatchStep ==
  ASSUME W \in Nat \ {0}, IInv, TimeInv, Dispatch
  PROVE  TimeInv'
<1>1. /\ pcbFree \subseteq pcbFree'
      /\ currentProcess = NULL \/ currentProcess \in pcbFree'
      /\ currentProcess' = NULL \/ cpu' = "run"
  BY SwitchLemma DEF Dispatch
<1>2. /\ p_time' = p_time /\ ran' = ran
      /\ p_time \in [Pcb -> Int] /\ ran \in [Pcb -> Int]
      /\ initialTOD' = IF cpu' = "run" THEN now' ELSE initialTOD
      /\ initialTOD \in Int
      /\ \A p \in Live : ran[p] = Mod(Due(p))
  BY ChargedLemma DEF Dispatch, TimeInv
<1>3. now' \in Int
  BY MeanwhileLemma DEF Dispatch, TimeInv
<1>4. ASSUME NEW p \in Live'  PROVE ran'[p] = Mod(p_time'[p])
  <2>1. p \in Live /\ p \in Pcb /\ p # currentProcess
    BY <1>1, PcbAssumption DEF Live
  <2>2. Due(p) = p_time[p] + 0 /\ p_time[p] \in Int
    BY <1>2, <2>1 DEF Due
  <2>. QED  BY <1>2, <2>1, <2>2
<1>. QED  BY <1>1, <1>2, <1>3, <1>4, SettledLemma

LEMMA ReturnStep ==
  ASSUME W \in Nat \ {0}, IInv, TimeInv, Return
  PROVE  TimeInv'
<1>1. /\ UNCHANGED <<now, initialTOD, currentProcess>>
      /\ p_time' = Reset(p_time) /\ ran' = Reset(ran)
      /\ now \in Int /\ initialTOD \in Int
      /\ p_time \in [Pcb -> Int] /\ ran \in [Pcb -> Int]
      /\ currentProcess \notin pcbFree
      /\ \A p \in Live : ran[p] = Mod(Due(p))
  BY ChargedLemma DEF Return, TimeInv, IInv, Places
<1>2. p_time' \in [Pcb -> Int] /\ ran' \in [Pcb -> Int]
  BY <1>1 DEF Reset
<1>3. ASSUME NEW p \in Live'  PROVE ran'[p] = Mod(Due(p)')
  <2>1. CASE p \in pcbFree
    <3>1. ran'[p] = 0 /\ p_time'[p] = 0 /\ p # currentProcess
      BY <1>1, <2>1 DEF Reset, Live
    <3>2. Mod(0) = 0
      BY Z3 DEF Mod
    <3>. QED  BY <1>1, <3>1, <3>2 DEF Due
  <2>2. CASE p \notin pcbFree
    <3>1. p \in Live /\ ran'[p] = ran[p] /\ p_time'[p] = p_time[p]
      BY <1>1, <2>2 DEF Reset, Live
    <3>. QED  BY <1>1, <3>1 DEF Due
  <2>. QED  BY <2>1, <2>2
<1>4. TimeCharged'
  BY <1>3 DEF TimeCharged, Mod, Due
<1>. QED  BY <1>1, <1>2, <1>4 DEF TimeInv

LEMMA TimeInvInit ==
  ASSUME W \in Nat \ {0}, TimeInit
  PROVE  TimeInv
<1>1. /\ now \in Int /\ initialTOD = now /\ Live \subseteq Pcb
      /\ p_time = [p \in Pcb |-> 0] /\ ran = [p \in Pcb |-> 0]
  BY DEF TimeInit, Live
<1>2. ASSUME NEW p \in Live  PROVE ran[p] = Mod(Due(p))
  <2>1. Due(p) = 0 /\ ran[p] = 0
    BY <1>1 DEF Due
  <2>2. Mod(0) = 0
    BY Z3 DEF Mod
  <2>. QED  BY <2>1, <2>2
<1>. QED  BY <1>1, <1>2, ChargedLemma DEF TimeInv

LEMMA TimeInvStep ==
  ASSUME W \in Nat \ {0}, IInv, TimeInv, [TimeNext]_allVars
  PROVE  TimeInv'
<1>1. CASE UNCHANGED allVars
  BY <1>1 DEF allVars, timeVars, vars, TimeInv, TimeCharged, Live
<1>. QED  BY <1>1, ElapseStep, GetCpuTimeStep, BlockingTimeStep, SliceStep,
             ReturnStep, DispatchStep DEF TimeNext

(***************************************************************************)
(* TimeCharged in every reachable state, for every number of processes and *)
(* semaphores and every size of the clock's word.                          *)
(***************************************************************************)
THEOREM TimeIsCharged ==
  ASSUME W \in Nat \ {0}
  PROVE  TimeSpec => []TimeCharged
<1>1. TimeInit => TimeInv
  BY TimeInvInit
<1>2. IInv /\ TimeInv /\ [TimeNext]_allVars => TimeInv'
  BY TimeInvStep
<1>3. TimeInv => TimeCharged
  BY DEF TimeInv
<1>. QED  BY <1>1, <1>2, <1>3, TimeImplementsNucleus, Invariance, PTL DEF TimeSpec
==============================================================================
