---------------------------- MODULE P2TestProofs ----------------------------
(***************************************************************************)
(* The test program of the nucleus does nothing that the nucleus does not  *)
(* allow: its specification implements that of Nucleus, for every number   *)
(* of pcbs and every bound, so whatever NucleusProofs proves of the        *)
(* nucleus holds while the test runs. And its messages do not mix: the     *)
(* invariant that says so is about the programs of the test, for every     *)
(* length of a message and of the waiting loop, and about the way the      *)
(* nucleus blocks, wakes up and terminates their processes. And when p5    *)
(* frees blkp4 the p4s are dead, but for orphans: that is about the order  *)
(* in which p1, p4 and p5 get to the semaphores they share, the clock and  *)
(* the idle processor.                                                     *)
(***************************************************************************)
EXTENDS P2Test, NucleusProofs

LEMMA SimpleStep ==
  ASSUME NEW instr, Simple(instr)
  PROVE  Next
<1>1. CASE TerminateProcess
  BY <1>1 DEF Next, Syscall
<1>2. CASE passupOrDie
  BY <1>2 DEF Next
<1>3. CASE Command("terminal")
  BY <1>3, SemAssumption, TestAssumption DEF Next
<1>4. CASE WaitForIO("terminal")
  BY <1>4, SemAssumption, TestAssumption DEF Next, Syscall
<1>5. CASE \E s \in UserSem : Passeren(s) \/ Verhogen(s)
  BY <1>5 DEF Next, Syscall
<1>. QED  BY <1>1, <1>2, <1>3, <1>4, <1>5 DEF Simple, InvalidEntry

LEMMA ExecuteStep ==
  ASSUME Execute
  PROVE  Next \/ UNCHANGED vars
<1>1. CASE RunSimple
  BY <1>1, SimpleStep DEF RunSimple
<1>2. CASE RunClockwait
  BY <1>2 DEF RunClockwait, Next, Syscall
<1>3. CASE HalfPassed \/ HalfNotPassed \/ RefillAgain
  BY <1>3 DEF HalfPassed, HalfNotPassed, RefillAgain
<1>4. CASE \E prog \in DOMAIN Code, sup \in BOOLEAN : RunCreate(prog, sup)
  BY <1>4, TestAssumption DEF RunCreate, Next, Syscall
<1>. QED  BY <1>1, <1>2, <1>3, <1>4 DEF Execute

LEMMA TestStep ==
  ASSUME [TestNext]_allVars
  PROVE  [Next]_vars
<1>1. CASE Execute
  BY <1>1, ExecuteStep
<1>2. CASE Terminating
  BY <1>2 DEF Terminating, Kernel, Next
<1>3. CASE BusError
  BY <1>3 DEF BusError, Kernel, Next
<1>4. CASE Tick
  BY <1>4 DEF Tick, Kernel, Next, Interrupt
<1>5. CASE Sent
  BY <1>5, SemAssumption, TestAssumption DEF Sent, Kernel, Next, Interrupt
<1>6. CASE Preempt
  BY <1>6 DEF Preempt, Kernel, Next, Interrupt
<1>7. CASE Halted
  BY <1>7 DEF Halted, Next
<1>8. CASE UNCHANGED allVars
  BY <1>8 DEF allVars
<1>. QED  BY <1>1, <1>2, <1>3, <1>4, <1>5, <1>6, <1>7, <1>8 DEF TestNext

(***************************************************************************)
(* Every behaviour of the test is one of the nucleus.                      *)
(***************************************************************************)
THEOREM TestRunsOnNucleus == TestSpec => Spec
<1>1. TestInit => Init
  BY DEF TestInit
<1>. QED  BY <1>1, TestStep, PTL DEF TestSpec, Spec

(***************************************************************************)
(* While the test runs, with its orphans, preemptions and early interrupts,*)
(* no process hides, and every P finds a descriptor.                       *)
(***************************************************************************)
THEOREM TestKeepsNucleusSound ==
  TestSpec => [](NoHiding /\ SemaphoreCountsWaiters /\ DescriptorAvailable)
  BY TestRunsOnNucleus, ProcessesCannotHide, SemaphoresCount, DescriptorsSuffice,
     PTL

------------------------------------------------------------------------------
\* The code of the test's processes, for any MsgLen and CLOCKLOOP.

(***************************************************************************)
(* Repeat(n, body) stays in a set of sequences that holds the empty one    *)
(* and body and is closed under concatenation. Repeat is a recursive       *)
(* function over 1 .. n, so the proof first shows, by the least            *)
(* counterexample, that such a function exists, and then, in the same way, *)
(* that it stays in the set.                                               *)
(***************************************************************************)
LEMMA RepeatLemma ==
  ASSUME NEW S, <<>> \in S, NEW body \in S,
         \A c, d \in S : c \o d \in S,
         NEW n \in Nat
  PROVE  Repeat(n, body) \in S
<1> DEFINE Step(f, i) == IF i = 1 THEN body ELSE f[i-1] \o body
           Made(k) == \E f : f = [i \in 1 .. k |-> Step(f, i)]
           Unmade == {k \in Nat : ~Made(k)}
<1>1. Made(n)
  <2> SUFFICES ASSUME Unmade # {}  PROVE FALSE
    OBVIOUS
  <2>1. PICK m \in Unmade : \A k \in Unmade : m <= k
    <3>1. Unmade \in SUBSET Nat
      OBVIOUS
    <3> HIDE DEF Unmade
    <3>. QED  BY <3>1, LeastLemma
  <2>2. CASE m = 0
    <3>1. <<>> = [i \in 1 .. 0 |-> Step(<<>>, i)]
      OBVIOUS
    <3>. QED  BY <2>1, <2>2, <3>1
  <2>3. CASE m # 0
    <3>0. m \in Nat \ {0} /\ m - 1 \in Nat /\ ~(m <= m - 1)
      BY <2>1, <2>3
    <3>1. Made(m - 1)
      BY <2>1, <3>0
    <3>2. PICK f : f = [i \in 1 .. m - 1 |-> Step(f, i)]
      BY <3>1
    <3> DEFINE g == [i \in 1 .. m |-> IF i = m THEN Step(f, m) ELSE f[i]]
    <3>3. ASSUME NEW i \in 1 .. m  PROVE g[i] = Step(g, i)
      <4>1. i = 1 \/ (i - 1 \in 1 .. m /\ i - 1 # m)
        BY <3>0
      <4>2. i # 1 => g[i - 1] = f[i - 1]
        BY <4>1
      <4>3. Step(g, i) = Step(f, i)
        BY <4>2
      <4>4. CASE i = m
        BY <4>3, <4>4
      <4>5. CASE i # m
        <5>1. i \in 1 .. m - 1
          BY <3>0, <4>5
        <5>2. f[i] = Step(f, i)
          <6> HIDE DEF Step
          <6>. QED  BY <3>2, <5>1
        <5>. QED  BY <4>3, <4>5, <5>2
      <4>. QED  BY <4>4, <4>5
    <3>4. g = [i \in 1 .. m |-> Step(g, i)]
      <4> HIDE DEF Step
      <4>1. DOMAIN g = 1 .. m
        OBVIOUS
      <4>2. g = [i \in 1 .. m |-> g[i]]
        OBVIOUS
      <4> HIDE DEF g
      <4>. QED  BY <3>3, <4>1, <4>2
    <3>5. Made(m)
      BY <3>4
    <3>. QED  BY <2>1, <3>5
  <2>. QED  BY <2>2, <2>3
<1> DEFINE flat == CHOOSE f : f = [i \in 1 .. n |-> Step(f, i)]
<1>2. flat = [i \in 1 .. n |-> Step(flat, i)]
  <2> HIDE DEF Step
  <2>. QED  BY <1>1
<1> HIDE DEF flat
<1>3. \A i \in 1 .. n : flat[i] \in S
  <2> DEFINE Bad == {i \in 1 .. n : flat[i] \notin S}
  <2> SUFFICES ASSUME Bad # {}  PROVE FALSE
    OBVIOUS
  <2>1. PICK i \in Bad : \A k \in Bad : i <= k
    <3>1. Bad \in SUBSET Nat
      OBVIOUS
    <3> HIDE DEF Bad
    <3>. QED  BY <3>1, LeastLemma
  <2>2. i \in 1 .. n /\ flat[i] = Step(flat, i)
    <3> HIDE DEF Step
    <3>. QED  BY <1>2, <2>1
  <2>3. CASE i = 1
    BY <2>1, <2>2, <2>3
  <2>4. CASE i # 1
    <3>1. i - 1 \in 1 .. n /\ ~(i <= i - 1)
      BY <2>2, <2>4
    <3>2. flat[i - 1] \in S
      BY <2>1, <3>1
    <3>. QED  BY <2>1, <2>2, <2>4, <3>2
  <2>. QED  BY <2>3, <2>4
<1>4. CASE n = 0
  <2>1. [i \in 1 .. 0 |-> body] = <<>>
    OBVIOUS
  <2>. QED  BY <1>4, <2>1 DEF Repeat, FlattenSeq
<1>5. CASE n # 0
  <2> DEFINE seqs == [i \in 1 .. n |-> body]
  <2>1. Len(seqs) = n /\ \A i \in 1 .. n : seqs[i] = body
    OBVIOUS
  <2> HIDE DEF seqs
  <2> DEFINE flatten == CHOOSE f : f = [i \in 1 .. Len(seqs) |->
                          IF i = 1 THEN seqs[i] ELSE f[i-1] \o seqs[i]]
  <2>2. Repeat(n, body) = flatten[n]
    BY <1>5, <2>1 DEF Repeat, FlattenSeq, seqs
  <2>3. flatten = flat
    <3>1. ASSUME NEW f
          PROVE  [i \in 1 .. Len(seqs) |-> IF i = 1 THEN seqs[i] ELSE f[i-1] \o seqs[i]]
                   = [i \in 1 .. n |-> Step(f, i)]
      BY <2>1
    <3>2. flat = CHOOSE f : f = [i \in 1 .. n |-> Step(f, i)]
      BY DEF flat
    <3> HIDE DEF Step
    <3>. QED  BY <3>1, <3>2
  <2> HIDE DEF flatten
  <2>4. flatten[n] \in S
    BY <1>3, <1>5, <2>3
  <2>. QED  BY <2>2, <2>4
<1>. QED  BY <1>4, <1>5

(***************************************************************************)
(* What the code of the test's processes looks like. Inside are the        *)
(* instructions between P(term_mut) and V(term_mut), Enter the ones that   *)
(* may precede them.                                                       *)
(***************************************************************************)
Inside == {Char, Wait, V("term_mut")}

Enter  == {P("term_mut"), Char, Wait}

(***************************************************************************)
(* The instructions outside a message: the system calls, the trap and the  *)
(* store of p5; Creates are the calls of SYS1, which give a support        *)
(* structure to p5 alone.                                                  *)
(***************************************************************************)
Plain   == {P(s) : s \in UserSem}
             \cup {V(s) : s \in UserSem \ {"term_mut", "blkp8"}}
             \cup {Clockwait, Exit, Trap, Store}

Creates == {Create(prog, FALSE) : prog \in DOMAIN Code \ {"p5"}}
             \cup {Create("p5", TRUE)}

(***************************************************************************)
(* A piece of code in which each instruction of a message follows its      *)
(* P(term_mut) or another one of the message, and each jump back of p2's   *)
(* second half follows a WAITCLOCK. Its other instructions are in I.       *)
(***************************************************************************)
Section(I, c) ==
  /\ c \in Seq(I \cup Inside \cup {UntilHalf})
  /\ \A i \in 1 .. Len(c) :
       /\ c[i] \in Inside => i > 1 /\ c[i-1] \in Enter
       /\ c[i] = UntilHalf => i > 1 /\ c[i-1] = Clockwait

EndsIn(c, x) == Len(c) > 0 /\ c[Len(c)] = x

(***************************************************************************)
(* The instructions outside a message are not the ones inside.             *)
(***************************************************************************)
LEMMA Distinct ==
  ASSUME NEW x \in Plain \cup Creates
  PROVE  x \notin Inside /\ x # UntilHalf
<1>1. CASE x \in {P(s) : s \in UserSem}
  BY <1>1 DEF Inside, UntilHalf, P, V, Char, Wait
<1>2. CASE x \in {V(s) : s \in UserSem \ {"term_mut", "blkp8"}}
  BY <1>2 DEF Inside, UntilHalf, V, Char, Wait
<1>3. CASE x \in {Clockwait, Exit, Trap, Store}
  BY <1>3 DEF Inside, UntilHalf, Clockwait, Exit, Trap, Store, V, Char, Wait
<1>4. CASE x \in Creates
  <2>1. PICK prog, sup : x = Create(prog, sup)
    BY <1>4 DEF Creates
  <2>2. x = <<"create", prog, sup>>
    BY <2>1 DEF Create
  <2>. QED  BY <2>2 DEF Inside, UntilHalf, V, Char, Wait
<1>. QED  BY <1>1, <1>2, <1>3, <1>4 DEF Plain

(***************************************************************************)
(* Two pieces one after the other are a piece.                             *)
(***************************************************************************)
LEMMA SectionConcat ==
  ASSUME NEW I, NEW c, NEW d, Section(I, c), Section(I, d)
  PROVE  Section(I, c \o d)
<1> DEFINE J == I \cup Inside \cup {UntilHalf}
           e == c \o d
<1>0. c \in Seq(J) /\ d \in Seq(J)
  BY DEF Section
<1> HIDE DEF J
<1>1. /\ e \in Seq(J) /\ Len(e) = Len(c) + Len(d)
      /\ Len(c) \in Nat /\ Len(d) \in Nat
      /\ \A i \in 1 .. Len(c) : e[i] = c[i]
      /\ \A i \in 1 .. Len(d) : e[Len(c) + i] = d[i]
  BY <1>0
<1> HIDE DEF e
<1>2. ASSUME NEW i \in 1 .. Len(e)
      PROVE  /\ e[i] \in Inside => i > 1 /\ e[i-1] \in Enter
             /\ e[i] = UntilHalf => i > 1 /\ e[i-1] = Clockwait
  <2>1. CASE i \in 1 .. Len(c)
    <3>1. i > 1 => i - 1 \in 1 .. Len(c)
      BY <1>1, <2>1
    <3>. QED  BY <1>1, <2>1, <3>1 DEF Section
  <2>2. CASE i \notin 1 .. Len(c)
    <3>1. PICK k \in 1 .. Len(d) : i = Len(c) + k
      <4>1. i - Len(c) \in 1 .. Len(d) /\ i = Len(c) + (i - Len(c))
        BY <1>1, <2>2
      <4>. QED  BY <4>1
    <3>2. e[i] = d[k]
      BY <1>1, <3>1
    <3>3. k > 1 => i > 1 /\ k - 1 \in 1 .. Len(d) /\ i - 1 = Len(c) + (k - 1)
      BY <1>1, <3>1
    <3>4. k > 1 => e[i - 1] = d[k - 1]
      BY <1>1, <3>3
    <3>. QED  BY <3>1, <3>2, <3>3, <3>4 DEF Section
  <2>. QED  BY <2>1, <2>2
<1>. QED  BY <1>1, <1>2 DEF Section, J, e

(***************************************************************************)
(* Code without messages is a piece.                                       *)
(***************************************************************************)
LEMMA SectionPlain ==
  ASSUME NEW I \in SUBSET (Plain \cup Creates), NEW c \in Seq(I)
  PROVE  Section(I, c)
<1>1. \A i \in 1 .. Len(c) : c[i] \in I
  OBVIOUS
<1>2. \A i \in 1 .. Len(c) : c[i] \notin Inside /\ c[i] # UntilHalf
  BY <1>1, Distinct
<1>3. c \in Seq(I \cup Inside \cup {UntilHalf})
  OBVIOUS
<1>. QED  BY <1>2, <1>3 DEF Section

(***************************************************************************)
(* A piece repeated is a piece.                                            *)
(***************************************************************************)
LEMMA SectionRepeat ==
  ASSUME NEW I, NEW body, Section(I, body), NEW n \in Nat
  PROVE  Section(I, Repeat(n, body))
<1> DEFINE S == {c \in Seq(I \cup Inside \cup {UntilHalf}) : Section(I, c)}
<1>1. \A c : c \in S <=> Section(I, c)
  BY DEF Section
<1> HIDE DEF S
<1>2. <<>> \in S
  <2>1. Section(I, <<>>)
    BY DEF Section
  <2>. QED  BY <1>1, <2>1
<1>3. \A c, d \in S : c \o d \in S
  BY <1>1, SectionConcat
<1>. QED  BY <1>1, <1>2, <1>3, RepeatLemma

(***************************************************************************)
(* print, for messages of any length, is a piece.                          *)
(***************************************************************************)
LEMMA SectionPrint ==
  ASSUME NEW I, P("term_mut") \in I
  PROVE  Section(I, print) /\ Len(print) > 0
<1> DEFINE C == {Char, Wait}
           J == I \cup Inside \cup {UntilHalf}
           loop == Repeat(MsgLen, <<Char, Wait>>)
           a == <<P("term_mut")>> \o loop
           c == a \o <<V("term_mut")>>
<1>1. loop \in Seq(C)
  <2>1. /\ <<>> \in Seq(C) /\ <<Char, Wait>> \in Seq(C)
        /\ \A x, y \in Seq(C) : x \o y \in Seq(C)
    OBVIOUS
  <2> HIDE DEF C
  <2>. QED  BY <2>1, RepeatLemma, TestAssumption
<1>2. print = c
  BY DEF print
<1>3. C \subseteq J /\ C \subseteq Inside /\ C \subseteq Enter
      /\ P("term_mut") \in J /\ V("term_mut") \in J /\ P("term_mut") \in Enter
  BY DEF Inside, Enter
<1>4. P("term_mut") \notin Inside \cup {UntilHalf} /\ V("term_mut") # UntilHalf
      /\ UntilHalf \notin C
  BY DEF Inside, UntilHalf, P, V, Char, Wait
<1> HIDE DEF C, J, loop
<1>5. /\ a \in Seq(J) /\ Len(a) = Len(loop) + 1 /\ Len(loop) \in Nat
      /\ a[1] = P("term_mut")
      /\ \A i \in 1 .. Len(a) : i # 1 => a[i] \in C
  <2>1. loop \in Seq(J) /\ <<P("term_mut")>> \in Seq(J)
    BY <1>1, <1>3
  <2>2. a \in Seq(J) /\ Len(a) = Len(loop) + 1 /\ Len(loop) \in Nat
    BY <2>1
  <2>3. a[1] = P("term_mut") /\ \A i \in 1 .. Len(loop) : a[1 + i] = loop[i]
    BY <2>1
  <2>4. \A i \in 1 .. Len(loop) : loop[i] \in C
    BY <1>1
  <2> HIDE DEF a
  <2>5. ASSUME NEW i \in 1 .. Len(a), i # 1  PROVE a[i] \in C
    <3>1. i - 1 \in 1 .. Len(loop) /\ i = 1 + (i - 1)
      BY <2>2, <2>5
    <3>. QED  BY <2>3, <2>4, <3>1
  <2>. QED  BY <2>2, <2>3, <2>5
<1> HIDE DEF a
<1>6. /\ c \in Seq(J) /\ Len(c) = Len(a) + 1
      /\ \A i \in 1 .. Len(a) : c[i] = a[i]
      /\ c[Len(a) + 1] = V("term_mut")
  <2>1. <<V("term_mut")>> \in Seq(J)
    BY <1>3
  <2>. QED  BY <1>5, <2>1
<1> HIDE DEF c
<1>7. \A i \in 1 .. Len(a) : a[i] \in Enter
  BY <1>3, <1>5
<1>8. ASSUME NEW i \in 1 .. Len(c)
      PROVE  /\ c[i] \in Inside => i > 1 /\ c[i-1] \in Enter
             /\ c[i] = UntilHalf => i > 1 /\ c[i-1] = Clockwait
  <2>1. i = 1 \/ (i > 1 /\ i - 1 \in 1 .. Len(a))
    BY <1>5, <1>6
  <2>2. i > 1 => c[i-1] \in Enter
    BY <1>6, <1>7, <2>1
  <2>3. c[1] = P("term_mut")
    BY <1>5, <1>6
  <2>4. c[i] # UntilHalf
    <3>1. CASE i \in 1 .. Len(a)
      BY <1>4, <1>5, <1>6, <3>1
    <3>2. CASE i = Len(a) + 1
      BY <1>4, <1>6, <3>2
    <3>. QED  BY <1>5, <1>6, <3>1, <3>2
  <2>. QED  BY <1>4, <2>1, <2>2, <2>3, <2>4
<1>. QED  BY <1>2, <1>5, <1>6, <1>8 DEF Section, J

(***************************************************************************)
(* All instructions outside a message.                                     *)
(***************************************************************************)
Outside == Plain \cup Creates

(***************************************************************************)
(* A whole program is a piece with an end: its last instruction is in      *)
(* last.                                                                   *)
(***************************************************************************)
Program(I, last, c) == Section(I, c) /\ Len(c) > 0 /\ c[Len(c)] \in last

(***************************************************************************)
(* How a program may end: SYS2, a trap, or the P(blkp8) of the leaves,     *)
(* which nobody wakes up.                                                  *)
(***************************************************************************)
Ends == {Exit, Trap, P("blkp8")}

(***************************************************************************)
(* A piece followed by a program is a program.                             *)
(***************************************************************************)
LEMMA ProgramConcat ==
  ASSUME NEW I, NEW last, NEW c, NEW d, Section(I, c), Program(I, last, d)
  PROVE  Program(I, last, c \o d)
<1>1. Section(I, c \o d)
  BY SectionConcat DEF Program
<1>2. /\ c \in Seq(I \cup Inside \cup {UntilHalf})
      /\ d \in Seq(I \cup Inside \cup {UntilHalf})
  BY DEF Section, Program
<1>3. Len(c \o d) = Len(c) + Len(d) /\ Len(c) \in Nat /\ Len(d) \in Nat
  BY <1>2
<1>4. Len(d) > 0 /\ d[Len(d)] \in last
  BY DEF Program
<1>5. (c \o d)[Len(c \o d)] = d[Len(d)]
  BY <1>2, <1>3, <1>4
<1>. QED  BY <1>1, <1>3, <1>4, <1>5 DEF Program

(***************************************************************************)
(* The instructions of the test, by name.                                  *)
(***************************************************************************)
LEMMA PlainFacts ==
  /\ P("startp2") \in Plain /\ P("endp2") \in Plain /\ P("endp3") \in Plain
  /\ P("endp4") \in Plain /\ P("endp5") \in Plain /\ P("endp8") \in Plain
  /\ P("endcreate") \in Plain /\ P("synp4") \in Plain /\ P("blkp4") \in Plain
  /\ P("s") \in Plain /\ P("term_mut") \in Plain /\ P("blkp8") \in Plain
  /\ V("testsem") \in Plain /\ V("s") \in Plain /\ V("startp2") \in Plain
  /\ V("endp2") \in Plain /\ V("endp3") \in Plain /\ V("endp4") \in Plain
  /\ V("endp5") \in Plain /\ V("endp8") \in Plain /\ V("endcreate") \in Plain
  /\ V("synp4") \in Plain /\ V("blkp4") \in Plain /\ Clockwait \in Plain
  /\ Exit \in Plain /\ Trap \in Plain /\ Store \in Plain
  BY TestAssumption DEF Plain

(***************************************************************************)
(* The calls of SYS1 of the test, by name.                                 *)
(***************************************************************************)
LEMMA CreateFacts ==
  /\ Create("p2", FALSE) \in Creates
  /\ Create("p3", FALSE) \in Creates
  /\ Create("p4", FALSE) \in Creates
  /\ Create("p6", FALSE) \in Creates
  /\ Create("p7", FALSE) \in Creates
  /\ Create("p8root", FALSE) \in Creates
  /\ Create("child1", FALSE) \in Creates
  /\ Create("child2", FALSE) \in Creates
  /\ Create("p8leaf", FALSE) \in Creates
  /\ Create("p5", TRUE) \in Creates
<1>1. {"p2", "p3", "p4", "p6", "p7", "p8root", "child1", "child2", "p8leaf"}
        \subseteq DOMAIN Code \ {"p5"}
  BY DEF Code
<1>. QED  BY <1>1 DEF Creates

(***************************************************************************)
(* The pieces that the programs are made of.                               *)
(***************************************************************************)
LEMMA PlainPiece ==
  ASSUME NEW c \in Seq(Outside)
  PROVE  Section(Outside, c)
  BY SectionPlain DEF Outside

(***************************************************************************)
(* The pieces that end a program.                                          *)
(***************************************************************************)
LEMMA EndPiece ==
  ASSUME NEW I \in SUBSET Outside, NEW x \in I, NEW y \in I, NEW last, y \in last
  PROVE  Program(I, last, <<y>>) /\ Program(I, last, <<x, y>>)
<1>1. <<y>> \in Seq(I) /\ <<x, y>> \in Seq(I)
  OBVIOUS
<1>2. Section(I, <<y>>) /\ Section(I, <<x, y>>)
  BY <1>1, SectionPlain DEF Outside
<1>. QED  BY <1>2 DEF Program

(***************************************************************************)
(* print, in the two kinds of programs.                                    *)
(***************************************************************************)
LEMMA PrintPiece == Section(Outside, print) /\ Section(Plain, print)
  BY PlainFacts, SectionPrint DEF Outside

(***************************************************************************)
(* The loop of p2 that waits for half of the clock ticks.                  *)
(***************************************************************************)
LEMMA HalfPiece ==
  ASSUME NEW I, Clockwait \in I
  PROVE  Section(I, <<Clockwait, UntilHalf>>)
<1> DEFINE c == <<Clockwait, UntilHalf>>
<1>1. Clockwait \notin Inside /\ Clockwait # UntilHalf
  BY Distinct, PlainFacts
<1>2. UntilHalf \notin Inside
  BY DEF Inside, UntilHalf, Char, Wait, V
<1>3. /\ c \in Seq(I \cup Inside \cup {UntilHalf}) /\ Len(c) = 2
      /\ c[1] = Clockwait /\ c[2] = UntilHalf
  OBVIOUS
<1> HIDE DEF c
<1>4. \A i \in 1 .. Len(c) : i = 1 \/ i = 2
  BY <1>3
<1>. QED  BY <1>1, <1>2, <1>3, <1>4 DEF Section, c

(***************************************************************************)
(* Each program of the test is a piece with an end; the code of p5, which  *)
(* alone has a support structure, creates nobody and ends in SYS2.         *)
(***************************************************************************)
LEMMA testProgram == Program(Outside, Ends, test)
<1> DEFINE m2 == Create("p2", FALSE)
           m3 == Create("p3", FALSE)
           m4 == Create("p4", FALSE)
           m5 == Create("p5", TRUE)
           m6 == Create("p6", FALSE)
           m7 == Create("p7", FALSE)
           m8 == Create("p8root", FALSE)
<1>1. /\ m2 \in Outside /\ m3 \in Outside /\ m4 \in Outside /\ m5 \in Outside
      /\ m6 \in Outside /\ m7 \in Outside /\ m8 \in Outside
  BY CreateFacts, Zenon DEF Outside
<1> DEFINE a == <<V("testsem")>>
           b == <<m2>>
           c == <<V("startp2"), P("endp2"), m3>>
           d == <<P("endp3"), m4, m5, m6, m7, P("endp5")>>
           e == <<P("blkp4")>>
           f == <<m8, P("endp8")>>
           body == a \o print \o b \o print \o c \o print \o d \o print
                     \o e \o Repeat(Incarnations, f) \o print
<1>2. test = body \o <<Trap>>
  BY Zenon DEF test
<1> HIDE DEF m2, m3, m4, m5, m6, m7, m8
<1>3. /\ a \in Seq(Outside) /\ b \in Seq(Outside) /\ c \in Seq(Outside)
      /\ d \in Seq(Outside) /\ e \in Seq(Outside) /\ f \in Seq(Outside)
  BY <1>1, PlainFacts DEF Outside
<1> HIDE DEF a, b, c, d, e, f
<1>4. Section(Outside, Repeat(Incarnations, f))
  BY <1>3, PlainPiece, SectionRepeat, TestAssumption
<1>5. Section(Outside, body)
  BY <1>3, <1>4, PlainPiece, PrintPiece, SectionConcat
<1>6. Program(Outside, Ends, <<Trap>>)
  BY EndPiece, PlainFacts DEF Outside, Ends
<1> HIDE DEF body
<1>. QED  BY <1>2, <1>5, <1>6, ProgramConcat

LEMMA p2Program == Program(Outside, Ends, p2)
<1> DEFINE a == <<P("startp2")>>
           b == <<V("s"), P("s")>>
           body == a \o print \o b \o print \o print
<1>1. p2 = body \o <<V("endp2"), Exit>>
  BY DEF p2
<1>2. a \in Seq(Outside) /\ b \in Seq(Outside)
  BY PlainFacts DEF Outside
<1> HIDE DEF a, b
<1>3. Section(Outside, body)
  BY <1>2, PlainPiece, PrintPiece, SectionConcat
<1>4. Program(Outside, Ends, <<V("endp2"), Exit>>)
  BY EndPiece, PlainFacts DEF Outside, Ends
<1> HIDE DEF body
<1>. QED  BY <1>1, <1>3, <1>4, ProgramConcat

LEMMA p3Program == Program(Outside, Ends, p3)
<1> DEFINE a == <<Clockwait, UntilHalf>>
           b == <<Clockwait>>
           body == a \o print \o Repeat(CLOCKLOOP, b) \o print
<1>1. p3 = body \o <<V("endp3"), Exit>>
  BY DEF p3
<1>2. Section(Outside, a) /\ b \in Seq(Outside)
  BY PlainFacts, HalfPiece DEF Outside
<1> HIDE DEF a, b
<1>3. Section(Outside, Repeat(CLOCKLOOP, b))
  BY <1>2, PlainPiece, SectionRepeat, TestAssumption
<1>4. Section(Outside, body)
  BY <1>2, <1>3, PrintPiece, SectionConcat
<1>5. Program(Outside, Ends, <<V("endp3"), Exit>>)
  BY EndPiece, PlainFacts DEF Outside, Ends
<1> HIDE DEF body
<1>. QED  BY <1>1, <1>4, <1>5, ProgramConcat

LEMMA p4Program == Program(Outside, Ends, p4)
<1> DEFINE m4 == Create("p4", FALSE)
<1>1. m4 \in Outside
  BY CreateFacts, Zenon DEF Outside
<1> DEFINE a == <<V("synp4"), P("blkp4"), P("synp4"), m4, P("synp4")>>
           body == print \o a \o print
<1>2. p4 = body \o <<V("endp4"), Exit>>
  BY Zenon DEF p4
<1> HIDE DEF m4
<1>3. a \in Seq(Outside)
  BY <1>1, PlainFacts DEF Outside
<1> HIDE DEF a
<1>4. Section(Outside, body)
  BY <1>3, PlainPiece, PrintPiece, SectionConcat
<1>5. Program(Outside, Ends, <<V("endp4"), Exit>>)
  BY EndPiece, PlainFacts DEF Outside, Ends
<1> HIDE DEF body
<1>. QED  BY <1>2, <1>4, <1>5, ProgramConcat

LEMMA p5Program == Program(Plain, {Exit}, p5)
<1> DEFINE t == <<Trap>>
           s == <<Store>>
           a == <<P("endp4")>>
           b == <<Clockwait, UntilHalf>>
           c == <<V("blkp4")>>
           d == <<V("endp5"), Exit>>
           body == print \o t \o print \o (s \o (print \o print))
           rest == t \o print \o t \o print
           tail == <<P("endp4"), Clockwait, UntilHalf, V("blkp4"), V("endp5"), Exit>>
<1>1. p5 = body \o (rest \o tail)
  BY DEF p5, p5gen, p5a, p5b, p5mm, p5sys
<1>2. tail = a \o b \o c \o d
  OBVIOUS
<1>3. /\ t \in Seq(Plain) /\ s \in Seq(Plain) /\ a \in Seq(Plain) /\ c \in Seq(Plain)
      /\ Section(Plain, b)
  BY PlainFacts, HalfPiece
<1>4. Program(Plain, {Exit}, d)
  BY EndPiece, PlainFacts DEF Outside
<1> HIDE DEF t, s, a, b, c, d
<1>5. /\ Section(Plain, t) /\ Section(Plain, s) /\ Section(Plain, a)
      /\ Section(Plain, c)
  BY <1>3, SectionPlain
<1>6. Section(Plain, body) /\ Section(Plain, rest) /\ Section(Plain, a \o b \o c)
  BY <1>3, <1>5, PrintPiece, SectionConcat
<1>7. Program(Plain, {Exit}, tail)
  BY <1>2, <1>4, <1>6, ProgramConcat
<1> HIDE DEF body, rest, tail
<1>. QED  BY <1>1, <1>6, <1>7, ProgramConcat

LEMMA p67Program == Program(Outside, Ends, p6) /\ Program(Outside, Ends, p7)
<1>1. Program(Outside, Ends, <<Trap>>)
  BY EndPiece, PlainFacts DEF Outside, Ends
<1>. QED  BY <1>1, PrintPiece, ProgramConcat DEF p6, p7

LEMMA p8rootProgram == Program(Outside, Ends, p8root)
<1> DEFINE m1 == Create("child1", FALSE)
           m2 == Create("child2", FALSE)
<1>1. m1 \in Outside /\ m2 \in Outside
  BY CreateFacts, Zenon DEF Outside
<1> DEFINE a == <<m1, m2>>
           b == <<P("endcreate")>>
           body == print \o a \o Repeat(4, b)
<1>2. p8root = body \o <<V("endp8"), Exit>>
  BY Zenon DEF p8root
<1> HIDE DEF m1, m2
<1>3. a \in Seq(Outside) /\ b \in Seq(Outside)
  BY <1>1, PlainFacts DEF Outside
<1> HIDE DEF a, b
<1>4. Section(Outside, Repeat(4, b))
  BY <1>3, PlainPiece, SectionRepeat
<1>5. Section(Outside, body)
  BY <1>3, <1>4, PlainPiece, PrintPiece, SectionConcat
<1>6. Program(Outside, Ends, <<V("endp8"), Exit>>)
  BY EndPiece, PlainFacts DEF Outside, Ends
<1> HIDE DEF body
<1>. QED  BY <1>2, <1>5, <1>6, ProgramConcat

LEMMA childProgram ==
  /\ Program(Outside, Ends, child1) /\ Program(Outside, Ends, child2)
  /\ Program(Outside, Ends, p8leaf)
<1> DEFINE m == Create("p8leaf", FALSE)
<1>1. m \in Outside
  BY CreateFacts, Zenon DEF Outside
<1> DEFINE a == <<m, m, P("blkp8")>>
           b == <<V("endcreate"), P("blkp8")>>
<1>2. child1 = print \o a /\ child2 = print \o a /\ p8leaf = print \o b
  BY Zenon DEF child1, child2, p8leaf
<1> HIDE DEF m
<1>3. Program(Outside, Ends, a)
  <2>1. a \in Seq(Outside)
    BY <1>1, PlainFacts DEF Outside
  <2>2. Section(Outside, a)
    BY <2>1, PlainPiece
  <2>. QED  BY <2>2 DEF Program, Ends
<1>4. Program(Outside, Ends, b)
  BY EndPiece, PlainFacts DEF Outside, Ends
<1> HIDE DEF a, b
<1>. QED  BY <1>2, <1>3, <1>4, PrintPiece, ProgramConcat

(***************************************************************************)
(* All of them together.                                                   *)
(***************************************************************************)
ProgramOK(prog, c) ==
  IF prog = "p5" THEN Program(Plain, {Exit}, c) ELSE Program(Outside, Ends, c)

LEMMA CodeLemma == \A prog \in DOMAIN Code : ProgramOK(prog, Code[prog])
<1>1. DOMAIN Code = {"test", "p2", "p3", "p4", "p5", "p6", "p7", "p8root", "child1",
                     "child2", "p8leaf"}
  BY DEF Code
<1>2. /\ Code["test"] = test /\ Code["p2"] = p2 /\ Code["p3"] = p3 /\ Code["p4"] = p4
      /\ Code["p5"] = p5 /\ Code["p6"] = p6 /\ Code["p7"] = p7
      /\ Code["p8root"] = p8root /\ Code["child1"] = child1
      /\ Code["child2"] = child2 /\ Code["p8leaf"] = p8leaf
  BY DEF Code
<1>. QED  BY <1>1, <1>2, testProgram, p2Program, p3Program, p4Program, p5Program,
          p67Program, p8rootProgram, childProgram DEF ProgramOK

------------------------------------------------------------------------------
\* The steps of the nucleus, as the test sees them.

(***************************************************************************)
(* What the nucleus does to the semaphores of the test in a step that is   *)
(* not a P or a V on them: nobody wakes up, only terminated processes      *)
(* leave, and the value does not change sign.                              *)
(***************************************************************************)
Calm(s) ==
  /\ semVal'[s] = semVal[s] \/ (semVal[s] <= 0 /\ semVal'[s] <= 0)
  /\ ToSet(procQ[s]) \ pcbFree' \subseteq ToSet(procQ'[s])

(***************************************************************************)
(* No process is created, and no link between father and child appears.    *)
(***************************************************************************)
Grows ==
  /\ pcbFree \subseteq pcbFree' /\ p_supportStruct' = p_supportStruct
  /\ \A p \in Pcb : p_child[p] = <<>> => p_child'[p] = <<>>

Quiet == Grows /\ \A s \in UserSem : Calm(s)

(***************************************************************************)
(* A process without support structure in the middle of its own SYS2.      *)
(***************************************************************************)
Doomed(p) == p = currentProcess /\ cpu \in {"kill", "trap"} /\ ~p_supportStruct[p]

(***************************************************************************)
(* The semaphores of the test are not those of the devices.                *)
(***************************************************************************)
LEMMA UserSems ==
  /\ UserSem \subseteq Sem /\ DeviceSem \subseteq Sem /\ Clock \in DeviceSem
  /\ "terminal" \in DeviceSem
  /\ \A s \in UserSem : s \notin DeviceSem
  BY SemAssumption, TestAssumption DEF Sem, DeviceSem

(***************************************************************************)
(* A step that leaves the semaphores alone is calm.                        *)
(***************************************************************************)
LEMMA SemsUnchanged ==
  ASSUME \A s \in UserSem : semVal'[s] = semVal[s] /\ procQ'[s] = procQ[s]
  PROVE  \A s \in UserSem : Calm(s)
  BY DEF Calm

(***************************************************************************)
(* The steps of the nucleus that are quiet: a process is released by its   *)
(* own SYS2.                                                               *)
(***************************************************************************)
LEMMA ReleaseQuiet ==
  ASSUME IInv, currentProcess \in Pcb, ReleaseCurrent
  PROVE  Quiet /\ currentProcess \in pcbFree'
<1>1. /\ UNCHANGED <<semVal, procQ, p_supportStruct>>
      /\ pcbFree' = pcbFree \cup {currentProcess}
      /\ p_child' = [outChild(currentProcess) EXCEPT ![currentProcess] = <<>>]
  BY DEF ReleaseCurrent, outChildAndFree, semVars
<1>2. ASSUME NEW p \in Pcb, p_child[p] = <<>>  PROVE p_child'[p] = <<>>
  <2>1. Without(<<>>, currentProcess) = <<>>
    BY DEF Without, ToSet
  <2>2. p_child \in [Pcb -> Seq(Pcb)]
    BY DEF IInv, Types
  <2>3. outChild(currentProcess)[p] = <<>>
    BY <1>2, <2>1, <2>2 DEF outChild
  <2>4. DOMAIN outChild(currentProcess) = Pcb
    BY <2>2 DEF outChild
  <2>. QED  BY <1>1, <2>3, <2>4
<1>3. \A s \in UserSem : Calm(s)
  BY <1>1, SemsUnchanged
<1>. QED  BY <1>1, <1>2, <1>3 DEF Quiet, Grows

(***************************************************************************)
(* SYS2 releases a process without children, or starts to kill them.       *)
(***************************************************************************)
LEMMA TerminateQuiet ==
  ASSUME IInv, currentProcess \in Pcb, terminateProcess
  PROVE  /\ Quiet
         /\ \/ currentProcess \in pcbFree'
            \/ /\ p_child[currentProcess] # <<>>
               /\ currentProcess' = currentProcess /\ cpu' = "kill"
<1>1. CASE p_child[currentProcess] = <<>>
  BY <1>1, ReleaseQuiet DEF terminateProcess
<1>2. CASE p_child[currentProcess] # <<>>
  <2>1. /\ UNCHANGED <<semVal, procQ, p_supportStruct, pcbFree, p_child,
                      currentProcess>>
        /\ cpu' = "kill"
    BY <1>2 DEF terminateProcess, treeVars, pcbVars, semVars
  <2>. QED  BY <1>2, <2>1, SemsUnchanged DEF Quiet, Grows
<1>. QED  BY <1>1, <1>2

(***************************************************************************)
(* The removal of a terminated process from the semaphore it waits on does *)
(* not change the sign of the value of a semaphore of the test.            *)
(***************************************************************************)
LEMMA LeaveCalm ==
  ASSUME IInv, cpu = "kill", NEW s \in Sem, s = p_semAdd[head], LeaveSemaphore(s),
         NEW u \in UserSem
  PROVE  semVal'[u] = semVal[u] \/ (semVal[u] <= 0 /\ semVal'[u] <= 0)
<1>1. CASE s # u
  BY <1>1, UserSems DEF LeaveSemaphore, IInv, Types
<1>2. CASE s = u
  <2>1. s \notin DeviceSem /\ u \in Sem
    BY <1>2, UserSems
  <2>2. head \in ToSet(procQ[u])
    <3>1. head \in Live
      BY HeadFacts
    <3>2. \A p \in Live : p_semAdd[p] \in UserSem => p \in ToSet(procQ[p_semAdd[p]])
      BY DEF IInv, Places
    <3>. QED  BY <1>2, <3>1, <3>2
  <2>3. procQ[u] \in Seq(Pcb) /\ procQ[u] # <<>>
    BY <2>1, <2>2, SeqFacts DEF IInv, Types, ToSet
  <2>4. Len(procQ[u]) # 0
    BY <2>3
  <2>5. semVal[u] \in Int
    BY <2>1 DEF IInv, Types
  <2>6. semVal[u] < 0
    BY <2>4, <2>5 DEF IInv, SemaphoreCountsWaiters
  <2>7. semVal'[u] = semVal[u] + 1
    BY <1>2, <2>1 DEF LeaveSemaphore, IInv, Types
  <2>. QED  BY <2>5, <2>6, <2>7
<1>. QED  BY <1>1, <1>2

(***************************************************************************)
(* SYS2 while it kills the progeny. A process that terminates itself goes  *)
(* on with it or is gone.                                                  *)
(***************************************************************************)
LEMMA KillQuiet ==
  ASSUME IInv, Sys2Helper
  PROVE  Quiet /\ \A p \in Pcb : Doomed(p) => p \in pcbFree' \/ Doomed(p)'
<1>0. /\ cpu = "kill" /\ currentProcess \in Pcb /\ head \in Pcb
      /\ p_child \in [Pcb -> Seq(Pcb)]
  BY HeadFacts DEF Sys2Helper, KillChild, KillBlocked, KillStale, KillReady,
     KillCurrent, KillSelf, IInv, Types
<1>1. CASE KillChild
  <2>1. /\ p_child[head] # <<>>
        /\ p_child' = [p_child EXCEPT ![head] = Tail(@)]
        /\ UNCHANGED <<pcbFree, p_supportStruct, semVal, procQ, currentProcess, cpu>>
    BY <1>1 DEF KillChild, semVars
  <2>2. \A p \in Pcb : p_child[p] = <<>> => p_child'[p] = <<>>
    BY <1>0, <2>1
  <2>. QED  BY <2>1, <2>2, SemsUnchanged DEF Quiet, Grows, Doomed
<1>2. CASE KillBlocked
  <2>1. PICK s \in Sem : /\ s = p_semAdd[head]
                         /\ head \in ToSet(procQ[s])
                         /\ procQ' = [procQ EXCEPT ![s] = outProcQ(@, head)]
                         /\ LeaveSemaphore(s)
    BY <1>2 DEF KillBlocked
  <2>2. /\ pcbFree' = pcbFree \cup {head}
        /\ UNCHANGED <<p_child, p_supportStruct, currentProcess, cpu>>
    BY <1>2 DEF KillBlocked, FreeHead
  <2>3. ASSUME NEW u \in UserSem  PROVE Calm(u)
    <3>1. semVal'[u] = semVal[u] \/ (semVal[u] <= 0 /\ semVal'[u] <= 0)
      BY <1>0, <2>1, LeaveCalm
    <3>2. procQ \in [Sem -> Seq(Pcb)] /\ IsInjective(procQ[s]) /\ u \in Sem
      BY UserSems DEF IInv, Types, Places
    <3>3. ToSet(outProcQ(procQ[s], head)) = ToSet(procQ[s]) \ {head}
      BY <3>2, OutLemma
    <3>4. procQ'[u] = IF u = s THEN outProcQ(procQ[s], head) ELSE procQ[u]
      BY <2>1, <3>2
    <3>. QED  BY <2>2, <3>1, <3>3, <3>4 DEF Calm
  <2>. QED  BY <2>2, <2>3 DEF Quiet, Grows, Doomed
<1>3. CASE KillStale
  <2>1. PICK s \in Sem : s = p_semAdd[head] /\ LeaveSemaphore(s)
    BY <1>3 DEF KillStale
  <2>2. /\ UNCHANGED <<procQ, pcbFree, p_child, p_supportStruct, currentProcess>>
        /\ cpu' = "trap"
    BY <1>3 DEF KillStale, treeVars, pcbVars
  <2>3. ASSUME NEW u \in UserSem  PROVE Calm(u)
    BY <1>0, <2>1, <2>2, LeaveCalm DEF Calm
  <2>. QED  BY <2>2, <2>3 DEF Quiet, Grows, Doomed
<1>4. CASE KillReady
  <2>1. /\ pcbFree' = pcbFree \cup {head}
        /\ UNCHANGED <<p_child, p_supportStruct, currentProcess, cpu, semVal, procQ>>
    BY <1>4 DEF KillReady, FreeHead
  <2>. QED  BY <2>1, SemsUnchanged DEF Quiet, Grows, Doomed
<1>5. CASE KillCurrent
  BY <1>0, <1>5, ReleaseQuiet DEF KillCurrent, Doomed
<1>. QED  BY <1>1, <1>2, <1>3, <1>4, <1>5 DEF Sys2Helper

(***************************************************************************)
(* passupOrDie: the process is gone, dies in the next steps, or runs in    *)
(* its own handler, which only p5 has.                                     *)
(***************************************************************************)
LEMMA PassupQuiet ==
  ASSUME IInv, passupOrDie
  PROVE  /\ Quiet /\ currentProcess \in Pcb
         /\ \/ currentProcess \in pcbFree'
            \/ /\ ~p_supportStruct[currentProcess]
               /\ currentProcess' = currentProcess /\ cpu' = "kill"
            \/ /\ p_supportStruct[currentProcess]
               /\ currentProcess' = currentProcess /\ cpu' = "run"
<1>0. currentProcess \in Pcb
  BY DEF passupOrDie, IInv, Types, CpuOK
<1>1. CASE p_supportStruct[currentProcess]
  <2>1. /\ UNCHANGED <<semVal, procQ, p_supportStruct, pcbFree, p_child,
                      currentProcess>>
        /\ cpu' = "run"
    BY <1>1 DEF passupOrDie, treeVars, pcbVars, semVars
  <2>. QED  BY <1>0, <1>1, <2>1, SemsUnchanged DEF Quiet, Grows
<1>2. CASE ~p_supportStruct[currentProcess]
  BY <1>0, <1>2, TerminateQuiet DEF passupOrDie
<1>. QED  BY <1>1, <1>2

(***************************************************************************)
(* P on a semaphore of the devices and of the clock.                       *)
(***************************************************************************)
LEMMA WaitQuiet ==
  ASSUME IInv, NEW s \in DeviceSem, WaitFor(s)
  PROVE  Quiet
<1>1. /\ UNCHANGED <<pcbFree, p_child, p_supportStruct>>
      /\ semVal' = [semVal EXCEPT ![s] = @ - 1]
      /\ procQ' = procQ \/ procQ' = [procQ EXCEPT ![s] = insertProcQ(@, currentProcess)]
  BY DEF WaitFor, Block, treeVars, pcbVars
<1>2. \A u \in UserSem : semVal'[u] = semVal[u] /\ procQ'[u] = procQ[u]
  BY <1>1, UserSems DEF IInv, Types
<1>. QED  BY <1>1, <1>2, SemsUnchanged DEF Quiet, Grows

(***************************************************************************)
(* The interrupts.                                                         *)
(***************************************************************************)
LEMMA InterruptQuiet ==
  ASSUME IInv, TimeSlice \/ ClockTick \/ DeviceInterrupt("terminal")
  PROVE  Quiet /\ \A p \in Pcb : ~Doomed(p)
<1>1. cpu \in {"run", "wait"} /\ UNCHANGED <<pcbFree, p_child, p_supportStruct>>
  BY DEF TimeSlice, ClockTick, DeviceInterrupt, Enabled, treeVars, pcbVars
<1>2. \A u \in UserSem : semVal'[u] = semVal[u] /\ procQ'[u] = procQ[u]
  <2>1. CASE TimeSlice
    BY <2>1 DEF TimeSlice, semVars
  <2>2. CASE ClockTick
    BY <2>2, UserSems DEF ClockTick, IInv, Types
  <2>3. CASE DeviceInterrupt("terminal")
    <3>1. /\ semVal' = [semVal EXCEPT !["terminal"] = @ + 1]
          /\ procQ' = procQ \/ procQ' = [procQ EXCEPT !["terminal"] = removeProcQ(@)]
      BY <2>3 DEF DeviceInterrupt
    <3>. QED  BY <3>1, UserSems DEF IInv, Types
  <2>. QED  BY <2>1, <2>2, <2>3
<1>. QED  BY <1>1, <1>2, SemsUnchanged DEF Quiet, Grows, Doomed

------------------------------------------------------------------------------
\* The invariant of the test.

(***************************************************************************)
(* The process is past the last instruction of its program.                *)
(***************************************************************************)
AtEnd(p) == pc[p][2] = Len(Code[pc[p][1]]) + 1

(***************************************************************************)
(* A process is at an instruction of its program; past the last one it     *)
(* waits for a V(blkp8) that never comes, or is in the middle of its own   *)
(* SYS2. p5 alone has a support structure, and no children.                *)
(***************************************************************************)
Fits(p) ==
  /\ pc[p][2] \in 1 .. Len(Code[pc[p][1]]) + 1
  /\ AtEnd(p) => p \in ToSet(procQ["blkp8"]) \/ Doomed(p)
  /\ p_supportStruct[p] <=> pc[p][1] = "p5"
  /\ pc[p][1] = "p5" => p_child[p] = <<>>

(***************************************************************************)
(* term_mut is a binary semaphore, and a process is inside only while it   *)
(* is not free.                                                            *)
(***************************************************************************)
Alone ==
  /\ semVal["term_mut"] <= 1
  /\ semVal["term_mut"] = 1 => Printing = {}
  /\ \A p, q \in Printing : p = q

(***************************************************************************)
(* The invariant of the test.                                              *)
(***************************************************************************)
TestInv ==
  /\ pc \in [Pcb -> (DOMAIN Code) \X Nat]
  /\ \A p \in Live : Fits(p)
  /\ semVal["blkp8"] <= 0
  /\ Alone

(***************************************************************************)
(* The position x is inside a message.                                     *)
(***************************************************************************)
InsideAt(x) == x[2] > 0 /\ x[2] <= Len(Code[x[1]]) /\ Code[x[1]][x[2]] \in Inside

(***************************************************************************)
(* Printing, before and after a step, by the positions of the processes.   *)
(***************************************************************************)
LEMMA PrintingIs ==
  /\ \A p : p \in Printing <=>
       p \in Live /\ p \notin ToSet(procQ["term_mut"]) /\ InsideAt(pc[p])
  /\ \A p : p \in Printing' <=>
       p \in Live' /\ p \notin ToSet(procQ'["term_mut"]) /\ InsideAt(pc'[p])
<1>1. \A p : p \in Printing <=>
       p \in Live /\ p \notin ToSet(procQ["term_mut"]) /\ InsideAt(pc[p])
  BY DEF Printing, InsideAt, Instruction, Inside
<1>2. \A p : p \in Printing' <=>
       p \in Live' /\ p \notin ToSet(procQ'["term_mut"]) /\ InsideAt(pc'[p])
  BY DEF Printing, InsideAt, Instruction, Inside
<1>. QED  BY <1>1, <1>2

(***************************************************************************)
(* What the instruction at a position says of the one that follows.        *)
(***************************************************************************)
LEMMA SectionLemma ==
  ASSUME NEW prog \in DOMAIN Code, NEW i \in 1 .. Len(Code[prog])
  PROVE  /\ Len(Code[prog]) \in Nat \ {0}
         /\ Code[prog][i] \in Outside \cup Inside \cup {UntilHalf}
         /\ Code[prog][i] \in Inside => i > 1 /\ Code[prog][i-1] \in Enter
         /\ Code[prog][i] = UntilHalf => i > 1 /\ Code[prog][i-1] = Clockwait
         /\ i = Len(Code[prog]) => Code[prog][i] \in Ends
         /\ prog = "p5" => /\ Code[prog][i] \in Plain \cup Inside \cup {UntilHalf}
                           /\ i = Len(Code[prog]) => Code[prog][i] = Exit
<1> DEFINE c == Code[prog]
           I == IF prog = "p5" THEN Plain ELSE Outside
<1>1. ProgramOK(prog, c)
  BY CodeLemma
<1> HIDE DEF c
<1>2. Section(I, c) /\ Len(c) > 0
  BY <1>1 DEF ProgramOK, Program
<1>3. c[Len(c)] \in Ends /\ (prog = "p5" => c[Len(c)] = Exit)
  BY <1>1 DEF ProgramOK, Program, Ends
<1>4. c \in Seq(I \cup Inside \cup {UntilHalf}) /\ i \in 1 .. Len(c)
  BY <1>2 DEF Section, c
<1>5. c[i] \in I \cup Inside \cup {UntilHalf} /\ Len(c) \in Nat
  BY <1>4
<1>6. /\ c[i] \in Inside => i > 1 /\ c[i-1] \in Enter
      /\ c[i] = UntilHalf => i > 1 /\ c[i-1] = Clockwait
  BY <1>2, <1>4 DEF Section
<1>. QED  BY <1>2, <1>3, <1>5, <1>6 DEF c, Outside

(***************************************************************************)
(* A process that executes is at an instruction.                           *)
(***************************************************************************)
LEMMA Executing ==
  ASSUME IInv, TestInv, cpu = "run"
  PROVE  /\ currentProcess \in Live /\ currentProcess \in Pcb
         /\ \A s \in Sem : currentProcess \notin ToSet(procQ[s])
         /\ pc[currentProcess][1] \in DOMAIN Code
         /\ pc[currentProcess][2] \in 1 .. Len(Code[pc[currentProcess][1]])
<1>1. currentProcess \in Pcb /\ currentProcess \in Live
  BY DEF IInv, Types, CpuOK, Places, Live
<1>2. \A s \in Sem : currentProcess \notin ToSet(procQ[s])
  BY DEF IInv, Places
<1>3. ~Doomed(currentProcess)
  BY DEF Doomed
<1>4. "blkp8" \in Sem
  BY UserSems, TestAssumption
<1>5. ~AtEnd(currentProcess) /\ Fits(currentProcess)
  BY <1>1, <1>2, <1>3, <1>4 DEF TestInv, Fits
<1>6. pc[currentProcess] \in (DOMAIN Code) \X Nat
  BY <1>1 DEF TestInv
<1>7. pc[currentProcess][1] \in DOMAIN Code
  BY <1>6
<1>8. Len(Code[pc[currentProcess][1]]) \in Nat
  BY <1>7, CodeLemma DEF ProgramOK, Program, Section
<1>9. pc[currentProcess][2] \in 1 .. Len(Code[pc[currentProcess][1]])
  BY <1>5, <1>8 DEF Fits, AtEnd
<1>. QED  BY <1>1, <1>2, <1>7, <1>9

(***************************************************************************)
(* The position of the current process moves, the others stay.             *)
(***************************************************************************)
LEMMA JumpFacts ==
  ASSUME NEW n \in Int, pc \in [Pcb -> (DOMAIN Code) \X Nat],
         NEW c \in Pcb, c = currentProcess, pc[c][2] + n \in Nat
  PROVE  /\ Jump(n) \in [Pcb -> (DOMAIN Code) \X Nat]
         /\ \A p \in Pcb : p # c => Jump(n)[p] = pc[p]
         /\ Jump(n)[c] = <<pc[c][1], pc[c][2] + n>>
<1>1. pc[c] = <<pc[c][1], pc[c][2]>> /\ pc[c][1] \in DOMAIN Code
  OBVIOUS
<1>2. [pc[c] EXCEPT ![2] = @ + n] = <<pc[c][1], pc[c][2] + n>>
  BY <1>1
<1>3. Jump(n) = [pc EXCEPT ![c] = [pc[c] EXCEPT ![2] = @ + n]]
  BY DEF Jump
<1>. QED  BY <1>1, <1>2, <1>3

(***************************************************************************)
(* The same after the step, with the pcbs it frees taken out.              *)
(***************************************************************************)
LEMMA JumpLemma ==
  ASSUME NEW n \in Int, pc \in [Pcb -> (DOMAIN Code) \X Nat],
         NEW c \in Pcb, c = currentProcess, pc[c][2] + n \in Nat,
         pc' = Jump(n) \/ Counters(Jump(n))
  PROVE  /\ pc' \in [Pcb -> (DOMAIN Code) \X Nat]
         /\ \A p \in Live' : p # c => pc'[p] = pc[p]
         /\ c \in Live' => pc'[c][1] = pc[c][1] /\ pc'[c][2] = pc[c][2] + n
<1>1. /\ Jump(n) \in [Pcb -> (DOMAIN Code) \X Nat]
      /\ \A p \in Pcb : p # c => Jump(n)[p] = pc[p]
      /\ Jump(n)[c] = <<pc[c][1], pc[c][2] + n>>
  BY JumpFacts
<1>2. Nowhere \in (DOMAIN Code) \X Nat
  BY DEF Nowhere, Code
<1>3. \/ pc' = Jump(n)
      \/ pc' = [p \in Pcb |-> IF p \in pcbFree' THEN Nowhere ELSE Jump(n)[p]]
  BY DEF Counters
<1>4. pc' \in [Pcb -> (DOMAIN Code) \X Nat]
  BY <1>1, <1>2, <1>3
<1>5. \A p \in Live' : p \in Pcb /\ pc'[p] = Jump(n)[p]
  BY <1>3 DEF Live
<1>. QED  BY <1>1, <1>4, <1>5

(***************************************************************************)
(* Nothing the invariant is about changes.                                 *)
(***************************************************************************)
LEMMA TestStutter ==
  ASSUME TestInv, UNCHANGED <<vars, pc>>
  PROVE  TestInv'
<1>1. UNCHANGED <<pcbFree, p_child, p_supportStruct, semVal, procQ, cpu,
                  currentProcess, pc>>
  BY DEF vars
<1>. QED  BY <1>1 DEF TestInv, Fits, AtEnd, Doomed, Alone, Live, Printing, Instruction

(***************************************************************************)
(* A process that does not move still fits.                                *)
(***************************************************************************)
LEMMA FitsStays ==
  ASSUME TestInv, Grows, NEW p \in Live', pc'[p] = pc[p],
         ToSet(procQ["blkp8"]) \ pcbFree' \subseteq ToSet(procQ'["blkp8"]),
         Doomed(p) => Doomed(p)'
  PROVE  Fits(p)'
<1>1. p \in Live /\ p \in Pcb /\ p \notin pcbFree' /\ Fits(p)
  BY DEF TestInv, Grows, Live
<1>2. /\ p_supportStruct'[p] = p_supportStruct[p]
      /\ p_child[p] = <<>> => p_child'[p] = <<>>
  BY <1>1 DEF Grows
<1>. QED  BY <1>1, <1>2 DEF Fits, AtEnd

(***************************************************************************)
(* A process that moves fits if it moves within its program, and past its  *)
(* end only to wait or to die.                                             *)
(***************************************************************************)
LEMMA FitsMoves ==
  ASSUME TestInv, Grows, NEW p \in Live', pc'[p][1] = pc[p][1],
         pc'[p][2] \in 1 .. Len(Code[pc[p][1]]) + 1,
         AtEnd(p)' => p \in ToSet(procQ'["blkp8"]) \/ Doomed(p)'
  PROVE  Fits(p)'
<1>1. p \in Live /\ p \in Pcb /\ Fits(p)
  BY DEF TestInv, Grows, Live
<1>2. /\ p_supportStruct'[p] = p_supportStruct[p]
      /\ p_child[p] = <<>> => p_child'[p] = <<>>
  BY <1>1 DEF Grows
<1>. QED  BY <1>1, <1>2 DEF Fits

(***************************************************************************)
(* Nobody enters and the semaphore is calm: whoever is inside is alone.    *)
(***************************************************************************)
LEMMA AloneCalm ==
  ASSUME Alone, Calm("term_mut"), IInv, IInv',
         \A p \in Printing' : p \in Printing
  PROVE  Alone'
<1>1. semVal["term_mut"] \in Int /\ semVal'["term_mut"] \in Int
  BY UserSems, TestAssumption DEF IInv, Types
<1>2. semVal'["term_mut"] <= 1 /\ (semVal'["term_mut"] = 1 => semVal["term_mut"] = 1)
  BY <1>1 DEF Alone, Calm
<1>3. semVal'["term_mut"] = 1 => Printing' = {}
  BY <1>2 DEF Alone
<1>4. \A p, q \in Printing' : p = q
  BY DEF Alone
<1>. QED  BY <1>2, <1>3, <1>4 DEF Alone

------------------------------------------------------------------------------
\* The steps of a process of the test.

(***************************************************************************)
(* Whoever waits on blkp8 keeps waiting unless it is terminated.           *)
(***************************************************************************)
Queued == ToSet(procQ["blkp8"]) \ pcbFree' \subseteq ToSet(procQ'["blkp8"])

AtLast ==
  /\ Instruction(currentProcess) \in Ends
  /\ pc[currentProcess][1] = "p5" => Instruction(currentProcess) = Exit

(***************************************************************************)
(* Past the end of its program the current process waits or dies.          *)
(***************************************************************************)
Finishes ==
  \A p \in Live' : p = currentProcess /\ AtLast
                     => p \in ToSet(procQ'["blkp8"]) \/ Doomed(p)'

(***************************************************************************)
(* The quiet steps of the nucleus in which no process of the test moves.   *)
(***************************************************************************)
LEMMA KernelKeeps ==
  ASSUME IInv, IInv', TestInv, Quiet, Counters(pc),
         \A p \in Pcb : Doomed(p) => p \in pcbFree' \/ Doomed(p)'
  PROVE  TestInv'
<1>0. "blkp8" \in UserSem /\ "term_mut" \in UserSem
  BY TestAssumption
<1>1. pc' = [p \in Pcb |-> IF p \in pcbFree' THEN Nowhere ELSE pc[p]]
  BY DEF Counters
<1>2. pc \in [Pcb -> (DOMAIN Code) \X Nat] /\ Nowhere \in (DOMAIN Code) \X Nat
  BY DEF TestInv, Nowhere, Code
<1>3. pc' \in [Pcb -> (DOMAIN Code) \X Nat]
  BY <1>1, <1>2
<1>4. \A p \in Live' : p \in Pcb /\ p \notin pcbFree' /\ p \in Live /\ pc'[p] = pc[p]
  BY <1>1 DEF Live, Quiet, Grows
<1>5. Queued /\ semVal'["blkp8"] <= 0
  BY <1>0 DEF Quiet, Calm, TestInv, Queued
<1>6. \A p \in Live' : Fits(p)'
  BY <1>4, <1>5, FitsStays DEF Quiet, Queued
<1>7. ASSUME NEW p \in Printing'  PROVE p \in Printing
  <2>1. p \in Live' /\ p \notin ToSet(procQ'["term_mut"]) /\ InsideAt(pc'[p])
    BY <1>7, PrintingIs
  <2>2. p \notin ToSet(procQ["term_mut"])
    BY <1>0, <1>4, <2>1 DEF Quiet, Calm
  <2>. QED  BY <1>4, <2>1, <2>2, PrintingIs
<1>8. Alone'
  BY <1>0, <1>7, AloneCalm DEF TestInv, Quiet
<1>. QED  BY <1>3, <1>5, <1>6, <1>8 DEF TestInv

LEMMA MoveFits ==
  ASSUME IInv, TestInv, cpu = "run", Grows, Queued,
         pc' = Jump(1) \/ Counters(Jump(1)),
         Finishes
  PROVE  /\ pc' \in [Pcb -> (DOMAIN Code) \X Nat]
         /\ \A p \in Live' : Fits(p)'
         /\ \A p \in Live' : InsideAt(pc'[p]) =>
              IF p = currentProcess THEN Instruction(currentProcess) \in Enter
                                    ELSE InsideAt(pc[p])
<1>c. PICK c \in Pcb : c = currentProcess
  BY Executing
<1> DEFINE prog == pc[c][1]
           i == pc[c][2]
<1>1. c \in Pcb /\ prog \in DOMAIN Code /\ i \in 1 .. Len(Code[prog])
  BY <1>c, Executing
<1>2. Instruction(currentProcess) = Code[prog][i]
  BY <1>c DEF Instruction
<1>3. Len(Code[prog]) \in Nat
  BY <1>1, SectionLemma
<1>4. i + 1 \in Nat /\ i + 1 \in 1 .. Len(Code[prog]) + 1 /\ (i + 1) - 1 = i
  BY <1>1, <1>3
<1>5. /\ pc' \in [Pcb -> (DOMAIN Code) \X Nat]
      /\ \A p \in Live' : p # c => pc'[p] = pc[p]
      /\ c \in Live' => pc'[c][1] = prog /\ pc'[c][2] = i + 1
  BY <1>c, <1>1, <1>4, JumpLemma DEF TestInv
<1>6. ASSUME NEW p \in Live', p # c  PROVE Fits(p)'
  <2>1. ~Doomed(p)
    BY <1>c, <1>6 DEF Doomed
  <2>. QED  BY <1>5, <1>6, <2>1, FitsStays DEF Queued
<1>7. ASSUME c \in Live'  PROVE Fits(c)'
  <2>1. ASSUME AtEnd(c)'  PROVE c \in ToSet(procQ'["blkp8"]) \/ Doomed(c)'
    <3>1. i = Len(Code[prog])
      BY <1>3, <1>4, <1>5, <1>7, <2>1 DEF AtEnd
    <3>2. AtLast
      BY <1>c, <1>1, <1>2, <3>1, SectionLemma DEF AtLast
    <3>. QED  BY <1>c, <1>7, <3>2 DEF Finishes
  <2>. QED  BY <1>4, <1>5, <1>7, <2>1, FitsMoves
<1>8. ASSUME c \in Live', InsideAt(pc'[c])  PROVE Instruction(currentProcess) \in Enter
  <2>1. i + 1 \in 1 .. Len(Code[prog]) /\ Code[prog][i+1] \in Inside
    BY <1>3, <1>4, <1>5, <1>8 DEF InsideAt
  <2>. QED  BY <1>1, <1>2, <1>4, <2>1, SectionLemma
<1>. QED  BY <1>c, <1>5, <1>6, <1>7, <1>8

(***************************************************************************)
(* It does so without a P(term_mut).                                       *)
(***************************************************************************)
LEMMA MoveKeeps ==
  ASSUME IInv, IInv', TestInv, cpu = "run", Grows, Queued, semVal'["blkp8"] <= 0,
         Calm("term_mut"), Instruction(currentProcess) # P("term_mut"),
         pc' = Jump(1) \/ Counters(Jump(1)),
         Finishes
  PROVE  TestInv'
<1>1. /\ pc' \in [Pcb -> (DOMAIN Code) \X Nat]
      /\ \A p \in Live' : Fits(p)'
      /\ \A p \in Live' : InsideAt(pc'[p]) =>
           IF p = currentProcess THEN Instruction(currentProcess) \in Enter
                                 ELSE InsideAt(pc[p])
  BY MoveFits
<1>2. ASSUME NEW p \in Printing'  PROVE p \in Printing
  <2>1. p \in Live' /\ p \notin ToSet(procQ'["term_mut"]) /\ InsideAt(pc'[p])
    BY <1>2, PrintingIs
  <2>2. p \in Live /\ p \notin ToSet(procQ["term_mut"])
    BY <2>1 DEF Calm, Live, Grows
  <2>3. InsideAt(pc[p])
    <3>1. CASE p # currentProcess
      BY <1>1, <2>1, <3>1
    <3>2. CASE p = currentProcess
      <4>1. Instruction(currentProcess) \in Inside
        BY <1>1, <2>1, <3>2 DEF Enter, Inside
      <4>2. /\ pc[currentProcess][1] \in DOMAIN Code
            /\ pc[currentProcess][2] \in 1 .. Len(Code[pc[currentProcess][1]])
        BY Executing
      <4>. QED  BY <3>2, <4>1, <4>2 DEF InsideAt, Instruction
    <3>. QED  BY <3>1, <3>2
  <2>. QED  BY <2>2, <2>3, PrintingIs
<1>3. Alone'
  BY <1>2, AloneCalm DEF TestInv
<1>. QED  BY <1>1, <1>3 DEF TestInv

LEMMA QuietKeeps ==
  ASSUME IInv, IInv', TestInv, cpu = "run", Quiet,
         Instruction(currentProcess) # P("term_mut"),
         pc' = Jump(1) \/ Counters(Jump(1)),
         Finishes
  PROVE  TestInv'
<1>1. Calm("term_mut") /\ Calm("blkp8")
  BY TestAssumption DEF Quiet
<1>2. Queued /\ semVal'["blkp8"] <= 0
  BY <1>1 DEF Calm, TestInv, Queued
<1>. QED  BY <1>1, <1>2, MoveKeeps DEF Quiet

(***************************************************************************)
(* P on a semaphore of the test: the process goes on or waits.             *)
(***************************************************************************)
LEMMA PasserenEffect ==
  ASSUME IInv, NEW s \in UserSem, Passeren(s)
  PROVE  /\ Grows
         /\ semVal'[s] = semVal[s] - 1
         /\ ToSet(procQ[s]) \subseteq ToSet(procQ'[s])
         /\ semVal[s] <= 0 => currentProcess \in ToSet(procQ'[s])
         /\ \A u \in UserSem : u # s => Calm(u)
<1>0. /\ cpu = "run" /\ UNCHANGED <<pcbFree, p_child, p_supportStruct>>
      /\ semVal' = [semVal EXCEPT ![s] = @ - 1]
  BY DEF Passeren, treeVars, pcbVars
<1>1. /\ semVal \in [Sem -> Int] /\ procQ \in [Sem -> Seq(Pcb)]
      /\ currentProcess \in Pcb /\ s \in Sem
  BY <1>0, UserSems DEF IInv, Types, CpuOK
<1>2. ~NoDescriptor(s)
  BY <1>0, <1>1, DescriptorLemma DEF IInv, DescriptorAvailable
<1>3. /\ semVal[s] - 1 < 0 =>
           procQ' = [procQ EXCEPT ![s] = insertProcQ(@, currentProcess)]
      /\ ~(semVal[s] - 1 < 0) => procQ' = procQ
  BY <1>2 DEF Passeren, Block
<1>4. /\ ToSet(insertProcQ(procQ[s], currentProcess))
           = ToSet(procQ[s]) \cup {currentProcess}
  BY <1>1, InsertLemma
<1>5. ToSet(procQ[s]) \subseteq ToSet(procQ'[s])
  BY <1>1, <1>3, <1>4
<1>6. semVal[s] <= 0 => currentProcess \in ToSet(procQ'[s])
  <2> HAVE semVal[s] <= 0
  <2>1. semVal[s] - 1 < 0
    BY <1>1
  <2>. QED  BY <1>1, <1>3, <1>4, <2>1
<1>7. \A u \in UserSem : u # s => semVal'[u] = semVal[u] /\ procQ'[u] = procQ[u]
  BY <1>0, <1>1, <1>3, UserSems
<1>. QED  BY <1>0, <1>1, <1>5, <1>6, <1>7 DEF Calm, Grows

(***************************************************************************)
(* V on a semaphore of the test wakes up at most one process.              *)
(***************************************************************************)
LEMMA VerhogenEffect ==
  ASSUME IInv, NEW s \in UserSem, Verhogen(s)
  PROVE  /\ Grows
         /\ semVal'[s] = semVal[s] + 1
         /\ semVal[s] >= 0 => procQ'[s] = procQ[s]
         /\ \E w \in Pcb : ToSet(procQ[s]) \ {w} \subseteq ToSet(procQ'[s])
         /\ \A u \in UserSem : u # s => Calm(u)
<1>0. /\ cpu = "run" /\ UNCHANGED <<pcbFree, p_child, p_supportStruct>>
      /\ semVal' = [semVal EXCEPT ![s] = @ + 1]
      /\ IF semVal[s] + 1 <= 0 /\ ~emptyProcQ(procQ[s])
           THEN procQ' = [procQ EXCEPT ![s] = removeProcQ(@)]
           ELSE procQ' = procQ
  BY DEF Verhogen, treeVars, pcbVars
<1>1. /\ semVal \in [Sem -> Int] /\ procQ \in [Sem -> Seq(Pcb)]
      /\ currentProcess \in Pcb /\ s \in Sem /\ IsInjective(procQ[s])
  BY <1>0, UserSems DEF IInv, Types, CpuOK, Places
<1>2. semVal[s] >= 0 => procQ'[s] = procQ[s]
  <2> HAVE semVal[s] >= 0
  <2>1. ~(semVal[s] + 1 <= 0)
    BY <1>1
  <2>. QED  BY <1>0, <2>1
<1>3. \E w \in Pcb : ToSet(procQ[s]) \ {w} \subseteq ToSet(procQ'[s])
  <2>1. CASE procQ' = procQ
    BY <1>1, <2>1
  <2>2. CASE ~emptyProcQ(procQ[s]) /\ procQ' = [procQ EXCEPT ![s] = removeProcQ(@)]
    <3>1. /\ headProcQ(procQ[s]) \in Pcb
          /\ ToSet(removeProcQ(procQ[s])) = ToSet(procQ[s]) \ {headProcQ(procQ[s])}
      <4>1. procQ[s] \in Seq(Pcb) /\ ~emptyProcQ(procQ[s]) /\ IsInjective(procQ[s])
        BY <1>1, <2>2
      <4>. QED  BY <4>1, RemoveLemma
    <3>. QED  BY <1>1, <2>2, <3>1
  <2>. QED  BY <1>0, <2>1, <2>2
<1>4. \A u \in UserSem : u # s => semVal'[u] = semVal[u] /\ procQ'[u] = procQ[u]
  BY <1>0, <1>1, UserSems
<1>. QED  BY <1>0, <1>1, <1>2, <1>3, <1>4 DEF Calm, Grows

(***************************************************************************)
(* Which instructions can be a program's last, and which enter a message.  *)
(***************************************************************************)
LEMMA Kinds ==
  /\ {Char, Wait, Clockwait, UntilHalf, Store} \cap Ends = {}
  /\ P("term_mut") \notin {Char, Wait, Clockwait, UntilHalf, Store, Exit, Trap}
  /\ \A s : V(s) \notin Ends /\ V(s) # P("term_mut") /\ V(s) \notin Enter
  /\ \A s : P(s) \in Ends => s = "blkp8"
  /\ \A s : P(s) = P("term_mut") => s = "term_mut"
  /\ Exit # Trap /\ Exit # P("blkp8")
  /\ V("blkp8") \notin Outside \cup Inside \cup {UntilHalf}
  /\ V("term_mut") \in Inside
<1>1. /\ {Char, Wait, Clockwait, UntilHalf, Store} \cap Ends = {}
      /\ P("term_mut") \notin {Char, Wait, Clockwait, UntilHalf, Store, Exit, Trap}
      /\ Exit # Trap /\ Exit # P("blkp8")
  BY DEF Ends, Char, Wait, Clockwait, UntilHalf, Store, Exit, Trap, P
<1>2. \A s : V(s) \notin Ends /\ V(s) # P("term_mut") /\ V(s) \notin Enter
  BY DEF Ends, Enter, Exit, Trap, P, V, Char, Wait
<1>3. /\ \A s : P(s) \in Ends => s = "blkp8"
      /\ \A s : P(s) = P("term_mut") => s = "term_mut"
  BY DEF Ends, Exit, Trap, P
<1>4. V("blkp8") \notin Inside \cup {UntilHalf} /\ V("term_mut") \in Inside
  BY DEF Inside, UntilHalf, V, Char, Wait
<1>5. V("blkp8") \notin Plain
  BY DEF Plain, P, V, Clockwait, Exit, Trap, Store
<1>6. V("blkp8") \notin Creates
  <2>1. \A prog, sup : V("blkp8") # Create(prog, sup)
    BY DEF V, Create
  <2>. QED  BY <2>1 DEF Creates
<1>. QED  BY <1>1, <1>2, <1>3, <1>4, <1>5, <1>6 DEF Outside

LEMMA EnterKeeps ==
  ASSUME IInv, IInv', TestInv, Passeren("term_mut"),
         Instruction(currentProcess) = P("term_mut"), Counters(Jump(1))
  PROVE  TestInv'
<1>0. /\ "term_mut" \in UserSem /\ "blkp8" \in UserSem
      /\ semVal["term_mut"] \in Int /\ semVal'["term_mut"] \in Int
      /\ cpu = "run" /\ currentProcess \in Pcb
  BY UserSems, TestAssumption DEF IInv, Types, CpuOK, Passeren
<1>1. /\ Grows /\ semVal'["term_mut"] = semVal["term_mut"] - 1
      /\ ToSet(procQ["term_mut"]) \subseteq ToSet(procQ'["term_mut"])
      /\ semVal["term_mut"] <= 0 => currentProcess \in ToSet(procQ'["term_mut"])
      /\ Calm("blkp8")
  BY <1>0, PasserenEffect
<1>2. Queued /\ semVal'["blkp8"] <= 0
  BY <1>1 DEF Calm, TestInv, Queued
<1>3. Finishes
  BY Kinds DEF Finishes, AtLast
<1>4. /\ pc' \in [Pcb -> (DOMAIN Code) \X Nat]
      /\ \A p \in Live' : Fits(p)'
      /\ \A p \in Live' : InsideAt(pc'[p]) =>
           IF p = currentProcess THEN Instruction(currentProcess) \in Enter
                                 ELSE InsideAt(pc[p])
  BY <1>0, <1>1, <1>2, <1>3, MoveFits
<1>5. ASSUME NEW p \in Printing', p # currentProcess  PROVE p \in Printing
  <2>1. p \in Live' /\ p \notin ToSet(procQ'["term_mut"]) /\ InsideAt(pc'[p])
    BY <1>5, PrintingIs
  <2>2. p \in Live
    BY <1>1, <2>1 DEF Live, Grows
  <2>. QED  BY <1>1, <1>4, <1>5, <2>1, <2>2, PrintingIs
<1>6. currentProcess \in Printing' => ~(semVal["term_mut"] <= 0)
  BY <1>1, PrintingIs
<1>7. semVal["term_mut"] <= 1 /\ semVal'["term_mut"] <= 0
  BY <1>0, <1>1 DEF TestInv, Alone
<1>8. \A p, q \in Printing' : p = q
  <2>1. CASE semVal["term_mut"] = 1
    BY <1>5, <2>1 DEF TestInv, Alone
  <2>2. CASE semVal["term_mut"] # 1
    <3>1. semVal["term_mut"] <= 0
      BY <1>0, <1>7, <2>2
    <3>. QED  BY <1>5, <1>6, <3>1 DEF TestInv, Alone
  <2>. QED  BY <2>1, <2>2
<1>9. Alone'
  <2>1. semVal'["term_mut"] <= 1 /\ semVal'["term_mut"] # 1
    BY <1>0, <1>7
  <2>. QED  BY <1>8, <2>1 DEF Alone
<1>. QED  BY <1>2, <1>4, <1>9 DEF TestInv

LEMMA LeaveKeeps ==
  ASSUME IInv, IInv', TestInv, Verhogen("term_mut"),
         Instruction(currentProcess) = V("term_mut"), Counters(Jump(1))
  PROVE  TestInv'
<1>0. /\ "term_mut" \in UserSem /\ "blkp8" \in UserSem /\ "term_mut" \in Sem
      /\ semVal["term_mut"] \in Int /\ semVal'["term_mut"] \in Int
      /\ cpu = "run"
  BY UserSems, TestAssumption DEF IInv, Types, Verhogen
<1>1. /\ Grows /\ semVal'["term_mut"] = semVal["term_mut"] + 1
      /\ semVal["term_mut"] >= 0 => procQ'["term_mut"] = procQ["term_mut"]
      /\ \E w \in Pcb : ToSet(procQ["term_mut"]) \ {w} \subseteq ToSet(procQ'["term_mut"])
      /\ Calm("blkp8")
  BY <1>0, VerhogenEffect
<1>2. Queued /\ semVal'["blkp8"] <= 0
  BY <1>1 DEF Calm, TestInv, Queued
<1>3. Finishes
  BY Kinds DEF Finishes, AtLast
<1>4. /\ pc' \in [Pcb -> (DOMAIN Code) \X Nat]
      /\ \A p \in Live' : Fits(p)'
      /\ \A p \in Live' : InsideAt(pc'[p]) =>
           IF p = currentProcess THEN Instruction(currentProcess) \in Enter
                                 ELSE InsideAt(pc[p])
  BY <1>0, <1>1, <1>2, <1>3, MoveFits
<1>5. currentProcess \in Printing
  <2>1. InsideAt(pc[currentProcess])
    BY <1>0, Executing, Kinds DEF InsideAt, Instruction
  <2>. QED  BY <1>0, <2>1, Executing, PrintingIs
<1>6. semVal["term_mut"] <= 0 /\ \A p \in Printing : p = currentProcess
  BY <1>0, <1>5 DEF TestInv, Alone
<1>7. ASSUME NEW p \in Printing'
      PROVE  p \in ToSet(procQ["term_mut"]) /\ p \notin ToSet(procQ'["term_mut"])
  <2>1. p \in Live' /\ p \notin ToSet(procQ'["term_mut"]) /\ InsideAt(pc'[p])
    BY <1>7, PrintingIs
  <2>2. p \in Live
    BY <1>1, <2>1 DEF Live, Grows
  <2>3. p # currentProcess
    BY <1>4, <2>1, Kinds
  <2>4. p \notin Printing
    BY <1>6, <2>3
  <2>. QED  BY <1>4, <2>1, <2>2, <2>3, <2>4, PrintingIs
<1>8. \A p, q \in Printing' : p = q
  BY <1>1, <1>7
<1>9. semVal'["term_mut"] <= 1 /\ (semVal'["term_mut"] = 1 => semVal["term_mut"] >= 0)
  BY <1>0, <1>1, <1>6
<1>10. semVal'["term_mut"] = 1 => Printing' = {}
  BY <1>1, <1>7, <1>9
<1>11. Alone'
  BY <1>8, <1>9, <1>10 DEF Alone
<1>. QED  BY <1>2, <1>4, <1>11 DEF TestInv

LEMMA SemaphoreKeeps ==
  ASSUME IInv, IInv', TestInv, cpu = "run", NEW s \in UserSem, s # "term_mut",
         \/ Passeren(s) /\ Instruction(currentProcess) = P(s)
         \/ Verhogen(s) /\ Instruction(currentProcess) = V(s) /\ s # "blkp8",
         Counters(Jump(1))
  PROVE  TestInv'
<1>0. "term_mut" \in UserSem /\ "blkp8" \in UserSem /\ semVal["blkp8"] \in Int
  BY UserSems, TestAssumption DEF IInv, Types
<1>1. CASE s = "blkp8"
  <2>1. /\ Grows /\ semVal'["blkp8"] = semVal["blkp8"] - 1
        /\ ToSet(procQ["blkp8"]) \subseteq ToSet(procQ'["blkp8"])
        /\ semVal["blkp8"] <= 0 => currentProcess \in ToSet(procQ'["blkp8"])
        /\ Calm("term_mut")
    BY <1>0, <1>1, PasserenEffect
  <2>2. semVal'["blkp8"] <= 0 /\ currentProcess \in ToSet(procQ'["blkp8"])
    BY <1>0, <2>1 DEF TestInv
  <2>3. Instruction(currentProcess) # P("term_mut")
    BY <1>1, Kinds
  <2>. QED  BY <2>1, <2>2, <2>3, MoveKeeps DEF Queued, Finishes
<1>2. CASE s # "blkp8"
  <2>1. Grows /\ Calm("blkp8") /\ Calm("term_mut")
    BY <1>0, <1>2, PasserenEffect, VerhogenEffect
  <2>2. Queued /\ semVal'["blkp8"] <= 0
    BY <2>1 DEF Calm, TestInv, Queued
  <2>3. Instruction(currentProcess) # P("term_mut") /\ Finishes
    BY <1>2, Kinds DEF Finishes, AtLast
  <2>. QED  BY <2>1, <2>2, <2>3, MoveKeeps
<1>. QED  BY <1>1, <1>2

LEMMA InnerKeeps ==
  ASSUME IInv, IInv', TestInv, cpu = "run", Quiet,
         Instruction(currentProcess) \in {Char, Wait, Clockwait, UntilHalf, Store},
         pc' = Jump(1) \/ Counters(Jump(1))
  PROVE  TestInv'
<1>1. Instruction(currentProcess) # P("term_mut")
  BY Kinds
<1>2. Finishes
  BY Kinds DEF Finishes, AtLast
<1>. QED  BY <1>1, <1>2, QuietKeeps

(***************************************************************************)
(* SYS2: the process is terminated or in the middle of it.                 *)
(***************************************************************************)
LEMMA ExitKeeps ==
  ASSUME IInv, IInv', TestInv, TerminateProcess,
         Instruction(currentProcess) = Exit, Counters(Jump(1))
  PROVE  TestInv'
<1>0. cpu = "run" /\ currentProcess \in Pcb /\ currentProcess \in Live
      /\ terminateProcess /\ Fits(currentProcess)
  BY Executing DEF TerminateProcess, TestInv
<1>1. /\ Quiet
      /\ \/ currentProcess \in pcbFree'
         \/ /\ p_child[currentProcess] # <<>>
            /\ currentProcess' = currentProcess /\ cpu' = "kill"
  BY <1>0, TerminateQuiet
<1>2. Finishes
  <2> SUFFICES ASSUME NEW p \in Live', p = currentProcess
               PROVE  Doomed(p)'
    BY DEF Finishes
  <2>1. p_child[p] # <<>> /\ currentProcess' = p /\ cpu' = "kill"
    BY <1>1 DEF Live
  <2>2. ~p_supportStruct[p]
    BY <1>0, <2>1 DEF Fits
  <2>. QED  BY <1>1, <2>1, <2>2 DEF Doomed, Quiet, Grows
<1>3. Instruction(currentProcess) # P("term_mut")
  BY Kinds
<1>. QED  BY <1>0, <1>1, <1>2, <1>3, QuietKeeps

(***************************************************************************)
(* The trap: the process dies, or goes on in its handler.                  *)
(***************************************************************************)
LEMMA TrapKeeps ==
  ASSUME IInv, IInv', TestInv, cpu = "run", passupOrDie,
         Instruction(currentProcess) = Trap, Counters(Jump(1))
  PROVE  TestInv'
<1>0. currentProcess \in Live /\ Fits(currentProcess)
  BY Executing DEF TestInv
<1>1. /\ Quiet
      /\ \/ currentProcess \in pcbFree'
         \/ /\ ~p_supportStruct[currentProcess]
            /\ currentProcess' = currentProcess /\ cpu' = "kill"
         \/ p_supportStruct[currentProcess]
  BY PassupQuiet
<1>2. Finishes
  <2> SUFFICES ASSUME NEW p \in Live', p = currentProcess, AtLast
               PROVE  Doomed(p)'
    BY DEF Finishes
  <2>1. ~p_supportStruct[p]
    BY <1>0, Kinds DEF AtLast, Fits
  <2>2. currentProcess' = p /\ cpu' = "kill"
    BY <1>1, <2>1 DEF Live
  <2>. QED  BY <1>1, <2>1, <2>2 DEF Doomed, Quiet, Grows
<1>3. Instruction(currentProcess) # P("term_mut")
  BY Kinds
<1>. QED  BY <1>1, <1>2, <1>3, QuietKeeps

(***************************************************************************)
(* A command to the terminal does not touch the semaphores.                *)
(***************************************************************************)
LEMMA CommandQuiet ==
  ASSUME Command("terminal")
  PROVE  Quiet
<1>1. UNCHANGED <<semVal, procQ, p_supportStruct, pcbFree, p_child>>
  BY DEF Command, treeVars, pcbVars, semVars
<1>. QED  BY <1>1, SemsUnchanged DEF Quiet, Grows

(***************************************************************************)
(* Every instruction that only makes one call.                             *)
(***************************************************************************)
LEMMA SimpleKeeps ==
  ASSUME IInv, IInv', TestInv, cpu = "run", Simple(Instruction(currentProcess)),
         Counters(Jump(1))
  PROVE  TestInv'
<1> DEFINE x == Instruction(currentProcess)
<1>1. CASE x = Exit /\ TerminateProcess
  BY <1>1, ExitKeeps
<1>2. CASE x = Trap /\ passupOrDie
  BY <1>2, TrapKeeps
<1>3. CASE x = Store /\ InvalidEntry
  BY <1>3, PassupQuiet, InnerKeeps DEF InvalidEntry
<1>4. CASE x = Char /\ Command("terminal")
  BY <1>4, CommandQuiet, InnerKeeps
<1>5. CASE x = Wait /\ WaitForIO("terminal")
  BY <1>5, UserSems, WaitQuiet, InnerKeeps DEF WaitForIO
<1>6. ASSUME NEW s \in UserSem, x = P(s) /\ Passeren(s)  PROVE TestInv'
  BY <1>6, EnterKeeps, SemaphoreKeeps
<1>7. ASSUME NEW s \in UserSem, x = V(s) /\ Verhogen(s)  PROVE TestInv'
  <2>1. x \in Outside \cup Inside \cup {UntilHalf}
    BY Executing, SectionLemma DEF Instruction
  <2>2. s # "blkp8"
    BY <1>7, <2>1, Kinds
  <2>. QED  BY <1>7, <2>2, LeaveKeeps, SemaphoreKeeps
<1>. QED  BY <1>1, <1>2, <1>3, <1>4, <1>5, <1>6, <1>7 DEF Simple

LEMMA BackKeeps ==
  ASSUME IInv, IInv', TestInv, HalfNotPassed
  PROVE  TestInv'
<1>c. PICK c \in Pcb : c = currentProcess /\ c \in Live
  BY Executing DEF HalfNotPassed
<1> DEFINE prog == pc[c][1]
           i == pc[c][2]
<1>0. /\ cpu = "run" /\ UNCHANGED vars /\ pc' = Jump(-1)
      /\ prog \in DOMAIN Code /\ i \in 1 .. Len(Code[prog])
      /\ Code[prog][i] = UntilHalf
  BY <1>c, Executing DEF HalfNotPassed, Instruction
<1>1. i > 1 /\ Code[prog][i-1] = Clockwait /\ Len(Code[prog]) \in Nat
  BY <1>0, SectionLemma
<1>2. /\ i + (-1) \in Nat /\ i + (-1) = i - 1
      /\ i - 1 \in 1 .. Len(Code[prog]) + 1 /\ i - 1 # Len(Code[prog]) + 1
  <2>1. \A n \in Nat : \A j \in 1 .. n : j > 1 =>
          /\ j + (-1) \in Nat /\ j + (-1) = j - 1
          /\ j - 1 \in 1 .. n + 1 /\ j - 1 # n + 1
    OBVIOUS
  <2> HIDE DEF prog, i
  <2>. QED  BY <1>0, <1>1, <2>1
<1>3. /\ pc' \in [Pcb -> (DOMAIN Code) \X Nat]
      /\ \A p \in Live' : p # c => pc'[p] = pc[p]
      /\ c \in Live' => pc'[c][1] = prog /\ pc'[c][2] = i - 1
  <2>1. -1 \in Int
    OBVIOUS
  <2>. QED  BY <1>c, <1>0, <1>2, <2>1, JumpLemma DEF TestInv
<1>4. UNCHANGED <<pcbFree, p_child, p_supportStruct, semVal, procQ, cpu, currentProcess>>
  BY <1>0 DEF vars
<1>5. Quiet
  BY <1>4, SemsUnchanged DEF Quiet, Grows
<1>6. Queued /\ semVal'["blkp8"] <= 0
  BY <1>4 DEF TestInv, Queued
<1>7. ASSUME NEW p \in Live'  PROVE Fits(p)'
  <2>1. CASE p # c
    BY <1>3, <1>4, <1>5, <1>6, <2>1, FitsStays DEF Quiet, Queued, Doomed
  <2>2. CASE p = c
    <3>1. ~AtEnd(p)'
      BY <1>2, <1>3, <2>2 DEF AtEnd
    <3>. QED  BY <1>2, <1>3, <1>5, <2>2, <3>1, FitsMoves DEF Quiet
  <2>. QED  BY <2>1, <2>2
<1>8. ASSUME NEW p \in Printing'  PROVE p \in Printing
  <2>1. p \in Live' /\ p \notin ToSet(procQ'["term_mut"]) /\ InsideAt(pc'[p])
    BY <1>8, PrintingIs
  <2>2. Clockwait \notin Inside
    BY Distinct, PlainFacts
  <2>3. p # c
    BY <1>1, <1>3, <2>1, <2>2 DEF InsideAt
  <2>. QED  BY <1>3, <1>4, <2>1, <2>3, PrintingIs DEF Live
<1>9. Alone'
  BY <1>5, <1>8, AloneCalm, TestAssumption DEF TestInv, Quiet
<1>. QED  BY <1>3, <1>6, <1>7, <1>9 DEF TestInv

(***************************************************************************)
(* SYS1 is not an instruction of a message nor the end of a program; in    *)
(* the programs of the test it gives a support structure to p5 alone.      *)
(***************************************************************************)
LEMMA CreateKind ==
  ASSUME NEW prog, NEW sup \in BOOLEAN
  PROVE  /\ Create(prog, sup) \notin Plain \cup Inside \cup {UntilHalf}
         /\ Create(prog, sup) \notin Ends \cup Enter
         /\ Create(prog, sup) \in Outside =>
              prog \in DOMAIN Code /\ (sup <=> prog = "p5")
<1>1. Create(prog, sup) \notin Inside \cup {UntilHalf} \cup Ends \cup Enter
  <2>1. Create(prog, sup)[1] = "create"
    BY DEF Create
  <2>2. \A x \in Inside \cup {UntilHalf} \cup Ends \cup Enter : x[1] # "create"
    BY DEF Inside, UntilHalf, Ends, Enter, Char, Wait, V, P, Exit, Trap
  <2>. QED  BY <2>1, <2>2
<1>2. Create(prog, sup) \notin Plain
  <2>1. Create(prog, sup)[1] = "create"
    BY DEF Create
  <2>2. \A x \in Plain : x[1] # "create"
    BY DEF Plain, P, V, Clockwait, Exit, Trap, Store
  <2>. QED  BY <2>1, <2>2
<1>3. Create(prog, sup) \in Creates => prog \in DOMAIN Code /\ (sup <=> prog = "p5")
  <2>1. /\ Create(prog, sup)[2] = prog /\ Create(prog, sup)[3] = sup
        /\ \A r : Create(r, FALSE)[2] = r /\ Create(r, FALSE)[3] = FALSE
        /\ Create("p5", TRUE)[2] = "p5" /\ Create("p5", TRUE)[3] = TRUE
    BY DEF Create
  <2>2. "p5" \in DOMAIN Code
    BY DEF Code
  <2>3. ASSUME NEW r \in DOMAIN Code \ {"p5"}, Create(prog, sup) = Create(r, FALSE)
        PROVE  prog \in DOMAIN Code /\ (sup <=> prog = "p5")
    <3>1. prog = r /\ sup = FALSE
      BY <2>1, <2>3, Zenon
    <3>. QED  BY <2>3, <3>1, Zenon
  <2>4. ASSUME Create(prog, sup) = Create("p5", TRUE)
        PROVE  prog \in DOMAIN Code /\ (sup <=> prog = "p5")
    <3>1. prog = "p5" /\ sup = TRUE
      BY <2>1, <2>4, Zenon
    <3>. QED  BY <2>2, <3>1, Zenon
  <2>. QED  BY <2>3, <2>4, Zenon DEF Creates
<1>. QED  BY <1>1, <1>2, <1>3 DEF Outside

(***************************************************************************)
(* SYS1: the child starts at its first instruction, without children,      *)
(* outside a message; the father goes on, with a pcb or without.           *)
(***************************************************************************)
LEMMA CreateKeeps ==
  ASSUME IInv, IInv', TestInv, cpu = "run",
         NEW prog \in DOMAIN Code, NEW sup \in BOOLEAN,
         Instruction(currentProcess) = Create(prog, sup), RunCreate(prog, sup)
  PROVE  TestInv'
<1>c. PICK c \in Pcb : c = currentProcess /\ c \in Live
  BY Executing
<1> DEFINE new == pcbFree \ pcbFree'
           mine == pc[c][1]
           i == pc[c][2]
           at == [p \in Pcb |-> IF p \in new THEN Start(prog) ELSE Jump(1)[p]]
<1>0. /\ mine \in DOMAIN Code /\ i \in 1 .. Len(Code[mine])
      /\ Code[mine][i] = Create(prog, sup)
      /\ CreateProcess(sup)
      /\ pc' = [p \in Pcb |-> IF p \in pcbFree' THEN Nowhere ELSE at[p]]
  BY <1>c, Executing DEF RunCreate, Instruction, Counters
<1>1. /\ sup <=> prog = "p5"
      /\ mine # "p5" /\ i # Len(Code[mine])
      /\ Len(Code[mine]) \in Nat
      /\ Create(prog, sup) \notin Ends \cup Enter
  BY <1>0, SectionLemma, CreateKind
<1>2. CASE pcbFree = {}
  <2>1. UNCHANGED <<pcbFree, p_child, p_supportStruct, semVal, procQ>>
    BY <1>0, <1>2 DEF CreateProcess, treeVars, pcbVars, semVars
  <2>2. Quiet
    BY <2>1, SemsUnchanged DEF Quiet, Grows
  <2>3. Counters(Jump(1))
    BY <1>0, <1>2 DEF Counters
  <2>4. Finishes /\ Instruction(currentProcess) # P("term_mut")
    BY <1>1, <1>0, <1>c DEF Finishes, AtLast, Enter, Instruction
  <2>. QED  BY <2>2, <2>3, <2>4, QuietKeeps
<1>3. ASSUME NEW son \in pcbFree,
             /\ pcbFree' = pcbFree \ {son}
             /\ p_supportStruct' = [p_supportStruct EXCEPT ![son] = sup]
             /\ p_child' = [p_child EXCEPT ![currentProcess] = Append(@, son)]
             /\ UNCHANGED <<semVal, procQ, currentProcess, cpu>>
      PROVE  TestInv'
  <2>0. /\ p_supportStruct \in [Pcb -> BOOLEAN] /\ p_child \in [Pcb -> Seq(Pcb)]
        /\ son \in Pcb /\ son # c /\ p_child[son] = <<>>
    BY <1>c, <1>3 DEF IInv, Types, Tree, Live
  <2>1. new = {son} /\ \A p \in Live' : p \in Pcb /\ (p \in Live \/ p = son)
    BY <1>3, <2>0 DEF Live
  <2>2. /\ Jump(1) \in [Pcb -> (DOMAIN Code) \X Nat]
        /\ \A p \in Pcb : p # c => Jump(1)[p] = pc[p]
        /\ Jump(1)[c] = <<mine, i + 1>>
    <3>1. 1 \in Int /\ i + 1 \in Nat
      BY <1>0
    <3>2. pc \in [Pcb -> (DOMAIN Code) \X Nat]
      BY DEF TestInv
    <3>. QED  BY <1>c, <3>1, <3>2, JumpFacts
  <2>3. Nowhere \in (DOMAIN Code) \X Nat /\ Start(prog) \in (DOMAIN Code) \X Nat
    BY DEF Nowhere, Start, Code
  <2>4. pc' \in [Pcb -> (DOMAIN Code) \X Nat]
    BY <1>0, <2>2, <2>3
  <2>5. /\ pc'[son] = <<prog, 1>>
        /\ pc'[c] = <<mine, i + 1>>
        /\ \A p \in Live' : p # c /\ p # son => pc'[p] = pc[p]
    BY <1>0, <1>c, <1>3, <2>0, <2>1, <2>2 DEF Live, Start
  <2>6. /\ 1 \in 1 .. Len(Code[prog]) /\ 1 # Len(Code[prog]) + 1
        /\ 1 \in 1 .. Len(Code[prog]) + 1 /\ Code[prog][1] \notin Inside
    <3>1. Len(Code[prog]) \in Nat \ {0}
      BY CodeLemma DEF ProgramOK, Program, Section
    <3>2. 1 \in 1 .. Len(Code[prog])
      BY <3>1
    <3>. QED  BY <3>1, <3>2, SectionLemma
  <2>7. Fits(son)'
    <3>1. p_supportStruct'[son] = sup /\ p_child'[son] = <<>>
      BY <1>c, <1>3, <2>0
    <3>2. pc'[son][1] = prog /\ pc'[son][2] = 1
      BY <2>5
    <3>. QED  BY <1>1, <2>6, <3>1, <3>2 DEF Fits, AtEnd
  <2>8. Fits(c)'
    <3>1. p_supportStruct'[c] = p_supportStruct[c] /\ Fits(c)
      BY <1>c, <1>3, <2>0 DEF TestInv
    <3>2. pc'[c][1] = mine /\ pc'[c][2] = i + 1
      BY <2>5
    <3>3. i + 1 \in 1 .. Len(Code[mine]) + 1 /\ i + 1 # Len(Code[mine]) + 1
      BY <1>0, <1>1
    <3>. QED  BY <1>1, <3>1, <3>2, <3>3 DEF Fits, AtEnd
  <2>9. ASSUME NEW p \in Live', p # c, p # son  PROVE Fits(p)'
    <3>1. p \in Live /\ p \in Pcb /\ Fits(p) /\ pc'[p] = pc[p]
      BY <2>1, <2>5, <2>9 DEF TestInv
    <3>2. p_supportStruct'[p] = p_supportStruct[p] /\ p_child'[p] = p_child[p]
      BY <1>c, <1>3, <2>0, <2>9, <3>1
    <3>3. ~Doomed(p)
      BY <1>c, <2>9 DEF Doomed
    <3>. QED  BY <1>3, <3>1, <3>2, <3>3 DEF Fits, AtEnd
  <2>10. ASSUME NEW p \in Printing'  PROVE p \in Printing
    <3>1. p \in Live' /\ p \notin ToSet(procQ'["term_mut"]) /\ InsideAt(pc'[p])
      BY <2>10, PrintingIs
    <3>2. p # son
      BY <2>5, <2>6, <3>1 DEF InsideAt
    <3>3. p # c
      <4>1. i + 1 \in Nat /\ (i + 1) - 1 = i
        BY <1>0
      <4>2. ASSUME p = c  PROVE FALSE
        <5>1. i + 1 <= Len(Code[mine]) /\ Code[mine][i+1] \in Inside
          BY <2>5, <3>1, <4>2 DEF InsideAt
        <5>2. i + 1 \in 1 .. Len(Code[mine])
          BY <1>0, <1>1, <5>1
        <5>3. Code[mine][i] \in Enter
          BY <1>0, <4>1, <5>1, <5>2, SectionLemma
        <5>. QED  BY <1>0, <1>1, <5>3
      <4>. QED  BY <4>2
    <3>. QED  BY <1>3, <2>1, <2>5, <3>1, <3>2, <3>3, PrintingIs
  <2>11. Alone'
    <3>1. Calm("term_mut")
      BY <1>3 DEF Calm
    <3>. QED  BY <2>10, <3>1, AloneCalm DEF TestInv
  <2>. QED  BY <1>3, <2>1, <2>4, <2>7, <2>8, <2>9, <2>11 DEF TestInv
<1>4. \/ pcbFree = {}
      \/ \E son \in pcbFree :
             /\ pcbFree' = pcbFree \ {son}
             /\ p_supportStruct' = [p_supportStruct EXCEPT ![son] = sup]
             /\ p_child' = [p_child EXCEPT ![currentProcess] = Append(@, son)]
             /\ UNCHANGED <<semVal, procQ, currentProcess, cpu>>
  BY <1>0, Zenon DEF CreateProcess
<1>. QED  BY <1>2, <1>3, <1>4

(***************************************************************************)
(* Every instruction keeps the invariant.                                  *)
(***************************************************************************)
LEMMA ExecuteKeeps ==
  ASSUME IInv, IInv', TestInv, Execute
  PROVE  TestInv'
<1>0. cpu = "run"
  BY DEF Execute
<1>1. CASE RunSimple
  BY <1>0, <1>1, SimpleKeeps DEF RunSimple
<1>2. CASE RunClockwait
  BY <1>0, <1>2, WaitQuiet, UserSems, InnerKeeps DEF RunClockwait, WaitForClock
<1>3. CASE HalfPassed
  <2>1. UNCHANGED <<pcbFree, p_child, p_supportStruct, semVal, procQ>>
    BY <1>3 DEF HalfPassed, vars
  <2>2. Quiet
    BY <2>1, SemsUnchanged DEF Quiet, Grows
  <2>. QED  BY <1>0, <1>3, <2>2, InnerKeeps DEF HalfPassed
<1>4. CASE HalfNotPassed
  BY <1>4, BackKeeps
<1>5. CASE RefillAgain
  BY <1>5, TestStutter DEF RefillAgain
<1>6. ASSUME NEW prog \in DOMAIN Code, NEW sup \in BOOLEAN,
             Instruction(currentProcess) = Create(prog, sup), RunCreate(prog, sup)
      PROVE  TestInv'
  BY <1>0, <1>6, CreateKeeps
<1>. QED  BY <1>1, <1>2, <1>3, <1>4, <1>5, <1>6 DEF Execute

(***************************************************************************)
(* Every step of the test keeps the invariant.                             *)
(***************************************************************************)
LEMMA TestNextKeeps ==
  ASSUME IInv, IInv', TestInv, [TestNext]_allVars
  PROVE  TestInv'
<1>1. CASE Execute
  BY <1>1, ExecuteKeeps
<1>2. CASE Terminating
  BY <1>2, KillQuiet, KernelKeeps DEF Terminating, Kernel
<1>3. CASE BusError
  <2>1. cpu = "trap" /\ passupOrDie /\ Counters(pc)
    BY <1>3 DEF BusError, Kernel
  <2>2. \A p \in Pcb : Doomed(p) => p \in pcbFree' \/ Doomed(p)'
    BY <2>1, PassupQuiet DEF Doomed, Quiet, Grows
  <2>. QED  BY <2>1, <2>2, PassupQuiet, KernelKeeps
<1>4. CASE Tick \/ Sent \/ Preempt
  BY <1>4, InterruptQuiet, KernelKeeps DEF Tick, Sent, Preempt, Kernel
<1>5. CASE Halted \/ UNCHANGED allVars
  BY <1>5, TestStutter DEF Halted, Stopped, allVars
<1>. QED  BY <1>1, <1>2, <1>3, <1>4, <1>5 DEF TestNext

(***************************************************************************)
(* The test starts with one process, outside a message, and with term_mut  *)
(* at 1.                                                                   *)
(***************************************************************************)
LEMMA TestInitially ==
  ASSUME TestInit
  PROVE  TestInv
<1>c. PICK c \in Pcb : c = currentProcess /\ pcbFree = Pcb \ {c}
  BY DEF TestInit, Init
<1>1. /\ pc = [p \in Pcb |-> IF p = c THEN Start("test") ELSE Nowhere]
      /\ semVal = [s \in Sem |-> IF s \in {"term_mut", "blkp4"} THEN 1 ELSE 0]
      /\ p_supportStruct[c] = FALSE
  BY <1>c DEF TestInit, Init
<1>2. "term_mut" \in Sem /\ "blkp8" \in Sem /\ "test" \in DOMAIN Code
  BY UserSems, TestAssumption DEF Code
<1>3. semVal["term_mut"] = 1 /\ semVal["blkp8"] = 0
  BY <1>1, <1>2
<1>4. /\ 1 \in 1 .. Len(Code["test"]) /\ 1 # Len(Code["test"]) + 1
      /\ 1 \in 1 .. Len(Code["test"]) + 1 /\ Code["test"][1] \notin Inside
  <2>1. Len(Code["test"]) \in Nat \ {0}
    BY <1>2, CodeLemma DEF ProgramOK, Program, Section
  <2>2. 1 \in 1 .. Len(Code["test"])
    BY <2>1
  <2>. QED  BY <1>2, <2>1, <2>2, SectionLemma
<1>5. pc \in [Pcb -> (DOMAIN Code) \X Nat]
  BY <1>1, <1>2 DEF Start, Nowhere
<1>6. Live = {c} /\ pc[c] = <<"test", 1>>
  BY <1>c, <1>1 DEF Live, Start
<1>7. Fits(c)
  <2>1. pc[c][1] = "test" /\ pc[c][2] = 1
    BY <1>6
  <2>. QED  BY <1>1, <1>4, <2>1 DEF Fits, AtEnd
<1>8. Printing = {}
  <2>1. ~InsideAt(pc[c])
    BY <1>4, <1>6 DEF InsideAt
  <2>. QED  BY <1>6, <2>1, PrintingIs
<1>. QED  BY <1>3, <1>5, <1>6, <1>7, <1>8 DEF TestInv, Alone

(***************************************************************************)
(* The invariant of the nucleus holds while the test runs.                 *)
(***************************************************************************)
LEMMA TestOnNucleus ==
  /\ TestInit => IInv
  /\ IInv /\ [TestNext]_allVars => IInv'
<1>1. TestInit => IInv
  BY InitLemma DEF TestInit
<1>2. ASSUME IInv, [TestNext]_allVars  PROVE IInv'
  <2>1. [Next]_vars
    BY <1>2, TestStep
  <2>. QED  BY <1>2, <2>1, NextLemma
<1>. QED  BY <1>1, <1>2

(***************************************************************************)
(* The nucleus' invariant and the test's are inductive: whatever the       *)
(* programs do, the interrupts, the orphans and the terminations in        *)
(* between, each process is where its program says, no one gets past its   *)
(* program's end alive and unblocked, and term_mut is a binary semaphore   *)
(* with at most one holder.                                                *)
(***************************************************************************)
THEOREM TestInvariance == TestSpec => [](IInv /\ TestInv)
<1>1. TestInit => IInv /\ TestInv
  BY TestInitially, TestOnNucleus
<1>2. IInv /\ TestInv /\ [TestNext]_allVars => (IInv /\ TestInv)'
  BY TestNextKeeps, TestOnNucleus
<1>. QED  BY <1>1, <1>2, PTL DEF TestSpec

(***************************************************************************)
(* p2test.c's print is a critical section: between its SYS3 and its SYS4   *)
(* on term_mut a process is alone, for messages of any length, for any     *)
(* number of pcbs and whatever is terminated or preempted meanwhile.       *)
(***************************************************************************)
THEOREM MessagesDoNotMix == TestSpec => []PrintExclusive
<1>1. ASSUME TestInv  PROVE PrintExclusive
  <2>1. \A p, q \in Printing : p = q
    BY <1>1 DEF TestInv, Alone
  <2>2. CASE Printing = {}
    BY <2>2, FS_EmptySet DEF PrintExclusive
  <2>3. CASE Printing # {}
    <3>1. PICK p \in Printing : TRUE
      BY <2>3
    <3>2. Printing = {p}
      BY <2>1, <3>1
    <3>3. Cardinality({p}) = 1
      BY FS_Singleton
    <3>. QED  BY <3>2, <3>3 DEF PrintExclusive
  <2>. QED  BY <2>2, <2>3
<1>. QED  BY <1>1, TestInvariance, PTL

------------------------------------------------------------------------------
\* How p1, p4 and p5 meet: their instructions.

(***************************************************************************)
(* The instructions by which p1, p4 and p5 settle when p5 frees blkp4:     *)
(* those on the semaphores between them and their creation.                *)
(***************************************************************************)
Marked ==
  {P("blkp4"), V("blkp4"), P("endp4"), V("endp4"), P("endp5"), V("endp5")}
    \cup {Create(prog, sup) : prog \in {"test", "p4", "p5"}, sup \in BOOLEAN}

Neutral == (Outside \cup Inside) \ Marked

(***************************************************************************)
(* The instructions that do not terminate their process.                   *)
(***************************************************************************)
Harmless == Neutral \ {Exit, Trap, Store}

(***************************************************************************)
(* What p1 does until it waits for p3.                                     *)
(***************************************************************************)
testHead ==
  <<V("testsem")>> \o print \o <<Create("p2", FALSE)>> \o print
    \o <<V("startp2"), P("endp2"), Create("p3", FALSE)>> \o print

(***************************************************************************)
(* Where the programs do it: P(blkp4) and V(endp4) of p4, P(endp4) of p5,  *)
(* which is followed by the wait for half a clock interval and V(blkp4),   *)
(* and the creation of p4 by p1, which is followed by that of p5, p6 and   *)
(* p7 and by P(endp5).                                                     *)
(***************************************************************************)
blkp4At  == Len(print) + 2
endp4At  == 2 * Len(print) + 6
meetAt   == Len(p5) - 5
createAt == Len(testHead) + 2

(***************************************************************************)
(* The semaphores and programs that the marked instructions name.          *)
(***************************************************************************)
LEMMA MarkedFacts ==
  /\ \A s : P(s) \in Marked => s \in {"blkp4", "endp4", "endp5"}
  /\ \A s : V(s) \in Marked => s \in {"blkp4", "endp4", "endp5"}
  /\ \A prog, sup : Create(prog, sup) \in Marked => prog \in {"test", "p4", "p5"}
  /\ {Char, Wait, Clockwait, UntilHalf, Exit, Trap, Store} \cap Marked = {}
<1>1. \A prog, sup : Create(prog, sup) = <<"create", prog, sup>>
  BY DEF Create
<1>2. \A x \in Marked : \/ x \in {P("blkp4"), V("blkp4"), P("endp4"), V("endp4"),
                                   P("endp5"), V("endp5")}
                        \/ \E prog \in {"test", "p4", "p5"}, sup \in BOOLEAN :
                             x = <<"create", prog, sup>>
  BY <1>1 DEF Marked
<1>3. \A s : P(s) \in Marked => s \in {"blkp4", "endp4", "endp5"}
  BY <1>2 DEF P, V
<1>4. \A s : V(s) \in Marked => s \in {"blkp4", "endp4", "endp5"}
  BY <1>2 DEF P, V
<1>5. ASSUME NEW prog, NEW sup, Create(prog, sup) \in Marked
      PROVE  prog \in {"test", "p4", "p5"}
  <2>1. Create(prog, sup) = <<"create", prog, sup>>
    BY <1>1
  <2>2. Create(prog, sup)[1] = "create" /\ Create(prog, sup)[2] = prog
    BY <2>1
  <2>3. Create(prog, sup) \notin {P("blkp4"), V("blkp4"), P("endp4"), V("endp4"),
                                   P("endp5"), V("endp5")}
    BY <2>2 DEF P, V
  <2>4. PICK r \in {"test", "p4", "p5"}, b \in BOOLEAN :
          Create(prog, sup) = <<"create", r, b>>
    BY <1>2, <1>5, <2>3
  <2>. QED  BY <2>2, <2>4
<1>6. {Char, Wait, Clockwait, UntilHalf, Exit, Trap, Store} \cap Marked = {}
  BY <1>2 DEF P, V, Char, Wait, Clockwait, UntilHalf, Exit, Trap, Store
<1>. QED  BY <1>3, <1>4, <1>5, <1>6

(***************************************************************************)
(* Which instructions are neutral: characters, waits, the semaphores and   *)
(* the children of the other processes. Only the three that end a process  *)
(* are neutral and not harmless.                                           *)
(***************************************************************************)
LEMMA NeutralFacts ==
  /\ {Char, Wait, Clockwait} \subseteq Harmless
  /\ \A s \in UserSem \ {"blkp4", "endp4", "endp5"} : P(s) \in Harmless
  /\ \A s \in UserSem \ {"blkp4", "endp4", "endp5", "blkp8"} : V(s) \in Harmless
  /\ \A prog \in (DOMAIN Code) \ {"test", "p4", "p5"} : Create(prog, FALSE) \in Harmless
  /\ Harmless \subseteq Neutral
  /\ {Exit, Trap, Store} \subseteq Neutral
<1>1. {Char, Wait, Clockwait} \subseteq Harmless
  <2>1. {Char, Wait, Clockwait} \subseteq Outside \cup Inside
    BY PlainFacts DEF Outside, Inside
  <2>2. {Char, Wait, Clockwait} \cap {Exit, Trap, Store} = {}
    BY DEF Char, Wait, Clockwait, Exit, Trap, Store
  <2>. QED  BY <2>1, <2>2, MarkedFacts DEF Harmless, Neutral
<1>2. ASSUME NEW s \in UserSem \ {"blkp4", "endp4", "endp5"}  PROVE P(s) \in Harmless
  <2>1. P(s) \in Outside
    BY DEF Outside, Plain
  <2>2. P(s) \notin {Exit, Trap, Store}
    BY DEF P, Exit, Trap, Store
  <2>. QED  BY <2>1, <2>2, MarkedFacts DEF Harmless, Neutral
<1>3. ASSUME NEW s \in UserSem \ {"blkp4", "endp4", "endp5", "blkp8"}
      PROVE  V(s) \in Harmless
  <2>1. V(s) \in Outside \cup Inside
    BY DEF Outside, Plain, Inside
  <2>2. V(s) \notin {Exit, Trap, Store}
    BY DEF V, Exit, Trap, Store
  <2>. QED  BY <2>1, <2>2, MarkedFacts DEF Harmless, Neutral
<1>4. ASSUME NEW prog \in (DOMAIN Code) \ {"test", "p4", "p5"}
      PROVE  Create(prog, FALSE) \in Harmless
  <2>1. Create(prog, FALSE) \in Outside
    BY DEF Outside, Creates
  <2>2. Create(prog, FALSE)[1] = "create"
    BY DEF Create
  <2>3. Create(prog, FALSE) \notin {Exit, Trap, Store}
    <3>1. \A x \in {Exit, Trap, Store} : x[1] # "create"
      BY DEF Exit, Trap, Store
    <3>. QED  BY <2>2, <3>1
  <2>. QED  BY <2>1, <2>3, MarkedFacts, Zenon DEF Harmless, Neutral
<1>5. Harmless \subseteq Neutral
  BY DEF Harmless
<1>6. {Exit, Trap, Store} \subseteq Neutral
  <2>1. {Exit, Trap, Store} \subseteq Outside
    BY PlainFacts DEF Outside
  <2>. QED  BY <2>1, MarkedFacts DEF Neutral
<1>. QED  BY <1>1, <1>2, <1>3, <1>4, <1>5, <1>6

(***************************************************************************)
(* Code in which p1, p4 and p5 do nothing to each other: print, and what   *)
(* is made of it.                                                          *)
(***************************************************************************)
LEMMA SeqConcat ==
  ASSUME NEW S, NEW c \in Seq(S), NEW d \in Seq(S)
  PROVE  c \o d \in Seq(S)
  OBVIOUS

(***************************************************************************)
(* A piece of code repeated stays in the sequences over S.                 *)
(***************************************************************************)
LEMMA RepeatIn ==
  ASSUME NEW S, NEW body \in Seq(S), NEW n \in Nat
  PROVE  Repeat(n, body) \in Seq(S)
<1>1. <<>> \in Seq(S) /\ \A c, d \in Seq(S) : c \o d \in Seq(S)
  OBVIOUS
<1>. QED  BY <1>1, RepeatLemma

(***************************************************************************)
(* print touches only term_mut and the terminal.                           *)
(***************************************************************************)
LEMMA printIn == print \in Seq(Harmless)
<1> DEFINE loop == Repeat(MsgLen, <<Char, Wait>>)
<1>1. P("term_mut") \in Harmless /\ V("term_mut") \in Harmless
  BY NeutralFacts, TestAssumption
<1>2. <<P("term_mut")>> \in Seq(Harmless) /\ <<V("term_mut")>> \in Seq(Harmless)
  BY <1>1
<1>3. <<Char, Wait>> \in Seq(Harmless)
  BY NeutralFacts
<1>4. loop \in Seq(Harmless)
  BY <1>3, RepeatIn, TestAssumption
<1> HIDE DEF loop
<1>. QED  BY <1>2, <1>4, SeqConcat DEF print, loop

(***************************************************************************)
(* A sequence over a set is one over a larger set.                         *)
(***************************************************************************)
LEMMA SeqWiden ==
  ASSUME NEW S, NEW T, S \subseteq T, NEW c \in Seq(S)
  PROVE  c \in Seq(T)
  OBVIOUS

(***************************************************************************)
(* p1 does nothing to p4 and p5 before it waits for p3.                    *)
(***************************************************************************)
LEMMA testHeadIn == testHead \in Seq(Harmless)
<1> DEFINE m2 == Create("p2", FALSE)
           m3 == Create("p3", FALSE)
           a == <<V("testsem")>>
           b == <<m2>>
           d == <<V("startp2"), P("endp2"), m3>>
<1>1. /\ V("testsem") \in Harmless /\ V("startp2") \in Harmless
      /\ P("endp2") \in Harmless
  BY NeutralFacts, TestAssumption
<1>2. m2 \in Harmless /\ m3 \in Harmless
  <2>1. {"p2", "p3"} \subseteq (DOMAIN Code) \ {"test", "p4", "p5"}
    BY DEF Code
  <2>. QED  BY <2>1, NeutralFacts, Zenon
<1>3. testHead = a \o print \o b \o print \o d \o print
  BY Zenon DEF testHead
<1> HIDE DEF m2, m3
<1>4. a \in Seq(Harmless) /\ b \in Seq(Harmless) /\ d \in Seq(Harmless)
  BY <1>1, <1>2
<1> HIDE DEF a, b, d
<1>. QED  BY <1>3, <1>4, printIn, SeqConcat

(***************************************************************************)
(* The instructions of two pieces of code one after the other.             *)
(***************************************************************************)
LEMMA ConcatAt ==
  ASSUME NEW S, NEW c \in Seq(S), NEW d \in Seq(S)
  PROVE  /\ c \o d \in Seq(S) /\ Len(c \o d) = Len(c) + Len(d)
         /\ Len(c) \in Nat /\ Len(d) \in Nat
         /\ \A i \in 1 .. Len(c) : (c \o d)[i] = c[i]
         /\ \A i \in 1 .. Len(d) : (c \o d)[Len(c) + i] = d[i]
  OBVIOUS

(***************************************************************************)
(* From its n-th instruction on, code c has instructions of I only; adding *)
(* such instructions changes nothing.                                      *)
(***************************************************************************)
From(I, n, c) == \A i \in 1 .. Len(c) : i > n => c[i] \in I

(***************************************************************************)
(* The positions of the second of two pieces of code, counted from its     *)
(* start.                                                                  *)
(***************************************************************************)
LEMMA FromLemma ==
  ASSUME NEW S, NEW I \in SUBSET S, NEW c \in Seq(S), NEW d \in Seq(I),
         NEW n \in 0 .. Len(c), From(I, n, c)
  PROVE  /\ c \o d \in Seq(S) /\ n \in 0 .. Len(c \o d) /\ From(I, n, c \o d)
         /\ \A i \in 1 .. n : (c \o d)[i] = c[i]
<1> DEFINE e == c \o d
<1>1. d \in Seq(S)
  BY SeqWiden
<1>2. /\ e \in Seq(S) /\ Len(e) = Len(c) + Len(d)
      /\ Len(c) \in Nat /\ Len(d) \in Nat
      /\ \A i \in 1 .. Len(c) : e[i] = c[i]
      /\ \A i \in 1 .. Len(d) : e[Len(c) + i] = d[i]
  BY <1>1, ConcatAt
<1>3. \A i \in 1 .. Len(d) : d[i] \in I
  OBVIOUS
<1> HIDE DEF e
<1>4. ASSUME NEW i \in 1 .. Len(e), i > n  PROVE e[i] \in I
  <2>1. CASE i <= Len(c)
    <3>1. i \in 1 .. Len(c)
      BY <1>2, <2>1
    <3>. QED  BY <1>2, <1>4, <3>1 DEF From
  <2>2. CASE i > Len(c)
    <3>1. i - Len(c) \in 1 .. Len(d) /\ i = Len(c) + (i - Len(c))
      BY <1>2, <2>2
    <3>. QED  BY <1>2, <1>3, <3>1
  <2>. QED  BY <1>2, <2>1, <2>2
<1>5. n \in 0 .. Len(e) /\ \A i \in 1 .. n : i \in 1 .. Len(c)
  BY <1>2
<1>. QED  BY <1>2, <1>4, <1>5 DEF From, e

(***************************************************************************)
(* p4, p5 and p1, instruction by instruction.                              *)
(***************************************************************************)
LEMMA p4Code ==
  /\ blkp4At \in Nat /\ endp4At \in Nat /\ 1 <= blkp4At /\ blkp4At < endp4At
  /\ \A i \in 1 .. Len(p4) :
       /\ i < blkp4At => p4[i] \in Harmless
       /\ i = blkp4At => p4[i] = P("blkp4")
       /\ blkp4At < i /\ i < endp4At => p4[i] \in Harmless \cup {Create("p4", FALSE)}
       /\ i = endp4At => p4[i] = V("endp4")
       /\ i > endp4At => p4[i] = Exit
<1> DEFINE m4 == Create("p4", FALSE)
           w == <<V("synp4"), P("blkp4"), P("synp4"), m4, P("synp4")>>
           e == <<V("endp4"), Exit>>
           S == Harmless \cup {m4, P("blkp4"), V("endp4"), Exit}
           one == print \o w
           two == one \o print
           all == two \o e
           n == Len(print)
<1>1. p4 = all
  BY Zenon DEF p4
<1>2. V("synp4") \in Harmless /\ P("synp4") \in Harmless
  BY NeutralFacts, TestAssumption
<1> HIDE DEF m4
<1>3. print \in Seq(S)
  BY printIn, SeqWiden
<1>4. w \in Seq(S) /\ Len(w) = 5 /\ w[1] \in Harmless /\ w[2] = P("blkp4")
      /\ w[3] \in Harmless /\ w[4] = m4 /\ w[5] \in Harmless
  BY <1>2
<1>5. e \in Seq(S) /\ Len(e) = 2 /\ e[1] = V("endp4") /\ e[2] = Exit
  OBVIOUS
<1>6. \A i \in 1 .. n : print[i] \in Harmless
  BY printIn
<1>7. w \in Seq(S) /\ e \in Seq(S)
  BY <1>4, <1>5
<1> HIDE DEF w, e, S
<1>8. /\ one \in Seq(S) /\ Len(one) = n + Len(w) /\ n \in Nat
      /\ \A i \in 1 .. n : one[i] = print[i]
      /\ \A i \in 1 .. Len(w) : one[n + i] = w[i]
  BY <1>3, <1>7, ConcatAt
<1>9. one \in Seq(S)
  BY <1>8
<1> HIDE DEF one
<1>10. /\ two \in Seq(S) /\ Len(two) = Len(one) + n
       /\ \A i \in 1 .. Len(one) : two[i] = one[i]
       /\ \A i \in 1 .. n : two[Len(one) + i] = print[i]
  BY <1>3, <1>9, ConcatAt
<1>11. two \in Seq(S)
  BY <1>10
<1> HIDE DEF two
<1>12. /\ Len(all) = Len(two) + Len(e)
       /\ \A i \in 1 .. Len(two) : all[i] = two[i]
       /\ \A i \in 1 .. Len(e) : all[Len(two) + i] = e[i]
  BY <1>7, <1>11, ConcatAt
<1>13. n \in Nat /\ blkp4At = n + 2 /\ endp4At = 2 * n + 6
  BY <1>8 DEF blkp4At, endp4At
<1> HIDE DEF all, n
<1>14. /\ \A i \in 1 .. n : one[i] \in Harmless
       /\ \A i \in 1 .. 5 : one[n + i] = w[i]
       /\ Len(one) = n + 5
  BY <1>4, <1>6, <1>8
<1>15. /\ Len(all) = 2 * n + 7
       /\ \A i \in 1 .. n : all[i] \in Harmless
       /\ \A i \in 1 .. 5 : all[n + i] = w[i]
       /\ \A i \in 1 .. n : all[n + 5 + i] \in Harmless
       /\ all[2 * n + 6] = V("endp4") /\ all[2 * n + 7] = Exit
  <2>1. Len(two) = 2 * n + 5 /\ Len(all) = 2 * n + 7
    BY <1>5, <1>10, <1>12, <1>13, <1>14
  <2>2. \A i \in 1 .. 2 * n + 5 : all[i] = two[i]
    BY <1>12, <2>1
  <2>3. \A i \in 1 .. n + 5 : two[i] = one[i]
    BY <1>10, <1>14
  <2>4. \A i \in 1 .. n : all[i] \in Harmless
    BY <1>13, <1>14, <2>2, <2>3
  <2>5. \A i \in 1 .. 5 : all[n + i] = w[i]
    <3>1. \A i \in 1 .. 5 : n + i \in 1 .. n + 5 /\ n + i \in 1 .. 2 * n + 5
      BY <1>13
    <3>. QED  BY <1>14, <2>2, <2>3, <3>1
  <2>6. \A i \in 1 .. n : all[n + 5 + i] \in Harmless
    <3>1. \A i \in 1 .. n : n + 5 + i \in 1 .. 2 * n + 5 /\ n + 5 + i = Len(one) + i
      BY <1>13, <1>14
    <3>. QED  BY <1>6, <1>10, <2>2, <3>1
  <2>7. all[2 * n + 6] = V("endp4") /\ all[2 * n + 7] = Exit
    <3>1. 1 \in 1 .. Len(e) /\ 2 \in 1 .. Len(e)
          /\ 2 * n + 6 = Len(two) + 1 /\ 2 * n + 7 = Len(two) + 2
      BY <1>5, <1>13, <2>1
    <3>. QED  BY <1>5, <1>12, <3>1
  <2>. QED  BY <2>1, <2>4, <2>5, <2>6, <2>7
<1>16. ASSUME NEW i \in 1 .. Len(p4)
       PROVE  /\ i < blkp4At => p4[i] \in Harmless
              /\ i = blkp4At => p4[i] = P("blkp4")
              /\ blkp4At < i /\ i < endp4At => p4[i] \in Harmless \cup {m4}
              /\ i = endp4At => p4[i] = V("endp4")
              /\ i > endp4At => p4[i] = Exit
  <2>0. i \in 1 .. 2 * n + 7
    BY <1>1, <1>15
  <2>1. CASE i <= n
    <3>1. i \in 1 .. n /\ i # blkp4At /\ ~(blkp4At < i) /\ i # endp4At /\ ~(i > endp4At)
      BY <1>13, <2>0, <2>1
    <3>. QED  BY <1>1, <1>15, <3>1
  <2>2. CASE n < i /\ i <= n + 5
    <3>1. i - n \in 1 .. 5 /\ i = n + (i - n) /\ i < endp4At
      BY <1>13, <2>0, <2>2
    <3>2. p4[i] = w[i - n]
      BY <1>1, <1>15, <3>1
    <3>3. /\ i < blkp4At => i - n = 1
          /\ i = blkp4At => i - n = 2
          /\ blkp4At < i => i - n \in {3, 4, 5}
          /\ ~(i = endp4At) /\ ~(i > endp4At)
      BY <1>13, <2>0, <2>2
    <3>. QED  BY <1>4, <3>2, <3>3
  <2>3. CASE n + 5 < i /\ i <= 2 * n + 5
    <3>1. i - n - 5 \in 1 .. n /\ i = n + 5 + (i - n - 5)
          /\ ~(i < blkp4At) /\ i # blkp4At /\ i # endp4At /\ ~(i > endp4At)
      BY <1>13, <2>0, <2>3
    <3>. QED  BY <1>1, <1>15, <3>1
  <2>4. CASE i = 2 * n + 6
    <3>1. ~(i < blkp4At) /\ i # blkp4At /\ ~(i < endp4At) /\ ~(i > endp4At)
      BY <1>13, <2>4
    <3>. QED  BY <1>1, <1>15, <2>4, <3>1
  <2>5. CASE i = 2 * n + 7
    <3>1. ~(i < blkp4At) /\ i # blkp4At /\ ~(i < endp4At) /\ i # endp4At
      BY <1>13, <2>5
    <3>. QED  BY <1>1, <1>15, <2>5, <3>1
  <2>. QED  BY <1>13, <2>0, <2>1, <2>2, <2>3, <2>4, <2>5
<1>17. blkp4At \in Nat /\ endp4At \in Nat /\ 1 <= blkp4At /\ blkp4At < endp4At
  BY <1>13
<1>. QED  BY <1>16, <1>17 DEF m4

(***************************************************************************)
(* p5 and its exception handlers: nothing marked until P(endp4), and then  *)
(* P(endp4), the wait, V(blkp4) and V(endp5), one after another.           *)
(***************************************************************************)
LEMMA p5Code ==
  /\ meetAt \in Nat /\ 1 <= meetAt
  /\ \A i \in 1 .. Len(p5) :
       /\ i < meetAt => p5[i] \in Neutral
       /\ i = meetAt => p5[i] = P("endp4")
       /\ i = meetAt + 1 => p5[i] = Clockwait
       /\ i = meetAt + 2 => p5[i] = UntilHalf
       /\ i = meetAt + 3 => p5[i] = V("blkp4")
       /\ i > meetAt + 3 => p5[i] \in {V("endp5"), Exit}
<1> DEFINE d == <<P("endp4"), Clockwait, UntilHalf, V("blkp4"), V("endp5"), Exit>>
           S == Neutral \cup {P("endp4"), Clockwait, UntilHalf, V("blkp4"), V("endp5"), Exit}
           a == print \o <<Trap>> \o p5gen \o p5a
           r == <<Trap>> \o p5gen \o <<Trap>> \o p5sys
           b == r \o d
           all == a \o b
<1>1. p5 = all
  BY DEF p5, p5b
<1>2. a \in Seq(Neutral) /\ r \in Seq(Neutral)
  <2>1. /\ print \in Seq(Neutral) /\ <<Trap>> \in Seq(Neutral)
        /\ <<Store>> \in Seq(Neutral)
    BY printIn, SeqWiden, NeutralFacts
  <2>. QED  BY <2>1, SeqConcat DEF p5gen, p5a, p5mm, p5sys
<1> HIDE DEF a, r
<1>3. a \in Seq(S) /\ r \in Seq(S)
  BY <1>2, SeqWiden
<1>4. d \in Seq(S)
  OBVIOUS
<1>5. /\ Len(d) = 6 /\ d[1] = P("endp4") /\ d[2] = Clockwait /\ d[3] = UntilHalf
      /\ d[4] = V("blkp4") /\ d[5] = V("endp5") /\ d[6] = Exit
  OBVIOUS
<1>6. /\ \A i \in 1 .. Len(a) : a[i] \in Neutral
      /\ \A i \in 1 .. Len(r) : r[i] \in Neutral
  BY <1>2
<1> HIDE DEF d, S
<1>7. /\ b \in Seq(S) /\ Len(b) = Len(r) + Len(d)
      /\ \A i \in 1 .. Len(r) : b[i] = r[i]
      /\ \A i \in 1 .. Len(d) : b[Len(r) + i] = d[i]
      /\ Len(r) \in Nat
  BY <1>3, <1>4, ConcatAt
<1>8. b \in Seq(S)
  BY <1>7
<1> HIDE DEF b
<1>9. /\ Len(all) = Len(a) + Len(b)
      /\ \A i \in 1 .. Len(a) : all[i] = a[i]
      /\ \A i \in 1 .. Len(b) : all[Len(a) + i] = b[i]
      /\ Len(a) \in Nat
  BY <1>3, <1>8, ConcatAt
<1> DEFINE h == Len(a) + Len(r)
<1> HIDE DEF all
<1>10. h \in Nat /\ Len(all) = h + 6 /\ meetAt = h + 1
  BY <1>1, <1>5, <1>7, <1>9 DEF meetAt
<1>11. \A i \in 1 .. h : all[i] \in Neutral
  <2> SUFFICES ASSUME NEW i \in 1 .. h  PROVE all[i] \in Neutral
    OBVIOUS
  <2>1. CASE i <= Len(a)
    <3>1. i \in 1 .. Len(a)
      BY <1>9, <2>1
    <3>. QED  BY <1>6, <1>9, <3>1
  <2>2. CASE i > Len(a)
    <3>1. i - Len(a) \in 1 .. Len(r) /\ i - Len(a) \in 1 .. Len(b)
          /\ i = Len(a) + (i - Len(a))
      BY <1>5, <1>7, <1>9, <2>2
    <3>. QED  BY <1>6, <1>7, <1>9, <3>1
  <2>. QED  BY <1>9, <2>1, <2>2
<1>12. \A i \in 1 .. 6 : all[h + i] = d[i]
  <2> SUFFICES ASSUME NEW i \in 1 .. 6  PROVE all[h + i] = d[i]
    OBVIOUS
  <2>1. Len(r) + i \in 1 .. Len(b) /\ h + i = Len(a) + (Len(r) + i) /\ i \in 1 .. Len(d)
    BY <1>5, <1>7, <1>9
  <2>. QED  BY <1>7, <1>9, <2>1
<1> HIDE DEF h
<1>13. ASSUME NEW i \in 1 .. Len(p5)
       PROVE  /\ i < meetAt => p5[i] \in Neutral
              /\ i = meetAt => p5[i] = P("endp4")
              /\ i = meetAt + 1 => p5[i] = Clockwait
              /\ i = meetAt + 2 => p5[i] = UntilHalf
              /\ i = meetAt + 3 => p5[i] = V("blkp4")
              /\ i > meetAt + 3 => p5[i] \in {V("endp5"), Exit}
  <2>1. CASE i <= h
    <3>1. i \in 1 .. h /\ ~(i = meetAt) /\ ~(i = meetAt + 1) /\ ~(i = meetAt + 2)
          /\ ~(i = meetAt + 3) /\ ~(i > meetAt + 3)
      BY <1>10, <2>1
    <3>. QED  BY <1>1, <1>11, <3>1
  <2>2. CASE i > h
    <3>1. i - h \in 1 .. 6 /\ i = h + (i - h)
      BY <1>1, <1>10, <2>2
    <3>2. p5[i] = d[i - h]
      BY <1>1, <1>12, <3>1
    <3>3. /\ ~(i < meetAt)
          /\ i = meetAt => i - h = 1
          /\ i = meetAt + 1 => i - h = 2
          /\ i = meetAt + 2 => i - h = 3
          /\ i = meetAt + 3 => i - h = 4
          /\ i > meetAt + 3 => i - h \in {5, 6}
      BY <1>1, <1>10, <2>2
    <3>. QED  BY <1>5, <3>2, <3>3
  <2>. QED  BY <1>10, <2>1, <2>2
<1>14. meetAt \in Nat /\ 1 <= meetAt
  BY <1>10
<1>. QED  BY <1>13, <1>14

(***************************************************************************)
(* p1: nothing marked until it creates p4 and p5; two creations later it   *)
(* waits for p5, and P(blkp4) comes only after that.                       *)
(***************************************************************************)
LEMMA testCode ==
  /\ createAt \in Nat /\ 1 <= createAt
  /\ \A i \in 1 .. Len(test) :
       /\ i < createAt => test[i] \in Harmless
       /\ i = createAt => test[i] = Create("p4", FALSE)
       /\ i = createAt + 1 => test[i] = Create("p5", TRUE)
       /\ createAt + 1 < i /\ i < createAt + 4 => test[i] \in Harmless
       /\ i = createAt + 4 => test[i] = P("endp5")
       /\ i > createAt + 4 => test[i] \in Neutral \cup {P("blkp4")}
<1> DEFINE m4 == Create("p4", FALSE)
           m5 == Create("p5", TRUE)
           m6 == Create("p6", FALSE)
           m7 == Create("p7", FALSE)
           m8 == Create("p8root", FALSE)
           d == <<P("endp3"), m4, m5, m6, m7, P("endp5")>>
           f == <<m8, P("endp8")>>
           b == <<P("blkp4")>>
           rep == Repeat(Incarnations, f)
           t == <<Trap>>
           I == Neutral \cup {P("blkp4")}
           S == I \cup {m4, m5, P("endp5")}
           e0 == testHead \o d
           e1 == e0 \o print
           e2 == e1 \o b
           e3 == e2 \o rep
           e4 == e3 \o print
           e5 == e4 \o t
           h == Len(testHead)
<1>1. test = e5
  BY Zenon DEF test, testHead
<1>2. /\ P("endp3") \in Harmless /\ P("endp8") \in Harmless
      /\ m6 \in Harmless /\ m7 \in Harmless /\ m8 \in Harmless
  <2>1. {"p6", "p7", "p8root"} \subseteq (DOMAIN Code) \ {"test", "p4", "p5"}
    BY DEF Code
  <2>2. m6 \in Harmless /\ m7 \in Harmless /\ m8 \in Harmless
    BY <2>1, NeutralFacts, Zenon
  <2>3. P("endp3") \in Harmless /\ P("endp8") \in Harmless
    BY NeutralFacts, TestAssumption
  <2>. QED  BY <2>2, <2>3
<1> HIDE DEF m4, m5, m6, m7, m8
<1>3. /\ f \in Seq(I) /\ b \in Seq(I) /\ t \in Seq(I)
  BY <1>2, NeutralFacts
<1>4. d \in Seq(S)
  BY <1>2, NeutralFacts
<1>5. /\ Len(d) = 6 /\ d[1] = P("endp3") /\ d[2] = m4 /\ d[3] = m5 /\ d[4] = m6
      /\ d[5] = m7 /\ d[6] = P("endp5")
  OBVIOUS
<1>6. I \subseteq S /\ Harmless \subseteq I
  BY NeutralFacts
<1> HIDE DEF d, f, b, t, I, S
<1>7. print \in Seq(I) /\ testHead \in Seq(S) /\ rep \in Seq(I)
  <2>1. Harmless \subseteq S
    BY <1>6
  <2>2. print \in Seq(I) /\ testHead \in Seq(S)
    BY <1>6, <2>1, printIn, testHeadIn, SeqWiden
  <2>3. rep \in Seq(I)
    BY <1>3, RepeatIn, TestAssumption
  <2>. QED  BY <2>2, <2>3
<1>8. testHead \in Seq(S)
  BY <1>7
<1> HIDE DEF rep
<1>9. /\ e0 \in Seq(S) /\ Len(e0) = h + Len(d) /\ h \in Nat
      /\ \A i \in 1 .. h : e0[i] = testHead[i]
      /\ \A i \in 1 .. Len(d) : e0[h + i] = d[i]
  BY <1>4, <1>8, ConcatAt
<1> DEFINE n == h + 6
           Piece(c) == /\ c \in Seq(S) /\ n \in 0 .. Len(c) /\ From(I, n, c)
                       /\ \A i \in 1 .. n : c[i] = e0[i]
<1>10. /\ h \in Nat /\ e0 \in Seq(S) /\ Len(e0) = n
       /\ \A i \in 1 .. h : e0[i] \in Harmless
       /\ \A i \in 1 .. 6 : e0[h + i] = d[i]
       /\ createAt = h + 2
  <2>1. \A i \in 1 .. h : testHead[i] \in Harmless
    BY testHeadIn
  <2>. QED  BY <1>5, <1>9, <2>1 DEF createAt
<1> HIDE DEF e0, h
<1>11. Piece(e0)
  BY <1>10 DEF From
<1>12. ASSUME NEW c, Piece(c), NEW x \in Seq(I)  PROVE Piece(c \o x)
  <2>1. /\ c \o x \in Seq(S) /\ n \in 0 .. Len(c \o x) /\ From(I, n, c \o x)
        /\ \A i \in 1 .. n : (c \o x)[i] = c[i]
    BY <1>6, <1>12, FromLemma
  <2>. QED  BY <1>12, <2>1
<1> HIDE DEF Piece
<1>13. Piece(e5)
  BY <1>3, <1>7, <1>11, <1>12
<1> HIDE DEF e1, e2, e3, e4, e5
<1>14. /\ \A i \in 1 .. h : test[i] \in Harmless
       /\ \A i \in 1 .. 6 : test[h + i] = d[i]
       /\ \A i \in 1 .. Len(test) : i > h + 6 => test[i] \in I
  <2>1. /\ \A i \in 1 .. h + 6 : test[i] = e0[i]
        /\ \A i \in 1 .. Len(test) : i > h + 6 => test[i] \in I
    BY <1>1, <1>13 DEF Piece, From
  <2>2. \A i \in 1 .. h : i \in 1 .. h + 6
    BY <1>10
  <2>3. \A i \in 1 .. 6 : h + i \in 1 .. h + 6
    BY <1>10
  <2>. QED  BY <1>10, <2>1, <2>2, <2>3
<1>15. ASSUME NEW i \in 1 .. Len(test)
       PROVE  /\ i < createAt => test[i] \in Harmless
              /\ i = createAt => test[i] = m4
              /\ i = createAt + 1 => test[i] = m5
              /\ createAt + 1 < i /\ i < createAt + 4 => test[i] \in Harmless
              /\ i = createAt + 4 => test[i] = P("endp5")
              /\ i > createAt + 4 => test[i] \in I
  <2>1. CASE i <= h
    <3>1. i \in 1 .. h /\ i # createAt /\ i # createAt + 1 /\ ~(createAt + 1 < i)
          /\ i # createAt + 4 /\ ~(i > createAt + 4)
      BY <1>10, <2>1
    <3>. QED  BY <1>14, <3>1
  <2>2. CASE h < i /\ i <= h + 6
    <3>1. i - h \in 1 .. 6 /\ i = h + (i - h)
      BY <1>10, <2>2
    <3>2. test[i] = d[i - h]
      BY <1>14, <3>1
    <3>3. /\ i < createAt => i - h = 1
          /\ i = createAt => i - h = 2
          /\ i = createAt + 1 => i - h = 3
          /\ createAt + 1 < i /\ i < createAt + 4 => i - h \in {4, 5}
          /\ i = createAt + 4 => i - h = 6
          /\ ~(i > createAt + 4)
      BY <1>10, <2>2
    <3>. QED  BY <1>2, <1>5, <3>2, <3>3
  <2>3. CASE i > h + 6
    <3>1. ~(i < createAt) /\ i # createAt /\ i # createAt + 1
          /\ ~(i < createAt + 4) /\ i # createAt + 4
      BY <1>10, <2>3
    <3>. QED  BY <1>14, <2>3, <3>1
  <2>. QED  BY <1>10, <2>1, <2>2, <2>3
<1>16. createAt \in Nat /\ 1 <= createAt
  BY <1>10
<1>. QED  BY <1>15, <1>16 DEF m4, m5, I

(***************************************************************************)
(* The other programs do nothing to p1, p4 and p5.                         *)
(***************************************************************************)
LEMMA otherCode ==
  \A prog \in (DOMAIN Code) \ {"test", "p4", "p5"} :
    Code[prog] \in Seq(Neutral \cup {UntilHalf})
<1> DEFINE N == Neutral \cup {UntilHalf}
<1>1. /\ Harmless \subseteq N /\ UntilHalf \in N
      /\ Exit \in N /\ Trap \in N /\ Clockwait \in N
  BY NeutralFacts
<1>2. /\ P("startp2") \in N /\ V("s") \in N /\ P("s") \in N /\ V("endp2") \in N
      /\ V("endp3") \in N /\ P("endcreate") \in N /\ V("endcreate") \in N
      /\ V("endp8") \in N /\ P("blkp8") \in N
  BY <1>1, NeutralFacts, TestAssumption
<1>3. ASSUME NEW prog \in {"child1", "child2", "p8leaf"}
      PROVE  Create(prog, FALSE) \in N
  <2>1. prog \in (DOMAIN Code) \ {"test", "p4", "p5"}
    BY DEF Code
  <2>. QED  BY <1>1, <2>1, NeutralFacts, Zenon
<1> DEFINE c1 == Create("child1", FALSE)
           c2 == Create("child2", FALSE)
           lf == Create("p8leaf", FALSE)
<1>4. c1 \in N /\ c2 \in N /\ lf \in N
  BY <1>3, Zenon
<1> HIDE DEF c1, c2, lf
<1>5. print \in Seq(N)
  BY <1>1, printIn, SeqWiden
<1>6. p2 \in Seq(N)
  <2>1. /\ <<P("startp2")>> \in Seq(N) /\ <<V("s"), P("s")>> \in Seq(N)
        /\ <<V("endp2"), Exit>> \in Seq(N)
    BY <1>1, <1>2
  <2> HIDE DEF N
  <2>. QED  BY <1>5, <2>1, SeqConcat DEF p2
<1>7. p3 \in Seq(N)
  <2>1. /\ <<Clockwait, UntilHalf>> \in Seq(N) /\ <<Clockwait>> \in Seq(N)
        /\ <<V("endp3"), Exit>> \in Seq(N)
    BY <1>1, <1>2
  <2> HIDE DEF N
  <2>2. Repeat(CLOCKLOOP, <<Clockwait>>) \in Seq(N)
    BY <2>1, RepeatIn, TestAssumption
  <2>. QED  BY <1>5, <2>1, <2>2, SeqConcat DEF p3
<1>8. p6 \in Seq(N) /\ p7 \in Seq(N)
  <2>1. <<Trap>> \in Seq(N)
    BY <1>1
  <2> HIDE DEF N
  <2>. QED  BY <1>5, <2>1, SeqConcat DEF p6, p7
<1>9. p8root \in Seq(N)
  <2>1. /\ <<c1, c2>> \in Seq(N) /\ <<P("endcreate")>> \in Seq(N)
        /\ <<V("endp8"), Exit>> \in Seq(N)
    BY <1>1, <1>2, <1>4
  <2>2. p8root = print \o <<c1, c2>> \o Repeat(4, <<P("endcreate")>>)
                   \o <<V("endp8"), Exit>>
    BY Zenon DEF p8root, c1, c2
  <2> HIDE DEF N
  <2>3. 4 \in Nat
    OBVIOUS
  <2>4. Repeat(4, <<P("endcreate")>>) \in Seq(N)
    BY <2>1, <2>3, RepeatIn
  <2>. QED  BY <1>5, <2>1, <2>2, <2>4, SeqConcat
<1>10. child1 \in Seq(N) /\ child2 \in Seq(N)
  <2>1. <<lf, lf, P("blkp8")>> \in Seq(N)
    BY <1>2, <1>4
  <2>2. /\ child1 = print \o <<lf, lf, P("blkp8")>>
        /\ child2 = print \o <<lf, lf, P("blkp8")>>
    BY Zenon DEF child1, child2, lf
  <2> HIDE DEF N
  <2>. QED  BY <1>5, <2>1, <2>2, SeqConcat
<1>11. p8leaf \in Seq(N)
  <2>1. <<V("endcreate"), P("blkp8")>> \in Seq(N)
    BY <1>2
  <2> HIDE DEF N
  <2>. QED  BY <1>5, <2>1, SeqConcat DEF p8leaf
<1> HIDE DEF N
<1>12. ASSUME NEW prog \in (DOMAIN Code) \ {"test", "p4", "p5"}
       PROVE  Code[prog] \in Seq(N)
  <2>1. prog \in {"p2", "p3", "p6", "p7", "p8root", "child1", "child2", "p8leaf"}
    BY DEF Code
  <2>2. /\ Code["p2"] = p2 /\ Code["p3"] = p3 /\ Code["p6"] = p6 /\ Code["p7"] = p7
        /\ Code["p8root"] = p8root /\ Code["child1"] = child1
        /\ Code["child2"] = child2 /\ Code["p8leaf"] = p8leaf
    BY DEF Code
  <2>. QED  BY <1>6, <1>7, <1>8, <1>9, <1>10, <1>11, <2>1, <2>2
<1>. QED  BY <1>12 DEF N

------------------------------------------------------------------------------
\* Who executes what, and where.

(***************************************************************************)
(* The instructions are told apart by their names and arguments.           *)
(***************************************************************************)
LEMMA Apart ==
  /\ \A s, t : (P(s) = P(t) => s = t) /\ (V(s) = V(t) => s = t) /\ P(s) # V(t)
  /\ \A prog, sup, s : Create(prog, sup) # P(s) /\ Create(prog, sup) # V(s)
  /\ \A prog, sup, b, other : Create(prog, sup) = Create(other, b) => prog = other
  /\ \A x \in {Char, Wait, Clockwait, UntilHalf, Exit, Trap, Store} :
       /\ \A s : x # P(s) /\ x # V(s)
       /\ \A prog, sup : x # Create(prog, sup)
  /\ UntilHalf \notin {Char, Wait, Clockwait, Exit, Trap, Store}
  /\ Clockwait \notin {Char, Wait, Exit, Trap, Store}
  /\ Exit \notin {Char, Wait, Trap, Store}
<1>1. \A s, t : (P(s) = P(t) => s = t) /\ (V(s) = V(t) => s = t) /\ P(s) # V(t)
  BY DEF P, V
<1>2. /\ \A prog, sup : Create(prog, sup)[1] = "create" /\ Create(prog, sup)[2] = prog
      /\ \A s : P(s)[1] = "P" /\ V(s)[1] = "V"
      /\ \A x \in {Char, Wait, Clockwait, UntilHalf, Exit, Trap, Store} :
           x[1] \notin {"create", "P", "V"}
  BY DEF Create, P, V, Char, Wait, Clockwait, UntilHalf, Exit, Trap, Store
<1>3. /\ "create" # "P" /\ "create" # "V"
  OBVIOUS
<1>4. ASSUME NEW prog, NEW sup, NEW s
      PROVE  Create(prog, sup) # P(s) /\ Create(prog, sup) # V(s)
  <2>1. Create(prog, sup)[1] = "create" /\ P(s)[1] = "P" /\ V(s)[1] = "V"
    BY <1>2
  <2>2. Create(prog, sup) # P(s)
    BY <1>3, <2>1, Zenon
  <2>3. Create(prog, sup) # V(s)
    BY <1>3, <2>1, Zenon
  <2>. QED  BY <2>2, <2>3
<1>5. ASSUME NEW prog, NEW sup, NEW b, NEW other, Create(prog, sup) = Create(other, b)
      PROVE  prog = other
  <2>1. Create(prog, sup)[2] = prog /\ Create(other, b)[2] = other
    BY <1>2
  <2>. QED  BY <1>5, <2>1, Zenon
<1>6. ASSUME NEW x \in {Char, Wait, Clockwait, UntilHalf, Exit, Trap, Store}
      PROVE  /\ \A s : x # P(s) /\ x # V(s)
             /\ \A prog, sup : x # Create(prog, sup)
  <2>1. x[1] # "create" /\ x[1] # "P" /\ x[1] # "V"
    BY <1>2
  <2>2. /\ \A s : P(s)[1] = "P" /\ V(s)[1] = "V"
        /\ \A prog, sup : Create(prog, sup)[1] = "create"
    BY <1>2
  <2>3. \A s : x # P(s)
    BY <2>1, <2>2, Zenon
  <2>4. \A s : x # V(s)
    BY <2>1, <2>2, Zenon
  <2>5. \A prog, sup : x # Create(prog, sup)
    BY <2>1, <2>2, Zenon
  <2>. QED  BY <2>3, <2>4, <2>5, Zenon
<1>7. /\ UntilHalf \notin {Char, Wait, Clockwait, Exit, Trap, Store}
      /\ Clockwait \notin {Char, Wait, Exit, Trap, Store}
      /\ Exit \notin {Char, Wait, Trap, Store}
  BY DEF Char, Wait, Clockwait, UntilHalf, Exit, Trap, Store
<1>. QED  BY <1>1, <1>4, <1>5, <1>6, <1>7

(***************************************************************************)
(* The instructions the argument is about are all different.               *)
(***************************************************************************)
LEMMA Names ==
  /\ P("blkp4") \notin {V("blkp4"), P("endp4"), V("endp4"), P("endp5"), V("endp5"),
                        UntilHalf, Clockwait, Exit, Trap, Store}
  /\ V("blkp4") \notin {P("endp4"), V("endp4"), P("endp5"), V("endp5"),
                        UntilHalf, Clockwait, Exit, Trap, Store}
  /\ P("endp4") \notin {V("endp4"), P("endp5"), V("endp5"), UntilHalf, Clockwait,
                        Exit, Trap, Store}
  /\ V("endp4") \notin {P("endp5"), V("endp5"), UntilHalf, Clockwait, Exit, Trap, Store}
  /\ P("endp5") \notin {V("endp5"), UntilHalf, Clockwait, Exit, Trap, Store}
  /\ V("endp5") \notin {UntilHalf, Clockwait, Exit, Trap, Store}
  /\ UntilHalf \notin {Clockwait, Exit, Trap, Store}
  /\ Clockwait \notin {Exit, Trap, Store}
  BY DEF P, V, UntilHalf, Clockwait, Exit, Trap, Store

(***************************************************************************)
(* The instruction x is SYS1 for program prog.                             *)
(***************************************************************************)
Makes(x, prog) == \E sup \in BOOLEAN : x = Create(prog, sup)

(***************************************************************************)
(* SYS1 is none of the other instructions, and is for one program.         *)
(***************************************************************************)
LEMMA MakesFacts ==
  /\ \A x, prog : Makes(x, prog) =>
       x \notin {P("blkp4"), V("blkp4"), P("endp4"), V("endp4"), P("endp5"), V("endp5"),
                 UntilHalf, Clockwait, Exit, Trap, Store}
  /\ \A x, a, b : Makes(x, a) /\ Makes(x, b) => a = b
<1>1. ASSUME NEW x, NEW prog, Makes(x, prog)
      PROVE  x \notin {P("blkp4"), V("blkp4"), P("endp4"), V("endp4"), P("endp5"), V("endp5"),
                       UntilHalf, Clockwait, Exit, Trap, Store}
  <2>1. PICK sup \in BOOLEAN : x = Create(prog, sup)
    BY <1>1 DEF Makes
  <2> DEFINE m == Create(prog, sup)
  <2>2. /\ \A s : m # P(s) /\ m # V(s)
        /\ \A y \in {UntilHalf, Clockwait, Exit, Trap, Store} : y # m
    BY Apart
  <2>3. x = m
    BY <2>1
  <2> HIDE DEF m
  <2>. QED  BY <2>2, <2>3
<1>2. ASSUME NEW x, NEW a, NEW b, Makes(x, a), Makes(x, b)  PROVE a = b
  <2>1. PICK u \in BOOLEAN : x = Create(a, u)
    BY <1>2, Zenon DEF Makes
  <2>2. PICK v \in BOOLEAN : x = Create(b, v)
    BY <1>2, Zenon DEF Makes
  <2>3. Create(a, u) = Create(b, v)
    BY <2>1, <2>2, Zenon
  <2>. QED  BY <2>3, Apart, Zenon
<1>. QED  BY <1>1, <1>2

(***************************************************************************)
(* The instruction x at position i of program prog: who does what, and     *)
(* where.                                                                  *)
(***************************************************************************)
Where(prog, i, x) ==
  /\ x = P("blkp4") =>
       \/ prog = "p4" /\ i = blkp4At
       \/ prog = "test" /\ i > createAt + 4
  /\ x = V("blkp4") => prog = "p5" /\ i = meetAt + 3
  /\ x = P("endp4") => prog = "p5" /\ i = meetAt
  /\ x = V("endp4") => prog = "p4" /\ i = endp4At
  /\ x = P("endp5") => prog = "test" /\ i = createAt + 4
  /\ x = V("endp5") => prog = "p5" /\ i > meetAt + 3
  /\ ~Makes(x, "test")
  /\ Makes(x, "p4") => \/ prog = "test" /\ i = createAt
                       \/ prog = "p4" /\ blkp4At < i
  /\ Makes(x, "p5") => prog = "test" /\ i = createAt + 1

(***************************************************************************)
(* What p4, p5 and p1 do where.                                            *)
(***************************************************************************)
There(prog, i, x) ==
  /\ prog = "p4" => /\ x # UntilHalf
                    /\ i = blkp4At => x = P("blkp4")
                    /\ i = endp4At => x = V("endp4")
                    /\ i > endp4At => x = Exit
  /\ prog = "p5" => /\ i = meetAt => x = P("endp4")
                    /\ i = meetAt + 1 => x = Clockwait
                    /\ i = meetAt + 2 <=> x = UntilHalf
                    /\ i = meetAt + 3 => x = V("blkp4")
  /\ prog = "test" => /\ x # UntilHalf
                      /\ i = createAt => Makes(x, "p4")
                      /\ i = createAt + 1 => Makes(x, "p5")
                      /\ i = createAt + 4 => x = P("endp5")
                      /\ i <= createAt + 4 => x \notin {Exit, Trap, Store}

(***************************************************************************)
(* A neutral instruction is none of those.                                 *)
(***************************************************************************)
LEMMA NeutralWhere ==
  ASSUME NEW x \in Neutral \cup {UntilHalf}
  PROVE  /\ x \notin {P("blkp4"), V("blkp4"), P("endp4"), V("endp4"), P("endp5"), V("endp5")}
         /\ ~Makes(x, "test") /\ ~Makes(x, "p4") /\ ~Makes(x, "p5")
         /\ x \in Neutral => x # UntilHalf
         /\ x \in Harmless => x \notin {Exit, Trap, Store}
<1>1. x \in Neutral => x # UntilHalf
  <2>1. UntilHalf \notin Inside
    BY DEF Inside, UntilHalf, Char, Wait, V
  <2>. QED  BY <2>1, Distinct DEF Neutral, Outside
<1>2. x \in Harmless => x \notin {Exit, Trap, Store}
  BY DEF Harmless
<1>3. x # UntilHalf => x \in Outside \cup Inside /\ x \notin Marked
  BY DEF Neutral
<1>4. x \notin {P("blkp4"), V("blkp4"), P("endp4"), V("endp4"), P("endp5"), V("endp5")}
  <2>1. UntilHalf \notin {P("blkp4"), V("blkp4"), P("endp4"), V("endp4"), P("endp5"), V("endp5")}
    BY Names
  <2>2. {P("blkp4"), V("blkp4"), P("endp4"), V("endp4"), P("endp5"), V("endp5")} \subseteq Marked
    BY DEF Marked
  <2>. QED  BY <1>3, <2>1, <2>2
<1>5. ASSUME NEW prog \in {"test", "p4", "p5"}  PROVE ~Makes(x, prog)
  <2> SUFFICES ASSUME NEW sup \in BOOLEAN, x = Create(prog, sup)  PROVE FALSE
    BY Zenon DEF Makes
  <2>1. x # UntilHalf
    BY Apart
  <2>2. Create(prog, sup) \in Marked
    BY DEF Marked
  <2>3. x \in Marked
    BY <2>2, Zenon
  <2>. QED  BY <1>3, <2>1, <2>3, Zenon
<1>. QED  BY <1>1, <1>2, <1>4, <1>5

(***************************************************************************)
(* The code of p4 is as Where and There say.                               *)
(***************************************************************************)
LEMMA p4Where ==
  ASSUME NEW i \in 1 .. Len(p4)
  PROVE  Where("p4", i, p4[i]) /\ There("p4", i, p4[i])
<1> SUFFICES ASSUME NEW x, x = p4[i]
             PROVE  Where("p4", i, x) /\ There("p4", i, x)
  OBVIOUS
<1>0. blkp4At \in Nat /\ endp4At \in Nat /\ blkp4At < endp4At /\ i \in Nat
  BY p4Code, SeqFacts
<1>1. /\ i < blkp4At => x \in Harmless
      /\ i = blkp4At => x = P("blkp4")
      /\ blkp4At < i /\ i < endp4At => x \in Harmless \/ x = Create("p4", FALSE)
      /\ i = endp4At => x = V("endp4")
      /\ i > endp4At => x = Exit
  BY p4Code
<1>2. i < blkp4At \/ i = blkp4At \/ (blkp4At < i /\ i < endp4At) \/ i = endp4At \/ i > endp4At
  BY <1>0
<1>3. CASE x \in Harmless
  <2>1. x \in Neutral \cup {UntilHalf} /\ x \in Neutral
    BY <1>3, NeutralFacts
  <2>2. x \notin {P("blkp4"), V("endp4"), Exit}
    BY <1>3, <2>1, NeutralWhere
  <2>3. i # blkp4At /\ i # endp4At /\ ~(i > endp4At)
    BY <1>1, <2>2
  <2>. QED  BY <2>1, <2>2, <2>3, NeutralWhere DEF Where, There
<1>4. CASE i = blkp4At
  <2>1. i # endp4At /\ ~(i > endp4At)
    BY <1>0, <1>4
  <2>2. x = P("blkp4") /\ ~Makes(x, "test") /\ ~Makes(x, "p4") /\ ~Makes(x, "p5")
    BY <1>1, <1>4, MakesFacts
  <2>3. x \notin {V("blkp4"), P("endp4"), V("endp4"), P("endp5"), V("endp5"),
                  UntilHalf, Exit}
    BY <2>2, Names
  <2>4. Where("p4", i, x)
    BY <1>4, <2>2, <2>3 DEF Where
  <2>5. There("p4", i, x)
    BY <1>4, <2>1, <2>2, <2>3 DEF There
  <2>. QED  BY <2>4, <2>5
<1>5. CASE blkp4At < i /\ i < endp4At /\ x = Create("p4", FALSE)
  <2>1. Makes(x, "p4")
    BY <1>5, Zenon DEF Makes
  <2>2. i # blkp4At /\ i # endp4At /\ ~(i > endp4At)
    BY <1>0, <1>5
  <2>. QED  BY <1>5, <2>1, <2>2, MakesFacts DEF Where, There
<1>6. CASE i = endp4At
  BY <1>0, <1>1, <1>6, Names, MakesFacts DEF Where, There
<1>7. CASE i > endp4At
  BY <1>0, <1>1, <1>7, Names, MakesFacts DEF Where, There
<1>. QED  BY <1>1, <1>2, <1>3, <1>4, <1>5, <1>6, <1>7

(***************************************************************************)
(* The code of p5 is.                                                      *)
(***************************************************************************)
LEMMA p5Where ==
  ASSUME NEW i \in 1 .. Len(p5)
  PROVE  Where("p5", i, p5[i]) /\ There("p5", i, p5[i])
<1> SUFFICES ASSUME NEW x, x = p5[i]
             PROVE  Where("p5", i, x) /\ There("p5", i, x)
  OBVIOUS
<1>0. meetAt \in Nat /\ i \in Nat
  BY p5Code, SeqFacts
<1>1. /\ i < meetAt => x \in Neutral
      /\ i = meetAt => x = P("endp4")
      /\ i = meetAt + 1 => x = Clockwait
      /\ i = meetAt + 2 => x = UntilHalf
      /\ i = meetAt + 3 => x = V("blkp4")
      /\ i > meetAt + 3 => x \in {V("endp5"), Exit}
  BY p5Code
<1>2. CASE i < meetAt
  <2>1. i # meetAt /\ i # meetAt + 1 /\ i # meetAt + 2 /\ i # meetAt + 3
    BY <1>0, <1>2
  <2>2. x \in Neutral \cup {UntilHalf} /\ x # UntilHalf
    BY <1>1, <1>2, NeutralWhere
  <2>. QED  BY <2>1, <2>2, NeutralWhere DEF Where, There
<1>3. CASE i = meetAt
  <2>1. i # meetAt + 1 /\ i # meetAt + 2 /\ i # meetAt + 3
    BY <1>0, <1>3
  <2>. QED  BY <1>1, <1>3, <2>1, Names, MakesFacts DEF Where, There
<1>4. CASE i = meetAt + 1
  <2>1. i # meetAt /\ i # meetAt + 2 /\ i # meetAt + 3
    BY <1>0, <1>4
  <2>. QED  BY <1>1, <1>4, <2>1, Names, MakesFacts DEF Where, There
<1>5. CASE i = meetAt + 2
  <2>1. i # meetAt /\ i # meetAt + 1 /\ i # meetAt + 3
    BY <1>0, <1>5
  <2>. QED  BY <1>1, <1>5, <2>1, Names, MakesFacts DEF Where, There
<1>6. CASE i = meetAt + 3
  <2>1. i # meetAt /\ i # meetAt + 1 /\ i # meetAt + 2
    BY <1>0, <1>6
  <2>. QED  BY <1>1, <1>6, <2>1, Names, MakesFacts DEF Where, There
<1>7. CASE i > meetAt + 3
  <2>1. i # meetAt /\ i # meetAt + 1 /\ i # meetAt + 2 /\ i # meetAt + 3
    BY <1>0, <1>7
  <2>. QED  BY <1>1, <1>7, <2>1, Names, MakesFacts DEF Where, There
<1>8. i < meetAt \/ i = meetAt \/ i = meetAt + 1 \/ i = meetAt + 2 \/ i = meetAt + 3
        \/ i > meetAt + 3
  BY <1>0
<1>. QED  BY <1>2, <1>3, <1>4, <1>5, <1>6, <1>7, <1>8

(***************************************************************************)
(* The code of p1 is.                                                      *)
(***************************************************************************)
LEMMA testWhere ==
  ASSUME NEW i \in 1 .. Len(test)
  PROVE  Where("test", i, test[i]) /\ There("test", i, test[i])
<1> SUFFICES ASSUME NEW x, x = test[i]
             PROVE  Where("test", i, x) /\ There("test", i, x)
  OBVIOUS
<1>0. createAt \in Nat /\ i \in Nat
  BY testCode, SeqFacts
<1>1. /\ i < createAt => x \in Harmless
      /\ i = createAt => x = Create("p4", FALSE)
      /\ i = createAt + 1 => x = Create("p5", TRUE)
      /\ createAt + 1 < i /\ i < createAt + 4 => x \in Harmless
      /\ i = createAt + 4 => x = P("endp5")
      /\ i > createAt + 4 => x \in Neutral \/ x = P("blkp4")
  BY testCode
<1>2. CASE x \in Harmless /\ i < createAt + 4 /\ i # createAt /\ i # createAt + 1
  <2>1. x \in Neutral \cup {UntilHalf} /\ x \in Neutral
    BY <1>2, NeutralFacts
  <2>2. i # createAt + 4
    BY <1>0, <1>2
  <2>. QED  BY <1>2, <2>1, <2>2, NeutralWhere DEF Where, There
<1>3. CASE i = createAt
  <2>1. i # createAt + 1 /\ i # createAt + 4
    BY <1>0, <1>3
  <2>2. Makes(x, "p4")
    <3>1. x = Create("p4", FALSE)
      BY <1>1, <1>3, Zenon
    <3>. QED  BY <3>1, Zenon DEF Makes
  <2>. QED  BY <1>3, <2>1, <2>2, MakesFacts DEF Where, There
<1>4. CASE i = createAt + 1
  <2>1. i # createAt /\ i # createAt + 4
    BY <1>0, <1>4
  <2>2. Makes(x, "p5")
    <3>1. x = Create("p5", TRUE)
      BY <1>1, <1>4, Zenon
    <3>. QED  BY <3>1, Zenon DEF Makes
  <2>. QED  BY <1>4, <2>1, <2>2, MakesFacts DEF Where, There
<1>5. CASE i = createAt + 4
  <2>1. i # createAt /\ i # createAt + 1
    BY <1>0, <1>5
  <2>. QED  BY <1>1, <1>5, <2>1, Names, MakesFacts DEF Where, There
<1>6. CASE i > createAt + 4
  <2>1. i # createAt /\ i # createAt + 1 /\ i # createAt + 4 /\ ~(i <= createAt + 4)
    BY <1>0, <1>6
  <2>2. CASE x \in Neutral
    BY <2>1, <2>2, NeutralWhere DEF Where, There
  <2>3. CASE x = P("blkp4")
    BY <1>6, <2>1, <2>3, Names, MakesFacts DEF Where, There
  <2>. QED  BY <1>1, <1>6, <2>2, <2>3
<1>7. \/ i < createAt \/ i = createAt \/ i = createAt + 1
      \/ createAt + 1 < i /\ i < createAt + 4
      \/ i = createAt + 4 \/ i > createAt + 4
  BY <1>0
<1>8. /\ i < createAt => i < createAt + 4 /\ i # createAt /\ i # createAt + 1
      /\ createAt + 1 < i => i # createAt /\ i # createAt + 1
  BY <1>0
<1>. QED  BY <1>1, <1>2, <1>3, <1>4, <1>5, <1>6, <1>7, <1>8

(***************************************************************************)
(* Every instruction of the test is where the two definitions say.         *)
(***************************************************************************)
LEMMA WhereLemma ==
  ASSUME NEW prog \in DOMAIN Code, NEW i \in 1 .. Len(Code[prog])
  PROVE  Where(prog, i, Code[prog][i]) /\ There(prog, i, Code[prog][i])
<1>1. /\ Code["p4"] = p4 /\ Code["p5"] = p5 /\ Code["test"] = test
  BY DEF Code
<1>2. CASE prog \notin {"test", "p4", "p5"}
  <2> DEFINE c == Code[prog]
             x == c[i]
  <2>1. c \in Seq(Neutral \cup {UntilHalf})
    BY <1>2, otherCode
  <2> HIDE DEF c
  <2>2. i \in 1 .. Len(c)
    BY DEF c
  <2>3. x \in Neutral \cup {UntilHalf}
    BY <2>1, <2>2
  <2> HIDE DEF x
  <2>4. Where(prog, i, x) /\ There(prog, i, x)
    BY <1>2, <2>3, NeutralWhere DEF Where, There
  <2>. QED  BY <2>4 DEF x, c
<1>3. CASE prog = "p4"
  BY <1>1, <1>3, p4Where
<1>4. CASE prog = "p5"
  BY <1>1, <1>4, p5Where
<1>5. CASE prog = "test"
  BY <1>1, <1>5, testWhere
<1>. QED  BY <1>2, <1>3, <1>4, <1>5

------------------------------------------------------------------------------
\* What a step does to positions, semaphores and queues.

(***************************************************************************)
(* How a process of the test gets from a step to the next: it stays where  *)
(* it is, executes an instruction, is sent back to the WAITCLOCK, or is    *)
(* created.                                                                *)
(***************************************************************************)
Stays(p) == p \in Live /\ pc'[p] = pc[p]

Advances(p) ==
  /\ p \in Live /\ p = currentProcess /\ cpu = "run"
  /\ pc'[p] = <<pc[p][1], pc[p][2] + 1>>

Retries(p) ==
  /\ p \in Live /\ p = currentProcess /\ cpu = "run"
  /\ Instruction(p) = UntilHalf
  /\ pc'[p] = <<pc[p][1], pc[p][2] - 1>>

Starts(p) ==
  /\ p \in pcbFree /\ cpu = "run"
  /\ currentProcess \in Live' /\ Advances(currentProcess)
  /\ p_prnt'[p] = currentProcess
  /\ \E prog \in DOMAIN Code :
       Makes(Instruction(currentProcess), prog) /\ pc'[p] = <<prog, 1>>

Positions ==
  /\ pc \in [Pcb -> (DOMAIN Code) \X Nat] /\ pc' \in [Pcb -> (DOMAIN Code) \X Nat]
  /\ \A p \in Live' : Stays(p) \/ Advances(p) \/ Retries(p) \/ Starts(p)
  /\ \A p, q \in Live' : p \notin Live /\ q \notin Live => p = q

(***************************************************************************)
(* What a step does to a semaphore: nothing that counts, a P or a V.       *)
(***************************************************************************)
Rests(s) == Calm(s) /\ ToSet(procQ'[s]) \subseteq ToSet(procQ[s])

Takes(s) ==
  /\ Instruction(currentProcess) = P(s)
  /\ currentProcess \in Live' /\ Advances(currentProcess)
  /\ semVal'[s] = semVal[s] - 1
  /\ ToSet(procQ[s]) \subseteq ToSet(procQ'[s])
  /\ ToSet(procQ'[s]) \subseteq ToSet(procQ[s]) \cup {currentProcess}
  /\ currentProcess \in ToSet(procQ'[s]) <=> semVal[s] <= 0

Gives(s) ==
  /\ Instruction(currentProcess) = V(s)
  /\ currentProcess \in Live' /\ Advances(currentProcess)
  /\ semVal'[s] = semVal[s] + 1
  /\ ToSet(procQ'[s]) \subseteq ToSet(procQ[s])

(***************************************************************************)
(* Only the process that executes joins a queue, and not by SYS2 or by     *)
(* V(endp4).                                                               *)
(***************************************************************************)
Joins ==
  \A s \in Sem : \A p \in ToSet(procQ'[s]) :
    \/ p \in ToSet(procQ[s])
    \/ Advances(p) /\ Instruction(p) \notin {Exit, V("endp4")}

(***************************************************************************)
(* A process keeps its parent or loses it.                                 *)
(***************************************************************************)
Links == \A p \in Live : p_prnt'[p] \in {p_prnt[p], NULL}

(***************************************************************************)
(* Who has slept while the processor was idle: nobody who just went to     *)
(* sleep, unless the processor idles now, and whoever gets on for it.      *)
(***************************************************************************)
Naps ==
  /\ cpu' # "wait" =>
       \A p \in Live' : p \in idled' =>
         p \in idled /\ ~(Advances(p) /\ Instruction(p) = Clockwait)
  /\ \A p \in Live' : Advances(p) /\ Instruction(p) = UntilHalf => p \in idled

StepFacts ==
  /\ Positions
  /\ \A s \in UserSem : Rests(s) \/ Takes(s) \/ Gives(s)
  /\ Joins /\ Links /\ Naps

(***************************************************************************)
(* The steps of the nucleus by which nobody joins a queue and no link      *)
(* appears in the tree.                                                    *)
(***************************************************************************)
Loosens ==
  /\ \A p \in Pcb : p_prnt'[p] \in {p_prnt[p], NULL}
  /\ \A s \in Sem : ToSet(procQ'[s]) \subseteq ToSet(procQ[s])

(***************************************************************************)
(* The release of a process that has no children left cuts a link of the   *)
(* tree at most.                                                           *)
(***************************************************************************)
LEMMA ReleaseLoosens ==
  ASSUME IInv, currentProcess \in Pcb, ReleaseCurrent \/ terminateProcess
  PROVE  Loosens
<1>1. CASE ReleaseCurrent
  <2>1. UNCHANGED procQ /\ p_prnt' = [p_prnt EXCEPT ![currentProcess] = NULL]
    BY <1>1 DEF ReleaseCurrent, outChildAndFree, semVars
  <2>. QED  BY <2>1 DEF Loosens, IInv, Types
<1>2. CASE UNCHANGED <<procQ, p_prnt>>
  BY <1>2 DEF Loosens
<1>. QED  BY <1>1, <1>2 DEF terminateProcess, treeVars, pcbVars, semVars

(***************************************************************************)
(* A step of sys2Helper cuts links, and takes the process it frees from    *)
(* its queue.                                                              *)
(***************************************************************************)
LEMMA KillLoosens ==
  ASSUME IInv, Sys2Helper
  PROVE  Loosens
<1>0. currentProcess \in Pcb /\ procQ \in [Sem -> Seq(Pcb)] /\ p_prnt \in [Pcb -> Pcb \cup {NULL}]
  BY HeadFacts DEF Sys2Helper, KillChild, KillBlocked, KillStale, KillReady,
     KillCurrent, KillSelf, IInv, Types
<1>1. CASE KillChild
  <2>1. UNCHANGED procQ /\ p_prnt' = [p_prnt EXCEPT ![Head(p_child[head])] = NULL]
    BY <1>1 DEF KillChild, semVars
  <2>. QED  BY <1>0, <2>1 DEF Loosens
<1>2. CASE KillBlocked
  <2>1. PICK s \in Sem : procQ' = [procQ EXCEPT ![s] = outProcQ(@, head)]
    BY <1>2 DEF KillBlocked
  <2>2. UNCHANGED p_prnt
    BY <1>2 DEF KillBlocked, FreeHead
  <2>3. IsInjective(procQ[s])
    BY DEF IInv, Places
  <2>4. ToSet(outProcQ(procQ[s], head)) \subseteq ToSet(procQ[s])
    BY <1>0, <2>3, OutLemma
  <2>. QED  BY <1>0, <2>1, <2>2, <2>4 DEF Loosens
<1>3. CASE KillStale \/ KillReady
  BY <1>3 DEF KillStale, KillReady, FreeHead, treeVars, pcbVars, Loosens
<1>4. CASE KillCurrent
  BY <1>0, <1>4, ReleaseLoosens DEF KillCurrent
<1>. QED  BY <1>1, <1>2, <1>3, <1>4 DEF Sys2Helper

(***************************************************************************)
(* passupOrDie does what SYS2 does, or nothing to queues and tree.         *)
(***************************************************************************)
LEMMA PassupLoosens ==
  ASSUME IInv, passupOrDie
  PROVE  Loosens
<1>1. CASE p_supportStruct[currentProcess]
  BY <1>1 DEF passupOrDie, treeVars, pcbVars, semVars, Loosens
<1>2. CASE ~p_supportStruct[currentProcess]
  BY <1>2, PassupQuiet, ReleaseLoosens DEF passupOrDie
<1>. QED  BY <1>1, <1>2

(***************************************************************************)
(* An interrupt wakes processes up, and adds none to a queue.              *)
(***************************************************************************)
LEMMA InterruptLoosens ==
  ASSUME IInv, TimeSlice \/ ClockTick \/ DeviceInterrupt("terminal")
  PROVE  Loosens
<1>0. procQ \in [Sem -> Seq(Pcb)]
  BY DEF IInv, Types
<1>1. CASE TimeSlice
  BY <1>1 DEF TimeSlice, treeVars, pcbVars, semVars, Loosens
<1>2. CASE ClockTick
  <2>1. UNCHANGED p_prnt /\ procQ' = [procQ EXCEPT ![Clock] = mkEmptyProcQ]
    BY <1>2 DEF ClockTick, treeVars, pcbVars
  <2>2. ToSet(mkEmptyProcQ) = {}
    BY SeqFacts DEF mkEmptyProcQ, ToSet
  <2>. QED  BY <1>0, <2>1, <2>2 DEF Loosens
<1>3. CASE DeviceInterrupt("terminal")
  <2>1. /\ UNCHANGED p_prnt
        /\ \/ procQ' = procQ
           \/ /\ ~emptyProcQ(procQ["terminal"])
              /\ procQ' = [procQ EXCEPT !["terminal"] = removeProcQ(@)]
    BY <1>3 DEF DeviceInterrupt, treeVars, pcbVars
  <2>2. CASE procQ' = procQ
    BY <2>1, <2>2 DEF Loosens
  <2>3. CASE /\ ~emptyProcQ(procQ["terminal"])
             /\ procQ' = [procQ EXCEPT !["terminal"] = removeProcQ(@)]
    <3>1. "terminal" \in Sem /\ IsInjective(procQ["terminal"])
      BY UserSems DEF IInv, Places
    <3>2. ToSet(removeProcQ(procQ["terminal"])) \subseteq ToSet(procQ["terminal"])
      BY <1>0, <2>3, <3>1, RemoveLemma
    <3>. QED  BY <1>0, <2>1, <2>3, <3>1, <3>2 DEF Loosens
  <2>. QED  BY <2>1, <2>2, <2>3
<1>. QED  BY <1>1, <1>2, <1>3

(***************************************************************************)
(* V takes at most one process from the queue.                             *)
(***************************************************************************)
LEMMA VerhogenLoosens ==
  ASSUME IInv, NEW s \in UserSem, Verhogen(s)
  PROVE  Loosens
<1>0. /\ s \in Sem /\ procQ \in [Sem -> Seq(Pcb)] /\ IsInjective(procQ[s])
      /\ UNCHANGED p_prnt
  BY UserSems DEF IInv, Types, Places, Verhogen, treeVars, pcbVars
<1>1. \/ procQ' = procQ
      \/ ~emptyProcQ(procQ[s]) /\ procQ' = [procQ EXCEPT ![s] = removeProcQ(@)]
  BY DEF Verhogen
<1>2. CASE procQ' = procQ
  BY <1>0, <1>2 DEF Loosens
<1>3. CASE ~emptyProcQ(procQ[s]) /\ procQ' = [procQ EXCEPT ![s] = removeProcQ(@)]
  <2>1. ToSet(removeProcQ(procQ[s])) \subseteq ToSet(procQ[s])
    BY <1>0, <1>3, RemoveLemma
  <2>. QED  BY <1>0, <1>3, <2>1 DEF Loosens
<1>. QED  BY <1>1, <1>2, <1>3

(***************************************************************************)
(* P on a semaphore: the process may join its queue.                       *)
(***************************************************************************)
LEMMA BlockQueues ==
  ASSUME IInv, NEW s \in Sem, Passeren(s) \/ WaitFor(s)
  PROVE  /\ UNCHANGED <<p_prnt, pcbFree>> /\ cpu = "run" /\ currentProcess \in Live
         /\ \A t \in Sem : ToSet(procQ[t]) \subseteq ToSet(procQ'[t])
         /\ \A t \in Sem : t # s => procQ'[t] = procQ[t]
         /\ ToSet(procQ'[s]) \subseteq ToSet(procQ[s]) \cup {currentProcess}
         /\ Passeren(s) /\ semVal[s] > 0 => procQ'[s] = procQ[s]
<1>0. /\ procQ \in [Sem -> Seq(Pcb)] /\ semVal[s] \in Int
      /\ UNCHANGED <<p_prnt, pcbFree>> /\ cpu = "run"
      /\ currentProcess \in Pcb /\ currentProcess \in Live
  BY DEF IInv, Types, CpuOK, Places, Live, Passeren, WaitFor, treeVars, pcbVars
<1>1. \/ procQ' = procQ
      \/ procQ' = [procQ EXCEPT ![s] = insertProcQ(@, currentProcess)]
  BY DEF Passeren, WaitFor, Block
<1>2. Passeren(s) /\ semVal[s] > 0 => procQ' = procQ
  <2> HAVE Passeren(s) /\ semVal[s] > 0
  <2>1. ~(semVal[s] - 1 < 0)
    BY <1>0
  <2>. QED  BY <2>1 DEF Passeren
<1>3. ToSet(insertProcQ(procQ[s], currentProcess)) = ToSet(procQ[s]) \cup {currentProcess}
  BY <1>0, InsertLemma
<1>. QED  BY <1>0, <1>1, <1>2, <1>3

(***************************************************************************)
(* The positions after a step in which no process moves, or the current    *)
(* one moves by n.                                                         *)
(***************************************************************************)
LEMMA StayPositions ==
  ASSUME TestInv, pcbFree \subseteq pcbFree', Counters(pc) \/ pc' = pc
  PROVE  Positions /\ \A p \in Live' : Stays(p) /\ ~Advances(p)
<1>1. pc \in [Pcb -> (DOMAIN Code) \X Nat] /\ Nowhere \in (DOMAIN Code) \X Nat
  BY DEF TestInv, Nowhere, Code
<1>2. pc' \in [Pcb -> (DOMAIN Code) \X Nat]
  BY <1>1 DEF Counters
<1>3. ASSUME NEW p \in Live'  PROVE p \in Live /\ p \in Pcb /\ pc'[p] = pc[p]
  BY <1>3 DEF Counters, Live
<1>4. ASSUME NEW p \in Live'  PROVE Stays(p) /\ ~Advances(p)
  <2>1. pc[p] \in (DOMAIN Code) \X Nat
    BY <1>1, <1>3
  <2>2. pc[p][2] \in Nat
    BY <2>1
  <2>3. pc'[p] # <<pc[p][1], pc[p][2] + 1>>
    <3>1. <<pc[p][1], pc[p][2] + 1>>[2] = pc[p][2] + 1
      OBVIOUS
    <3>2. pc[p][2] # pc[p][2] + 1
      BY <2>2
    <3>. QED  BY <1>3, <3>1, <3>2
  <2>. QED  BY <1>3, <2>3 DEF Stays, Advances
<1>. QED  BY <1>1, <1>2, <1>3, <1>4 DEF Positions

(***************************************************************************)
(* The current process gets on by one instruction.                         *)
(***************************************************************************)
LEMMA MovePositions ==
  ASSUME IInv, TestInv, cpu = "run", pcbFree \subseteq pcbFree',
         pc' = Jump(1) \/ Counters(Jump(1))
  PROVE  /\ Positions
         /\ currentProcess \in Live' => Advances(currentProcess)
<1>c. PICK c \in Pcb : c = currentProcess /\ c \in Live
  BY Executing
<1>1. /\ pc \in [Pcb -> (DOMAIN Code) \X Nat] /\ 1 \in Int
      /\ pc[c][2] + 1 \in Nat
  <2>1. pc[c] \in (DOMAIN Code) \X Nat
    BY DEF TestInv
  <2>2. pc[c][2] \in Nat
    BY <2>1
  <2>. QED  BY <2>2 DEF TestInv
<1>2. /\ pc' \in [Pcb -> (DOMAIN Code) \X Nat]
      /\ \A p \in Live' : p # c => pc'[p] = pc[p]
      /\ c \in Live' => pc'[c][1] = pc[c][1] /\ pc'[c][2] = pc[c][2] + 1
  BY <1>c, <1>1, JumpLemma
<1>3. \A p \in Live' : p \in Live
  BY DEF Live
<1>4. c \in Live' => Advances(currentProcess)
  <2> HAVE c \in Live'
  <2>1. pc'[c] \in (DOMAIN Code) \X Nat
    BY <1>2
  <2>2. pc'[c] = <<pc[c][1], pc[c][2] + 1>>
    BY <1>2, <2>1
  <2>. QED  BY <1>c, <2>2 DEF Advances
<1>5. \A p \in Live' : Stays(p) \/ Advances(p)
  BY <1>c, <1>2, <1>3, <1>4 DEF Stays
<1>. QED  BY <1>c, <1>1, <1>2, <1>3, <1>4, <1>5 DEF Positions

(***************************************************************************)
(* It goes back to the WAITCLOCK: then nobody gets on.                     *)
(***************************************************************************)
LEMMA BackPositions ==
  ASSUME IInv, TestInv, HalfNotPassed
  PROVE  Positions /\ \A p \in Live' : ~Advances(p)
<1>0. cpu = "run" /\ Instruction(currentProcess) = UntilHalf /\ pc' = Jump(-1)
      /\ UNCHANGED pcbFree
  BY DEF HalfNotPassed, vars
<1>c. PICK c \in Pcb : c = currentProcess /\ c \in Live
  BY <1>0, Executing
<1> DEFINE prog == pc[c][1]
           i == pc[c][2]
<1>1. /\ prog \in DOMAIN Code /\ i \in 1 .. Len(Code[prog])
      /\ Code[prog][i] = UntilHalf
  BY <1>c, <1>0, Executing DEF Instruction
<1>2. i \in Nat /\ i + (-1) \in Nat /\ i + (-1) = i - 1 /\ i # (i - 1) - 1 /\ i - 1 # i + 1
  BY <1>1
<1>3. pc \in [Pcb -> (DOMAIN Code) \X Nat] /\ -1 \in Int
  BY DEF TestInv
<1>4. /\ pc' \in [Pcb -> (DOMAIN Code) \X Nat]
      /\ \A p \in Live' : p # c => pc'[p] = pc[p]
      /\ c \in Live' => pc'[c][1] = prog /\ pc'[c][2] = i - 1
  BY <1>c, <1>0, <1>2, <1>3, JumpLemma
<1>5. \A p \in Live' : p \in Live
  BY <1>0 DEF Live
<1>6. c \in Live'
  BY <1>c, <1>0 DEF Live
<1>7. pc'[c] = <<prog, i - 1>>
  <2>1. pc'[c] \in (DOMAIN Code) \X Nat
    BY <1>4
  <2>. QED  BY <1>4, <1>6, <2>1
<1>8. Retries(c)
  BY <1>c, <1>0, <1>7 DEF Retries
<1>9. \A p \in Live' : Stays(p) \/ Retries(p)
  BY <1>4, <1>5, <1>8 DEF Stays
<1>10. ~Advances(c)
  BY <1>2, <1>4, <1>6, <1>c DEF Advances
<1>11. \A p \in Live' : ~Advances(p)
  BY <1>10, <1>c DEF Advances
<1>. QED  BY <1>3, <1>4, <1>5, <1>9, <1>11 DEF Positions

(***************************************************************************)
(* The facts hold in every step: in one of the kernel, ...                 *)
(***************************************************************************)
LEMMA LoosensFacts ==
  ASSUME Loosens, Quiet
  PROVE  (\A s \in UserSem : Rests(s)) /\ Joins /\ Links
  BY UserSems DEF Loosens, Quiet, Rests, Joins, Links, Live

(***************************************************************************)
(* A step of the kernel alone leaves every process at its instruction.     *)
(***************************************************************************)
LEMMA KernelFacts ==
  ASSUME TestInv, Loosens, Quiet, Counters(pc) \/ pc' = pc,
         Sleepers(idled) \/ idled' = idled
  PROVE  StepFacts
<1>1. Positions /\ \A p \in Live' : Stays(p) /\ ~Advances(p)
  BY StayPositions DEF Quiet, Grows
<1>2. cpu' # "wait" => \A p \in Live' : p \in idled' => p \in idled
  BY DEF Sleepers
<1>3. Naps
  BY <1>1, <1>2 DEF Naps
<1>. QED  BY <1>1, <1>3, LoosensFacts DEF StepFacts

(***************************************************************************)
(* ... in one by which a process gets on with its program, ...             *)
(***************************************************************************)
LEMMA QuietFacts ==
  ASSUME IInv, TestInv, cpu = "run", Loosens, Quiet, Counters(Jump(1)), Sleepers(idled),
         Instruction(currentProcess) \notin {Clockwait, UntilHalf}
  PROVE  StepFacts
<1>1. Positions
  BY MovePositions DEF Quiet, Grows
<1>2. cpu' # "wait" => \A p \in Live' : p \in idled' => p \in idled
  BY DEF Sleepers
<1>3. Naps
  BY <1>2 DEF Naps, Advances
<1>. QED  BY <1>1, <1>3, LoosensFacts DEF StepFacts

(***************************************************************************)
(* P takes one from the semaphore, and blocks if nothing was left.         *)
(***************************************************************************)
LEMMA PasserenTakes ==
  ASSUME IInv, TestInv, NEW s \in UserSem, Passeren(s),
         Instruction(currentProcess) = P(s), Counters(Jump(1)), Sleepers(idled)
  PROVE  Takes(s)
<1>0. /\ s \in Sem /\ UserSem \subseteq Sem
      /\ semVal[s] \in Int
  BY UserSems DEF IInv, Types
<1>1. /\ UNCHANGED <<p_prnt, pcbFree>> /\ cpu = "run" /\ currentProcess \in Live
      /\ \A t \in Sem : ToSet(procQ[t]) \subseteq ToSet(procQ'[t])
      /\ \A t \in Sem : t # s => procQ'[t] = procQ[t]
      /\ ToSet(procQ'[s]) \subseteq ToSet(procQ[s]) \cup {currentProcess}
      /\ semVal[s] > 0 => procQ'[s] = procQ[s]
  BY <1>0, BlockQueues
<1>2. /\ semVal'[s] = semVal[s] - 1
      /\ semVal[s] <= 0 => currentProcess \in ToSet(procQ'[s])
      /\ \A u \in UserSem : u # s => Calm(u)
  BY PasserenEffect
<1>3. currentProcess \in Live'
  BY <1>1 DEF Live
<1>4. Positions /\ Advances(currentProcess)
  BY <1>1, <1>3, MovePositions
<1>5. currentProcess \notin ToSet(procQ[s])
  BY <1>0, <1>1, Executing
<1>6. Takes(s)
  <2>1. currentProcess \in ToSet(procQ'[s]) <=> semVal[s] <= 0
    <3>1. CASE semVal[s] <= 0
      BY <1>2, <3>1
    <3>2. CASE semVal[s] > 0
      <4>1. ~(semVal[s] <= 0)
        BY <1>0, <3>2
      <4>. QED  BY <1>1, <1>5, <3>2, <4>1
    <3>. QED  BY <1>0, <3>1, <3>2
  <2>. QED  BY <1>0, <1>1, <1>2, <1>3, <1>4, <2>1 DEF Takes
<1>. QED  BY <1>6

(***************************************************************************)
(* The facts hold for P ...                                                *)
(***************************************************************************)
LEMMA PasserenFacts ==
  ASSUME IInv, TestInv, NEW s \in UserSem, Passeren(s),
         Instruction(currentProcess) = P(s), Counters(Jump(1)), Sleepers(idled)
  PROVE  StepFacts
<1>0. /\ s \in Sem /\ UserSem \subseteq Sem
      /\ semVal[s] \in Int
  BY UserSems DEF IInv, Types
<1>1. /\ UNCHANGED <<p_prnt, pcbFree>> /\ cpu = "run" /\ currentProcess \in Live
      /\ \A t \in Sem : ToSet(procQ[t]) \subseteq ToSet(procQ'[t])
      /\ \A t \in Sem : t # s => procQ'[t] = procQ[t]
      /\ ToSet(procQ'[s]) \subseteq ToSet(procQ[s]) \cup {currentProcess}
      /\ semVal[s] > 0 => procQ'[s] = procQ[s]
  BY <1>0, BlockQueues
<1>2. /\ semVal'[s] = semVal[s] - 1
      /\ semVal[s] <= 0 => currentProcess \in ToSet(procQ'[s])
      /\ \A u \in UserSem : u # s => Calm(u)
  BY PasserenEffect
<1>3. currentProcess \in Live'
  BY <1>1 DEF Live
<1>4. Positions /\ Advances(currentProcess)
  BY <1>1, <1>3, MovePositions
<1>6. Takes(s)
  BY PasserenTakes
<1>7. \A t \in UserSem : Rests(t) \/ Takes(t) \/ Gives(t)
  BY <1>0, <1>1, <1>2, <1>6 DEF Rests
<1>8. P(s) \notin {Exit, Clockwait, UntilHalf, V("endp4")}
  BY Apart
<1>9. Joins
  BY <1>0, <1>1, <1>4, <1>8 DEF Joins
<1>10. Naps
  <2>1. cpu' # "wait" => \A p \in Live' : p \in idled' => p \in idled
    BY DEF Sleepers
  <2>. QED  BY <1>8, <2>1 DEF Naps, Advances
<1>. QED  BY <1>1, <1>4, <1>7, <1>9, <1>10 DEF StepFacts, Links

(***************************************************************************)
(* ... for V ...                                                           *)
(***************************************************************************)
LEMMA VerhogenFacts ==
  ASSUME IInv, TestInv, NEW s \in UserSem, Verhogen(s),
         Instruction(currentProcess) = V(s), Counters(Jump(1)), Sleepers(idled)
  PROVE  StepFacts
<1>0. UserSem \subseteq Sem /\ cpu = "run" /\ UNCHANGED pcbFree
  BY UserSems DEF Verhogen, treeVars, pcbVars
<1>1. /\ semVal'[s] = semVal[s] + 1
      /\ \A u \in UserSem : u # s => Calm(u)
  BY VerhogenEffect
<1>2. Loosens
  BY VerhogenLoosens
<1>3. currentProcess \in Live'
  BY <1>0, Executing DEF Live
<1>4. Positions /\ Advances(currentProcess)
  BY <1>0, <1>3, MovePositions
<1>5. Gives(s)
  BY <1>0, <1>1, <1>2, <1>3, <1>4 DEF Gives, Loosens
<1>6. \A t \in UserSem : Rests(t) \/ Takes(t) \/ Gives(t)
  BY <1>0, <1>1, <1>2, <1>5 DEF Rests, Loosens
<1>7. V(s) \notin {Exit, Clockwait, UntilHalf}
  BY Apart
<1>8. Joins /\ Links
  BY <1>2 DEF Loosens, Joins, Links, Live
<1>9. Naps
  <2>1. cpu' # "wait" => \A p \in Live' : p \in idled' => p \in idled
    BY DEF Sleepers
  <2>. QED  BY <1>7, <2>1 DEF Naps, Advances
<1>. QED  BY <1>4, <1>6, <1>8, <1>9 DEF StepFacts

(***************************************************************************)
(* ... and for WAITIO and WAITCLOCK.                                       *)
(***************************************************************************)
LEMMA WaitFacts ==
  ASSUME IInv, TestInv, NEW s \in DeviceSem, WaitFor(s),
         Counters(Jump(1)),
         \/ Sleepers(idled) /\ Instruction(currentProcess) = Wait
         \/ Sleepers(idled \ {currentProcess}) /\ Instruction(currentProcess) = Clockwait
  PROVE  StepFacts
<1>0. s \in Sem /\ UserSem \subseteq Sem /\ s \notin UserSem
  BY UserSems
<1>1. /\ UNCHANGED <<p_prnt, pcbFree>> /\ cpu = "run" /\ currentProcess \in Live
      /\ \A t \in Sem : t # s => procQ'[t] = procQ[t]
      /\ ToSet(procQ'[s]) \subseteq ToSet(procQ[s]) \cup {currentProcess}
  BY <1>0, BlockQueues
<1>2. Quiet
  BY WaitQuiet
<1>3. currentProcess \in Live'
  BY <1>1 DEF Live
<1>4. Positions /\ Advances(currentProcess)
  BY <1>1, <1>3, MovePositions
<1>5. \A t \in UserSem : Rests(t)
  BY <1>0, <1>1, <1>2 DEF Rests, Quiet
<1>6. /\ Wait # Clockwait /\ Wait # Exit /\ Wait # UntilHalf
      /\ Clockwait # Exit /\ Clockwait # UntilHalf
      /\ Wait # V("endp4") /\ Clockwait # V("endp4")
  BY Apart
<1>7. Joins
  BY <1>0, <1>1, <1>4, <1>6 DEF Joins
<1>8. Naps
  <2>1. cpu' # "wait" => \A p \in Live' : p \in idled' => p \in idled
    BY DEF Sleepers
  <2>2. Instruction(currentProcess) = Clockwait /\ cpu' # "wait"
          => currentProcess \notin idled'
    BY <1>6 DEF Sleepers
  <2>. QED  BY <1>6, <2>1, <2>2 DEF Naps, Advances
<1>. QED  BY <1>1, <1>4, <1>5, <1>7, <1>8 DEF StepFacts, Links

(***************************************************************************)
(* They hold for the instructions of RunSimple ...                         *)
(***************************************************************************)
LEMMA SimpleFacts ==
  ASSUME IInv, TestInv, cpu = "run", RunSimple
  PROVE  StepFacts
<1> DEFINE x == Instruction(currentProcess)
<1>0. Simple(x) /\ Counters(Jump(1)) /\ Sleepers(idled)
  BY DEF RunSimple
<1>c. currentProcess \in Pcb
  BY Executing
<1>1. {Exit, Trap, Store, Char, Wait} \cap {Clockwait, UntilHalf} = {}
  BY Apart
<1> HIDE DEF x
<1>2. CASE x = Exit /\ TerminateProcess
  <2>1. terminateProcess
    BY <1>2 DEF TerminateProcess
  <2>2. Quiet /\ Loosens
    BY <1>c, <2>1, TerminateQuiet, ReleaseLoosens
  <2>. QED  BY <1>0, <1>1, <1>2, <2>2, QuietFacts DEF x
<1>3. CASE x \in {Trap, Store} /\ passupOrDie
  <2>1. Quiet /\ Loosens
    BY <1>3, PassupQuiet, PassupLoosens
  <2>. QED  BY <1>0, <1>1, <1>3, <2>1, QuietFacts DEF x
<1>4. CASE x = Char /\ Command("terminal")
  <2>1. Quiet
    BY <1>4, CommandQuiet
  <2>2. Loosens
    BY <1>4 DEF Command, treeVars, pcbVars, semVars, Loosens
  <2>. QED  BY <1>0, <1>1, <1>4, <2>1, <2>2, QuietFacts DEF x
<1>5. CASE x = Wait /\ WaitForIO("terminal")
  BY <1>0, <1>5, WaitFacts, UserSems DEF WaitForIO, x
<1>6. ASSUME NEW s \in UserSem, x = P(s), Passeren(s)  PROVE StepFacts
  BY <1>0, <1>6, PasserenFacts DEF x
<1>7. ASSUME NEW s \in UserSem, x = V(s), Verhogen(s)  PROVE StepFacts
  BY <1>0, <1>7, VerhogenFacts DEF x
<1>. QED  BY <1>0, <1>2, <1>3, <1>4, <1>5, <1>6, <1>7 DEF Simple, InvalidEntry

(***************************************************************************)
(* ... for what follows a WAITCLOCK, and for the refill ...                *)
(***************************************************************************)
LEMMA HalfFacts ==
  ASSUME IInv, TestInv, HalfPassed \/ HalfNotPassed \/ RefillAgain
  PROVE  StepFacts
<1>0. UNCHANGED <<pcbFree, p_child, p_supportStruct, p_prnt, semVal, procQ, cpu>>
  BY DEF HalfPassed, HalfNotPassed, RefillAgain, vars
<1>1. Quiet /\ Loosens
  BY <1>0, SemsUnchanged DEF Quiet, Grows, Loosens
<1>2. CASE HalfPassed
  <2>1. /\ cpu = "run" /\ Instruction(currentProcess) = UntilHalf
        /\ currentProcess \in idled /\ pc' = Jump(1)
        /\ idled' = idled \ {currentProcess}
    BY <1>2 DEF HalfPassed
  <2>2. Positions
    BY <1>0, <2>1, MovePositions
  <2>3. UntilHalf # Clockwait
    BY Apart
  <2>4. Naps
    BY <2>1, <2>3 DEF Naps, Advances
  <2>. QED  BY <1>1, <2>2, <2>4, LoosensFacts DEF StepFacts
<1>3. CASE HalfNotPassed
  <2>1. Positions /\ \A p \in Live' : ~Advances(p)
    BY <1>3, BackPositions
  <2>2. Naps
    BY <1>3, <2>1 DEF Naps, HalfNotPassed
  <2>. QED  BY <1>1, <2>1, <2>2, LoosensFacts DEF StepFacts
<1>4. CASE RefillAgain
  BY <1>1, <1>4, KernelFacts DEF RefillAgain
<1>. QED  BY <1>2, <1>3, <1>4

(***************************************************************************)
(* ... for SYS1, whose new process starts at its first instruction, as the *)
(* child of the one that executes ...                                      *)
(***************************************************************************)
LEMMA CreateStepFacts ==
  ASSUME IInv, TestInv, cpu = "run",
         NEW prog \in DOMAIN Code, NEW sup \in BOOLEAN,
         Instruction(currentProcess) = Create(prog, sup), RunCreate(prog, sup)
  PROVE  StepFacts
<1>c. PICK c \in Pcb : c = currentProcess /\ c \in Live
  BY Executing
<1> DEFINE new == pcbFree \ pcbFree'
           at == [p \in Pcb |-> IF p \in new THEN Start(prog) ELSE Jump(1)[p]]
<1>0. /\ CreateProcess(sup) /\ Sleepers(idled)
      /\ pc' = [p \in Pcb |-> IF p \in pcbFree' THEN Nowhere ELSE at[p]]
  BY DEF RunCreate, Counters
<1>1. Makes(Instruction(currentProcess), prog)
  BY Zenon DEF Makes
<1>2. Instruction(currentProcess) \notin {Clockwait, UntilHalf}
  BY <1>1, MakesFacts
<1>3. Naps
  <2>1. cpu' # "wait" => \A p \in Live' : p \in idled' => p \in idled
    BY <1>0 DEF Sleepers
  <2>. QED  BY <1>2, <2>1 DEF Naps, Advances
<1>4. CASE UNCHANGED <<treeVars, semVars>>
  <2>1. UNCHANGED <<pcbFree, p_child, p_supportStruct, p_prnt, semVal, procQ>>
    BY <1>4 DEF treeVars, pcbVars, semVars
  <2>2. Quiet /\ Loosens
    BY <2>1, SemsUnchanged DEF Quiet, Grows, Loosens
  <2>3. Counters(Jump(1))
    BY <1>0, <2>1 DEF Counters
  <2>. QED  BY <1>0, <1>2, <2>2, <2>3, QuietFacts
<1>5. ASSUME NEW son \in pcbFree,
             /\ pcbFree' = pcbFree \ {son}
             /\ p_prnt' = [p_prnt EXCEPT ![son] = currentProcess]
             /\ UNCHANGED <<semVal, procQ, currentProcess, cpu>>
      PROVE  StepFacts
  <2>0. p_prnt \in [Pcb -> Pcb \cup {NULL}] /\ son \in Pcb /\ son # c
    BY <1>c, <1>5 DEF IInv, Types, Live
  <2>1. new = {son} /\ \A p \in Live' : p \in Pcb /\ (p \in Live \/ p = son)
    BY <1>5, <2>0 DEF Live
  <2>2. /\ pc \in [Pcb -> (DOMAIN Code) \X Nat] /\ 1 \in Int /\ pc[c][2] + 1 \in Nat
    <3>1. pc[c] \in (DOMAIN Code) \X Nat
      BY DEF TestInv
    <3>2. pc[c][2] \in Nat
      BY <3>1
    <3>. QED  BY <3>2 DEF TestInv
  <2>3. /\ Jump(1) \in [Pcb -> (DOMAIN Code) \X Nat]
        /\ \A p \in Pcb : p # c => Jump(1)[p] = pc[p]
        /\ Jump(1)[c] = <<pc[c][1], pc[c][2] + 1>>
    BY <1>c, <2>2, JumpFacts
  <2>4. Nowhere \in (DOMAIN Code) \X Nat /\ Start(prog) \in (DOMAIN Code) \X Nat
    BY DEF Nowhere, Start, Code
  <2>5. pc' \in [Pcb -> (DOMAIN Code) \X Nat]
    BY <1>0, <2>3, <2>4
  <2>6. /\ pc'[son] = <<prog, 1>>
        /\ pc'[c] = <<pc[c][1], pc[c][2] + 1>>
        /\ \A p \in Live' : p # c /\ p # son => pc'[p] = pc[p]
    BY <1>0, <1>c, <1>5, <2>0, <2>1, <2>3 DEF Live, Start
  <2>7. currentProcess \in Live' /\ Advances(currentProcess)
    BY <1>c, <1>5, <2>0, <2>6 DEF Advances, Live
  <2>8. Starts(son)
    <3>1. p_prnt'[son] = currentProcess
      BY <1>5, <2>0
    <3>. QED  BY <1>1, <2>6, <2>7, <3>1 DEF Starts
  <2>9. ASSUME NEW p \in Live'
        PROVE  Stays(p) \/ Advances(p) \/ Starts(p)
    BY <1>c, <2>1, <2>6, <2>7, <2>8, <2>9 DEF Stays
  <2>10. Positions
    BY <2>1, <2>2, <2>5, <2>9 DEF Positions
  <2>11. (\A s \in UserSem : Rests(s)) /\ Joins
    BY <1>5 DEF Rests, Calm, Joins
  <2>12. Links
    BY <1>5, <2>0 DEF Links, Live
  <2>. QED  BY <1>3, <2>10, <2>11, <2>12 DEF StepFacts
<1>6. \/ UNCHANGED <<treeVars, semVars>>
      \/ \E son \in pcbFree :
             /\ pcbFree' = pcbFree \ {son}
             /\ p_prnt' = [p_prnt EXCEPT ![son] = currentProcess]
             /\ UNCHANGED <<semVal, procQ, currentProcess, cpu>>
  BY <1>0, Zenon DEF CreateProcess
<1>. QED  BY <1>4, <1>5, <1>6

(***************************************************************************)
(* ... and so in every step of the test.                                   *)
(***************************************************************************)
LEMMA TestStepFacts ==
  ASSUME IInv, TestInv, [TestNext]_allVars
  PROVE  StepFacts
<1>1. CASE Execute
  <2>0. cpu = "run"
    BY <1>1 DEF Execute
  <2>1. CASE RunSimple
    BY <2>0, <2>1, SimpleFacts
  <2>2. CASE RunClockwait
    BY <2>2, WaitFacts, UserSems DEF RunClockwait, WaitForClock
  <2>3. CASE HalfPassed \/ HalfNotPassed \/ RefillAgain
    BY <2>3, HalfFacts
  <2>4. ASSUME NEW prog \in DOMAIN Code, NEW sup \in BOOLEAN,
               Instruction(currentProcess) = Create(prog, sup), RunCreate(prog, sup)
        PROVE  StepFacts
    BY <2>0, <2>4, CreateStepFacts
  <2>. QED  BY <1>1, <2>1, <2>2, <2>3, <2>4 DEF Execute
<1>2. CASE Terminating
  BY <1>2, KillQuiet, KillLoosens, KernelFacts DEF Terminating, Kernel
<1>3. CASE BusError
  BY <1>3, PassupQuiet, PassupLoosens, KernelFacts DEF BusError, Kernel
<1>4. CASE Tick \/ Sent \/ Preempt
  BY <1>4, InterruptQuiet, InterruptLoosens, KernelFacts
     DEF Tick, Sent, Preempt, Kernel
<1>5. CASE Halted \/ UNCHANGED allVars
  <2>1. UNCHANGED <<vars, pc, idled>>
    BY <1>5 DEF Halted, Stopped, allVars
  <2>2. UNCHANGED <<pcbFree, p_child, p_supportStruct, p_prnt, semVal, procQ>>
    BY <2>1 DEF vars
  <2>3. Quiet /\ Loosens
    BY <2>2, SemsUnchanged DEF Quiet, Grows, Loosens
  <2>. QED  BY <2>1, <2>3, KernelFacts
<1>. QED  BY <1>1, <1>2, <1>3, <1>4, <1>5 DEF TestNext

------------------------------------------------------------------------------
\* The root stays.

(***************************************************************************)
(* A process that SYS2 does not have in hand.                              *)
(***************************************************************************)
Safe(r) ==
  /\ r \in Live
  /\ cpu \in {"kill", "trap"} => r # currentProcess /\ r \notin ToSet(heads)

(***************************************************************************)
(* A root stays safe: when another process terminates, by SYS2 or by an    *)
(* exception it has no handler for, ...                                    *)
(***************************************************************************)
LEMMA ReleaseSafe ==
  ASSUME NEW r, r \in Live, r # currentProcess, ReleaseCurrent \/ terminateProcess
  PROVE  Safe(r)'
<1>1. CASE ReleaseCurrent
  <2>1. cpu' \notin {"kill", "trap"}
    BY <1>1, ScheduledCpu DEF ReleaseCurrent
  <2>2. pcbFree' = pcbFree \cup {currentProcess}
    BY <1>1 DEF ReleaseCurrent, outChildAndFree
  <2>. QED  BY <2>1, <2>2 DEF Safe, Live
<1>2. CASE /\ heads' = <<currentProcess>>
           /\ UNCHANGED <<pcbFree, currentProcess>>
  <2>1. ToSet(<<currentProcess>>) = {currentProcess}
    BY DEF ToSet
  <2>. QED  BY <1>2, <2>1 DEF Safe, Live
<1>. QED  BY <1>1, <1>2 DEF terminateProcess, treeVars, pcbVars

(***************************************************************************)
(* ... when sys2Helper goes on: it calls itself for a child, and a root is *)
(* none, ...                                                               *)
(***************************************************************************)
LEMMA KillSafe ==
  ASSUME IInv, NEW r, Safe(r), p_prnt[r] = NULL, Sys2Helper
  PROVE  Safe(r)'
<1>0. /\ cpu = "kill" /\ currentProcess \in Pcb /\ head \in Pcb
      /\ heads \in Seq(Pcb) /\ heads # <<>> /\ head = heads[Len(heads)]
      /\ p_child \in [Pcb -> Seq(Pcb)] /\ NULL \notin Pcb
  BY HeadFacts, PcbAssumption DEF Sys2Helper, KillChild, KillBlocked, KillStale,
     KillReady, KillCurrent, KillSelf, IInv, Types, CpuOK
<1>1. r \in Live /\ r # currentProcess /\ r \notin ToSet(heads) /\ r # head
  <2>1. head \in ToSet(heads)
    <3>1. Len(heads) \in 1 .. Len(heads)
      BY <1>0
    <3>. QED  BY <1>0, <3>1, SeqFacts DEF ToSet
  <2>. QED  BY <1>0, <2>1 DEF Safe
<1>2. CASE KillChild
  <2> DEFINE son == Head(p_child[head])
  <2>1. /\ p_child[head] # <<>> /\ heads' = Append(heads, son)
        /\ UNCHANGED <<pcbFree, currentProcess>>
    BY <1>2 DEF KillChild
  <2>2. son \in ToSet(p_child[head]) /\ son \in Pcb
    BY <1>0, <2>1, SeqFacts DEF ToSet
  <2>3. p_prnt[son] = head
    BY <1>0, <2>2 DEF IInv, Tree
  <2>4. son # r
    BY <1>0, <2>3
  <2> HIDE DEF son
  <2>5. ToSet(heads') = ToSet(heads) \cup {son}
    BY <1>0, <2>1, <2>2, InsertLemma DEF insertProcQ
  <2>. QED  BY <1>1, <2>1, <2>4, <2>5 DEF Safe, Live
<1>3. CASE KillBlocked \/ KillReady
  <2>1. pcbFree' = pcbFree \cup {head} /\ heads' = Front(heads) /\ UNCHANGED currentProcess
    BY <1>3 DEF KillBlocked, KillReady, FreeHead
  <2>2. ToSet(Front(heads)) \subseteq ToSet(heads)
    <3> DEFINE n == Len(heads)
    <3>1. n \in Nat \ {0}
      BY <1>0
    <3>2. Front(heads) = [i \in 1 .. n - 1 |-> heads[i]]
      BY <1>0, <3>1 DEF Front
    <3>3. \A i \in 1 .. n - 1 : i \in 1 .. n
      BY <3>1
    <3>. QED  BY <1>0, <3>2, <3>3 DEF ToSet
  <2>. QED  BY <1>1, <2>1, <2>2 DEF Safe, Live
<1>4. CASE KillStale
  <2>1. heads' = <<>> /\ UNCHANGED <<pcbFree, currentProcess>>
    BY <1>4 DEF KillStale, treeVars, pcbVars
  <2>2. ToSet(<<>>) = {}
    BY DEF ToSet
  <2>. QED  BY <1>1, <2>1, <2>2 DEF Safe, Live
<1>5. CASE KillCurrent
  BY <1>1, <1>5, ReleaseSafe DEF KillCurrent
<1>. QED  BY <1>2, <1>3, <1>4, <1>5 DEF Sys2Helper

(***************************************************************************)
(* ... when an exception is passed up or kills, ...                        *)
(***************************************************************************)
LEMMA PassupSafe ==
  ASSUME NEW r, r \in Live, r # currentProcess, passupOrDie
  PROVE  Safe(r)'
<1>1. CASE p_supportStruct[currentProcess]
  <2>1. cpu' = "run" /\ UNCHANGED pcbFree
    BY <1>1 DEF passupOrDie, treeVars, pcbVars
  <2>. QED  BY <2>1 DEF Safe, Live
<1>2. CASE ~p_supportStruct[currentProcess]
  BY <1>2, ReleaseSafe DEF passupOrDie
<1>. QED  BY <1>1, <1>2

(***************************************************************************)
(* ... and when none does.                                                 *)
(***************************************************************************)
LEMMA OtherSafe ==
  ASSUME NEW r, r \in Live, pcbFree' \subseteq pcbFree, cpu' \notin {"kill", "trap"}
  PROVE  Safe(r)'
  BY DEF Safe, Live

(***************************************************************************)
(* P, V and the waits terminate nobody.                                    *)
(***************************************************************************)
LEMMA SemaphoreSafe ==
  ASSUME NEW r, r \in Live, NEW s, Passeren(s) \/ WaitFor(s) \/ Verhogen(s)
  PROVE  Safe(r)'
<1>1. UNCHANGED pcbFree /\ cpu = "run"
  BY DEF Passeren, WaitFor, Verhogen, treeVars, pcbVars
<1>2. cpu' = cpu \/ cpu' = "lost" \/ Block(s)
  BY DEF Passeren, WaitFor, Verhogen
<1>3. Block(s) => cpu' \notin {"kill", "trap"}
  BY ScheduledCpu DEF Block
<1>. QED  BY <1>1, <1>2, <1>3, OtherSafe

(***************************************************************************)
(* So a root that does not end itself is never in the hands of SYS2: it    *)
(* outlives the step.                                                      *)
(***************************************************************************)
LEMMA RootSafe ==
  ASSUME IInv, TestInv, NEW r, Safe(r), p_prnt[r] = NULL, [TestNext]_allVars,
         cpu = "run" /\ currentProcess = r
           => Instruction(currentProcess) \notin {Exit, Trap, Store}
  PROVE  Safe(r)'
<1>0. r \in Live
  BY DEF Safe
<1>1. CASE RunSimple /\ cpu = "run"
  <2> DEFINE x == Instruction(currentProcess)
  <2>0. Simple(x)
    BY <1>1 DEF RunSimple
  <2>1. x \in {Exit, Trap, Store} => r # currentProcess
    BY <1>1
  <2> HIDE DEF x
  <2>2. CASE x = Exit /\ TerminateProcess
    BY <1>0, <2>1, <2>2, ReleaseSafe DEF TerminateProcess
  <2>3. CASE x \in {Trap, Store} /\ passupOrDie
    BY <1>0, <2>1, <2>3, PassupSafe
  <2>4. CASE Command("terminal")
    BY <1>0, <2>4, OtherSafe DEF Command, treeVars, pcbVars
  <2>5. CASE WaitForIO("terminal")
    BY <1>0, <2>5, SemaphoreSafe DEF WaitForIO
  <2>6. CASE \E s \in UserSem : Passeren(s) \/ Verhogen(s)
    BY <1>0, <2>6, SemaphoreSafe
  <2>. QED  BY <2>0, <2>2, <2>3, <2>4, <2>5, <2>6 DEF Simple, InvalidEntry
<1>2. CASE RunClockwait
  BY <1>0, <1>2, SemaphoreSafe DEF RunClockwait, WaitForClock
<1>3. CASE cpu = "run" /\ (HalfPassed \/ HalfNotPassed \/ RefillAgain)
  <2>1. UNCHANGED <<pcbFree, cpu>>
    BY <1>3 DEF HalfPassed, HalfNotPassed, RefillAgain, vars
  <2>. QED  BY <1>0, <1>3, <2>1, OtherSafe
<1>4. ASSUME NEW prog, NEW sup, RunCreate(prog, sup)  PROVE Safe(r)'
  <2>1. /\ cpu = "run" /\ cpu' = cpu
        /\ UNCHANGED treeVars \/ \E son \in pcbFree : pcbFree' = pcbFree \ {son}
    BY <1>4 DEF RunCreate, CreateProcess
  <2>2. pcbFree' \subseteq pcbFree
    BY <2>1 DEF treeVars, pcbVars
  <2>. QED  BY <1>0, <2>1, <2>2, OtherSafe
<1>5. CASE Execute
  BY <1>1, <1>2, <1>3, <1>4, <1>5 DEF Execute
<1>6. CASE Terminating
  BY <1>6, KillSafe DEF Terminating, Kernel
<1>7. CASE BusError
  <2>1. r # currentProcess
    BY <1>7 DEF BusError, Safe
  <2>. QED  BY <1>0, <1>7, <2>1, PassupSafe DEF BusError, Kernel
<1>8. CASE Tick \/ Sent \/ Preempt
  <2>1. TimeSlice \/ ClockTick \/ DeviceInterrupt("terminal")
    BY <1>8 DEF Tick, Sent, Preempt, Kernel
  <2>2. UNCHANGED pcbFree /\ cpu \notin {"kill", "trap"}
    BY <2>1 DEF TimeSlice, ClockTick, DeviceInterrupt, Enabled, treeVars, pcbVars
  <2>3. cpu' \notin {"kill", "trap"}
    BY <2>1, <2>2, ScheduledCpu, LoadedCpu DEF TimeSlice, ClockTick, DeviceInterrupt
  <2>. QED  BY <1>0, <2>2, <2>3, OtherSafe
<1>9. CASE Halted \/ UNCHANGED allVars
  BY <1>9 DEF Halted, Stopped, allVars, vars, Safe, Live
<1>. QED  BY <1>5, <1>6, <1>7, <1>8, <1>9 DEF TestNext

------------------------------------------------------------------------------
\* Positions from step to step.

(***************************************************************************)
(* A process that gets on with P(s) takes from s.                          *)
(***************************************************************************)
LEMMA WinsLemma ==
  ASSUME IInv, TestInv, [TestNext]_allVars, NEW p \in Live', Advances(p),
         NEW s \in UserSem, Instruction(p) = P(s)
  PROVE  Takes(s)
<1>0. /\ p = currentProcess /\ cpu = "run" /\ p \in Pcb
      /\ pc'[p] = <<pc[p][1], pc[p][2] + 1>>
  BY DEF Advances, Live
<1>1. pc'[p] # pc[p]
  <2>1. pc[p] \in (DOMAIN Code) \X Nat
    BY <1>0 DEF TestInv
  <2>2. pc[p][2] \in Nat
    BY <2>1
  <2>3. <<pc[p][1], pc[p][2] + 1>>[2] = pc[p][2] + 1
    OBVIOUS
  <2>4. pc[p][2] # pc[p][2] + 1
    BY <2>2
  <2>. QED  BY <1>0, <2>3, <2>4
<1>2. ~Counters(pc) /\ pc' # pc
  BY <1>0, <1>1 DEF Counters, Live
<1>3. Execute
  BY <1>2 DEF TestNext, Terminating, BusError, Tick, Sent, Preempt, Kernel, Halted,
     allVars
<1>4. /\ Instruction(currentProcess) = P(s)
      /\ P(s) \notin {Clockwait, UntilHalf, Store, Exit, Trap, Char, Wait}
      /\ \A t : P(t) = P(s) => t = s
      /\ \A t : V(t) # P(s)
      /\ \A prog, sup : Create(prog, sup) # P(s)
  BY <1>0, Apart
<1>5. RunSimple
  BY <1>3, <1>4 DEF Execute, RunClockwait, HalfPassed, HalfNotPassed, RefillAgain
<1>6. Passeren(s) /\ Counters(Jump(1)) /\ Sleepers(idled)
  BY <1>4, <1>5 DEF RunSimple, Simple
<1>. QED  BY <1>4, <1>6, PasserenTakes

(***************************************************************************)
(* The process is of the program, and past its n-th instruction.           *)
(***************************************************************************)
Past(p, prog, n) == At(p, prog) /\ pc[p][2] > n

(***************************************************************************)
(* What the running process executes is where the code has it.             *)
(***************************************************************************)
LEMMA Doing ==
  ASSUME IInv, TestInv, cpu = "run", NEW p, p = currentProcess
  PROVE  /\ p \in Live /\ p \in Pcb
         /\ pc[p][1] \in DOMAIN Code /\ pc[p][2] \in Nat
         /\ \A s \in Sem : p \notin ToSet(procQ[s])
         /\ Where(pc[p][1], pc[p][2], Instruction(p))
         /\ There(pc[p][1], pc[p][2], Instruction(p))
<1> DEFINE prog == pc[p][1]
           i == pc[p][2]
<1>1. /\ p \in Live /\ p \in Pcb /\ prog \in DOMAIN Code
      /\ i \in 1 .. Len(Code[prog])
      /\ \A s \in Sem : p \notin ToSet(procQ[s])
  BY Executing
<1>3. i \in Nat
  <2>1. pc[p] \in (DOMAIN Code) \X Nat
    BY <1>1 DEF TestInv
  <2>. QED  BY <2>1
<1>4. Instruction(p) = Code[prog][i]
  BY DEF Instruction
<1> HIDE DEF prog, i
<1>5. Where(prog, i, Code[prog][i]) /\ There(prog, i, Code[prog][i])
  BY <1>1, WhereLemma
<1>. QED  BY <1>1, <1>3, <1>4, <1>5 DEF prog, i

(***************************************************************************)
(* The cuts of the programs.                                               *)
(***************************************************************************)
LEMMA Cuts ==
  /\ blkp4At \in Nat /\ endp4At \in Nat /\ meetAt \in Nat /\ createAt \in Nat
  /\ 1 <= blkp4At /\ blkp4At < endp4At /\ 1 <= meetAt /\ 1 <= createAt
  BY p4Code, p5Code, testCode

(***************************************************************************)
(* Where a process is after a step, by where it was.                       *)
(***************************************************************************)
Moves(p) ==
  /\ p \in Live /\ pc'[p][1] = pc[p][1]
  /\ \/ pc'[p][2] = pc[p][2]
     \/ Advances(p) /\ pc'[p][2] = pc[p][2] + 1
     \/ /\ pc'[p][2] = pc[p][2] - 1
        /\ p = currentProcess /\ cpu = "run"
        /\ pc[p][1] \notin {"p4", "test"}
        /\ pc[p][1] = "p5" => pc[p][2] = meetAt + 2

Begins(p) ==
  /\ p \notin Live /\ pc'[p][2] = 1 /\ pc'[p][1] # "test"
  /\ currentProcess \in Live' /\ Advances(currentProcess)
  /\ p_prnt'[p] = currentProcess
  /\ Makes(Instruction(currentProcess), pc'[p][1])

(***************************************************************************)
(* After a step a process is where it was, one instruction on or, at the   *)
(* wait for half a clock interval, one back; or it is new.                 *)
(***************************************************************************)
LEMMA MotionLemma ==
  ASSUME IInv, TestInv, Positions, NEW p \in Live'
  PROVE  /\ pc'[p][2] \in Nat /\ p \in Pcb
         /\ p \in Live => pc[p][2] \in Nat
         /\ Moves(p) \/ Begins(p)
<1>1. /\ p \in Pcb /\ pc[p] \in (DOMAIN Code) \X Nat /\ pc'[p] \in (DOMAIN Code) \X Nat
  BY DEF Positions, Live
<1>2. pc[p][2] \in Nat /\ pc'[p][2] \in Nat
  BY <1>1
<1>3. CASE Stays(p)
  BY <1>1, <1>2, <1>3 DEF Stays, Moves
<1>4. CASE Advances(p)
  <2>1. pc'[p][1] = pc[p][1] /\ pc'[p][2] = pc[p][2] + 1
    BY <1>4 DEF Advances
  <2>. QED  BY <1>1, <1>2, <1>4, <2>1 DEF Advances, Moves
<1>5. CASE Retries(p)
  <2>1. pc'[p][1] = pc[p][1] /\ pc'[p][2] = pc[p][2] - 1 /\ p \in Live
        /\ p = currentProcess /\ cpu = "run" /\ Instruction(p) = UntilHalf
    BY <1>5 DEF Retries
  <2>2. There(pc[p][1], pc[p][2], Instruction(p))
    BY <2>1, Doing
  <2>3. pc[p][1] \notin {"p4", "test"} /\ (pc[p][1] = "p5" => pc[p][2] = meetAt + 2)
    BY <2>1, <2>2 DEF There
  <2>. QED  BY <1>1, <1>2, <2>1, <2>3 DEF Moves
<1>6. CASE Starts(p)
  <2>1. p \notin Live /\ cpu = "run"
    BY <1>6 DEF Starts, Live
  <2>2. PICK prog \in DOMAIN Code :
          Makes(Instruction(currentProcess), prog) /\ pc'[p] = <<prog, 1>>
    BY <1>6 DEF Starts
  <2>3. pc'[p][1] = prog /\ pc'[p][2] = 1
    BY <2>2
  <2>4. ~Makes(Instruction(currentProcess), "test")
    BY <2>1, Doing DEF Where
  <2>5. prog # "test"
    BY <2>2, <2>4
  <2>. QED  BY <1>1, <1>2, <1>6, <2>1, <2>2, <2>3, <2>5 DEF Starts, Begins
<1>. QED  BY <1>1, <1>2, <1>3, <1>4, <1>5, <1>6 DEF Positions

(***************************************************************************)
(* A process keeps its program.                                            *)
(***************************************************************************)
LEMMA AtLemma ==
  ASSUME IInv, TestInv, Positions, NEW p \in Live', NEW prog
  PROVE  /\ p \in Live => (At(p, prog)' <=> At(p, prog))
         /\ At(p, prog)' /\ p \notin Live => Begins(p) /\ pc'[p][1] = prog
<1>1. \/ p \in Live /\ pc'[p][1] = pc[p][1]
      \/ p \notin Live /\ Begins(p)
  BY MotionLemma DEF Moves, Begins
<1>. QED  BY <1>1 DEF At

(***************************************************************************)
(* It gets past an instruction by executing it.                            *)
(***************************************************************************)
LEMMA Crossed ==
  ASSUME IInv, TestInv, Positions, NEW p, NEW prog, NEW n \in Nat, 1 <= n,
         Past(p, prog, n)'
  PROVE  /\ p \in Live /\ p \in Live' /\ At(p, prog)
         /\ Past(p, prog, n) \/ (Advances(p) /\ pc[p][2] = n)
<1>1. p \in Live' /\ pc'[p][1] = prog /\ pc'[p][2] > n
  BY DEF Past, At
<1>2. /\ pc'[p][2] \in Nat
      /\ p \in Live => pc[p][2] \in Nat
      /\ Moves(p) \/ Begins(p)
  BY <1>1, MotionLemma
<1>3. ~Begins(p)
  <2>1. ~(1 > n)
    OBVIOUS
  <2>. QED  BY <1>1, <2>1 DEF Begins
<1>4. p \in Live /\ pc[p][1] = prog
  BY <1>1, <1>2, <1>3 DEF Moves
<1>5. \/ pc'[p][2] = pc[p][2]
      \/ Advances(p) /\ pc'[p][2] = pc[p][2] + 1
      \/ pc'[p][2] = pc[p][2] - 1
  BY <1>2, <1>3 DEF Moves
<1>6. \A i \in Nat, j \in Nat : j > n /\ (j = i \/ j = i - 1) => i > n
  OBVIOUS
<1>7. \A i \in Nat, j \in Nat : j > n /\ j = i + 1 => i > n \/ i = n
  OBVIOUS
<1>8. pc[p][2] > n \/ (Advances(p) /\ pc[p][2] = n)
  BY <1>1, <1>2, <1>4, <1>5, <1>6, <1>7
<1>. QED  BY <1>1, <1>4, <1>8 DEF Past, At

(***************************************************************************)
(* And it stays past it, except for the WAITCLOCK that is executed again.  *)
(***************************************************************************)
LEMMA Remains ==
  ASSUME IInv, TestInv, Positions, NEW p \in Live', NEW prog \in {"p4", "p5", "test"},
         NEW n \in Nat, Past(p, prog, n),
         prog = "p5" => n # meetAt + 1
  PROVE  Past(p, prog, n)'
<1>1. p \in Live /\ pc[p][1] = prog /\ pc[p][2] > n
  BY DEF Past, At
<1>2. pc'[p][2] \in Nat /\ pc[p][2] \in Nat /\ Moves(p) /\ meetAt \in Nat
  BY <1>1, MotionLemma, Cuts DEF Begins
<1>3. \/ pc'[p][2] = pc[p][2]
      \/ pc'[p][2] = pc[p][2] + 1
      \/ prog = "p5" /\ pc[p][2] = meetAt + 2 /\ pc'[p][2] = pc[p][2] - 1
  BY <1>1, <1>2 DEF Moves
<1>4. \A i \in Nat, j \in Nat : i > n /\ (j = i \/ j = i + 1) => j > n
  OBVIOUS
<1>5. \A i \in Nat, j \in Nat, m \in Nat :
        i > n /\ n # m + 1 /\ i = m + 2 /\ j = i - 1 => j > n
  OBVIOUS
<1>6. pc'[p][2] > n
  BY <1>1, <1>2, <1>3, <1>4, <1>5
<1>. QED  BY <1>1, <1>2, <1>6 DEF Past, At, Moves

------------------------------------------------------------------------------
\* The invariant behind P4Dead.

(***************************************************************************)
(* p5 gets on with its V(blkp4).                                           *)
(***************************************************************************)
Frees == Advances(currentProcess) /\ Instruction(currentProcess) = V("blkp4")

(***************************************************************************)
(* The incarnations of p4 that P(blkp4) has let pass, the p5s that         *)
(* V(endp4) has let pass, and whether there has been a V(endp4).           *)
(***************************************************************************)
Passed == {p \in Live : Past(p, "p4", blkp4At) /\ p \notin ToSet(procQ["blkp4"])}

Met == {p \in Live : /\ Past(p, "p5", meetAt)
                     /\ p \in ToSet(procQ["endp4"]) => Past(p, "p5", meetAt + 1)}

Signalled == semVal["endp4"] > 0 \/ Met # {}

(***************************************************************************)
(* Before p5's V(blkp4). p1, here r, is the root and waits for p5 before   *)
(* anything can end it.                                                    *)
(***************************************************************************)
Waiting(r) ==
  /\ Safe(r) /\ p_prnt[r] = NULL
  /\ \A p \in Live : At(p, "test") <=> p = r
  /\ ~Past(r, "test", createAt + 5)
  /\ Past(r, "test", createAt + 4) => r \in ToSet(procQ["endp5"])
  /\ semVal["endp5"] <= 0

\* p5 is created once, after the first p4, and has not freed blkp4.
OneP5(r) ==
  /\ \A p, q \in Live : At(p, "p5") /\ At(q, "p5") => p = q
  /\ \A p \in Live : At(p, "p5") =>
       ~Past(p, "p5", meetAt + 3) /\ Past(r, "test", createAt + 1)

NotYet(r) ==
  ~Past(r, "test", createAt) =>
    semVal["blkp4"] = 1 /\ \A p \in Live : ~At(p, "p4")

\* One p4 gets through P(blkp4); the other is its child, or an orphan.
Gate ==
  /\ semVal["blkp4"] <= 1
  /\ semVal["blkp4"] = 1 =>
       /\ Passed = {}
       /\ \A p, q \in Live : At(p, "p4") /\ At(q, "p4") => p = q
  /\ semVal["blkp4"] <= 0 =>
       /\ \A p, q \in Passed : p = q
       /\ \A p \in Live : At(p, "p4") => \/ p \in Passed
                                         \/ p_prnt[p] = NULL
                                         \/ p_prnt[p] \in Passed

\* p5 hears of the p4 that got through when that one can only terminate.
Signal ==
  Signalled => semVal["blkp4"] <= 0 /\ \A p \in Passed : Past(p, "p4", endp4At)

Leaving ==
  \A p \in Live : Past(p, "p4", endp4At) => \A s \in Sem : p \notin ToSet(procQ[s])

\* Once p5 has slept while the processor was idle, that p4 is gone.
Slept ==
  \A p \in Live :
    Past(p, "p5", meetAt + 2) \/ (Past(p, "p5", meetAt + 1) /\ p \in idled)
      => Passed = {}

Early(r) ==
  Waiting(r) /\ OneP5(r) /\ NotYet(r) /\ Gate /\ Signal /\ Leaving /\ Slept

(***************************************************************************)
(* After it: p5 is past it, and no other is created.                       *)
(***************************************************************************)
Late ==
  /\ \A p \in Live : At(p, "p5") => Past(p, "p5", meetAt + 3)
  /\ \A p \in Live : At(p, "test") => Past(p, "test", createAt + 1)

(***************************************************************************)
(* A step that is not p5's V(blkp4).                                       *)
(***************************************************************************)
Wins ==
  \A p \in Live', s \in UserSem : Advances(p) /\ Instruction(p) = P(s) => Takes(s)

Onward(r) ==
  IInv /\ TestInv /\ StepFacts /\ Wins /\ r \in Pcb /\ Early(r) /\ ~Frees

(***************************************************************************)
(* The three semaphores are semaphores of programs.                        *)
(***************************************************************************)
LEMMA TestSems ==
  {"blkp4", "endp4", "endp5"} \subseteq UserSem /\ UserSem \subseteq Sem
  BY UserSems, TestAssumption

(***************************************************************************)
(* Who takes from blkp4 is p4.                                             *)
(***************************************************************************)
LEMMA RootWaits ==
  ASSUME NEW r, Onward(r), cpu = "run", currentProcess = r
  PROVE  pc[r][2] <= createAt + 4
<1>1. IInv /\ TestInv /\ Waiting(r) /\ r \in Live
  BY DEF Onward, Early, Waiting, Safe
<1>2. At(r, "test") /\ pc[r][2] \in Nat /\ createAt \in Nat /\ r \notin ToSet(procQ["endp5"])
  BY <1>1, Doing, Cuts, TestSems DEF Waiting
<1>3. ~Past(r, "test", createAt + 4)
  BY <1>1, <1>2 DEF Waiting
<1>4. ~(pc[r][2] > createAt + 4)
  BY <1>2, <1>3 DEF Past
<1>. QED  BY <1>2, <1>4

(***************************************************************************)
(* In such a step blkp4 rests, or p4 executes its P(blkp4).                *)
(***************************************************************************)
LEMMA GateStep ==
  ASSUME NEW r, Onward(r)
  PROVE  \/ Rests("blkp4")
         \/ /\ Takes("blkp4") /\ currentProcess \in Live
            /\ At(currentProcess, "p4") /\ pc[currentProcess][2] = blkp4At
<1>0. IInv /\ TestInv /\ StepFacts /\ Waiting(r) /\ ~Frees
  BY DEF Onward, Early
<1>1. Rests("blkp4") \/ Takes("blkp4") \/ Gives("blkp4")
  BY <1>0, TestSems DEF StepFacts
<1>2. ~Gives("blkp4")
  BY <1>0 DEF Gives, Advances, Frees
<1>3. CASE Takes("blkp4")
  <2>1. cpu = "run" /\ Instruction(currentProcess) = P("blkp4")
    BY <1>3 DEF Takes, Advances
  <2>2. /\ currentProcess \in Live
        /\ Where(pc[currentProcess][1], pc[currentProcess][2], P("blkp4"))
    BY <1>0, <2>1, Doing
  <2>3. \/ pc[currentProcess][1] = "p4" /\ pc[currentProcess][2] = blkp4At
        \/ pc[currentProcess][1] = "test" /\ pc[currentProcess][2] > createAt + 4
    BY <2>2 DEF Where
  <2>4. ~(pc[currentProcess][1] = "test" /\ pc[currentProcess][2] > createAt + 4)
    <3> SUFFICES ASSUME pc[currentProcess][1] = "test",
                        pc[currentProcess][2] > createAt + 4
                 PROVE  FALSE
      OBVIOUS
    <3>1. currentProcess = r
      BY <1>0, <2>2 DEF Waiting, At
    <3>2. pc[r][2] <= createAt + 4 /\ pc[r][2] > createAt + 4
      BY <2>1, <3>1, RootWaits
    <3>3. pc[r][2] \in Nat /\ createAt \in Nat
      BY <1>0, <2>1, <3>1, Doing, Cuts
    <3>. QED  BY <3>2, <3>3
  <2>. QED  BY <1>3, <2>2, <2>3, <2>4 DEF At
<1>. QED  BY <1>1, <1>2, <1>3

(***************************************************************************)
(* Once blkp4 is taken no p4 gets through any more.                        *)
(***************************************************************************)
LEMMA PassedLemma ==
  ASSUME NEW r, Onward(r)
  PROVE  /\ semVal["blkp4"] <= 0 => Passed' \subseteq Passed
         /\ semVal["blkp4"] <= 0 => semVal'["blkp4"] <= 0
         /\ \A p \in Passed : p \in Live' => p \in Passed'
<1>0. /\ IInv /\ TestInv /\ StepFacts /\ Positions /\ Wins
      /\ semVal["blkp4"] \in Int
      /\ blkp4At \in Nat /\ 1 <= blkp4At /\ "blkp4" \in Sem /\ "blkp4" \in UserSem
  BY TestSems, Cuts DEF Onward, StepFacts, IInv, Types
<1>1. \/ Rests("blkp4")
      \/ /\ Takes("blkp4") /\ currentProcess \in Live
         /\ At(currentProcess, "p4") /\ pc[currentProcess][2] = blkp4At
  BY GateStep
<1>2. ASSUME semVal["blkp4"] <= 0  PROVE semVal'["blkp4"] <= 0
  <2>1. CASE Rests("blkp4")
    BY <1>2, <2>1 DEF Rests, Calm
  <2>2. CASE Takes("blkp4")
    BY <1>0, <1>2, <2>2 DEF Takes
  <2>. QED  BY <1>1, <2>1, <2>2
<1>3. ASSUME semVal["blkp4"] <= 0, NEW p \in Passed'  PROVE p \in Passed
  <2>1. Past(p, "p4", blkp4At)' /\ p \notin ToSet(procQ'["blkp4"]) /\ p \in Live'
    BY <1>3 DEF Passed
  <2>2. p \in Live /\ (Past(p, "p4", blkp4At) \/ (Advances(p) /\ pc[p][2] = blkp4At))
        /\ At(p, "p4")
    BY <1>0, <2>1, Crossed
  <2>3. ~(Advances(p) /\ pc[p][2] = blkp4At)
    <3> SUFFICES ASSUME Advances(p), pc[p][2] = blkp4At  PROVE FALSE
      OBVIOUS
    <3>1. There(pc[p][1], pc[p][2], Instruction(p)) /\ p = currentProcess
      BY <1>0, Doing DEF Advances
    <3>2. Instruction(p) = P("blkp4")
      BY <2>2, <3>1 DEF There, At
    <3>3. Takes("blkp4")
      BY <1>0, <2>1, <3>2 DEF Wins
    <3>. QED  BY <1>3, <2>1, <3>1, <3>3 DEF Takes
  <2>4. p \notin ToSet(procQ["blkp4"])
    <3>1. CASE Rests("blkp4")
      BY <2>1, <3>1 DEF Rests, Calm, Live
    <3>2. CASE Takes("blkp4")
      BY <2>1, <3>2 DEF Takes
    <3>. QED  BY <1>1, <3>1, <3>2
  <2>. QED  BY <2>2, <2>3, <2>4 DEF Passed
<1>4. ASSUME NEW p \in Passed, p \in Live'  PROVE p \in Passed'
  <2>1. Past(p, "p4", blkp4At) /\ p \notin ToSet(procQ["blkp4"])
    BY <1>4 DEF Passed
  <2>2. Past(p, "p4", blkp4At)'
    BY <1>0, <1>4, <2>1, Remains
  <2>3. p \notin ToSet(procQ'["blkp4"])
    <3>1. CASE Rests("blkp4")
      BY <2>1, <3>1 DEF Rests
    <3>2. CASE /\ Takes("blkp4") /\ pc[currentProcess][2] = blkp4At
      <4>1. ~(blkp4At > blkp4At)
        BY <1>0
      <4>2. p # currentProcess
        BY <2>1, <3>2, <4>1 DEF Past
      <4>. QED  BY <2>1, <3>2, <4>2 DEF Takes
    <3>. QED  BY <1>1, <3>1, <3>2
  <2>. QED  BY <1>4, <2>2, <2>3 DEF Passed
<1>. QED  BY <1>2, <1>3, <1>4

(***************************************************************************)
(* Who creates a p4: p1, once, or the p4 that got through.                 *)
(***************************************************************************)
LEMMA NewP4 ==
  ASSUME NEW r, Onward(r), NEW p, Begins(p), pc'[p][1] = "p4"
  PROVE  \/ /\ r = currentProcess /\ ~Past(r, "test", createAt)
            /\ Past(r, "test", createAt)'
         \/ /\ currentProcess \in Passed /\ currentProcess \in Live'
            /\ p_prnt'[p] = currentProcess
<1> DEFINE c == currentProcess
<1>0. /\ IInv /\ TestInv /\ Positions /\ Waiting(r)
      /\ blkp4At \in Nat /\ createAt \in Nat
  BY Cuts DEF Onward, StepFacts, Early
<1>1. /\ c \in Live' /\ Advances(c) /\ p_prnt'[p] = c /\ cpu = "run"
      /\ Makes(Instruction(c), "p4")
  BY DEF Begins, Advances
<1>2. /\ c \in Live /\ pc[c][2] \in Nat
      /\ Where(pc[c][1], pc[c][2], Instruction(c))
      /\ \A s \in Sem : c \notin ToSet(procQ[s])
  BY <1>0, <1>1, Doing
<1>3. \/ pc[c][1] = "test" /\ pc[c][2] = createAt
      \/ pc[c][1] = "p4" /\ blkp4At < pc[c][2]
  BY <1>1, <1>2 DEF Where
<1>4. CASE pc[c][1] = "test" /\ pc[c][2] = createAt
  <2>1. c = r
    BY <1>0, <1>2, <1>4 DEF Waiting, At
  <2>2. pc'[r][1] = "test" /\ pc'[r][2] = createAt + 1
    BY <1>1, <1>4, <2>1 DEF Advances
  <2>3. ~(createAt > createAt) /\ createAt + 1 > createAt
    BY <1>0
  <2>. QED  BY <1>1, <1>4, <2>1, <2>2, <2>3 DEF Past, At
<1>5. CASE pc[c][1] = "p4" /\ blkp4At < pc[c][2]
  <2>1. pc[c][2] > blkp4At
    BY <1>0, <1>2, <1>5
  <2>. QED  BY <1>1, <1>2, <1>5, <2>1, TestSems DEF Passed, Past, At
<1>. QED  BY <1>3, <1>4, <1>5

------------------------------------------------------------------------------
\* It is inductive.

(***************************************************************************)
(* Each part of Early survives such a step.                                *)
(***************************************************************************)
LEMMA WaitingKeeps ==
  ASSUME NEW r, Onward(r), [TestNext]_allVars
  PROVE  Waiting(r)'
<1>0. /\ IInv /\ TestInv /\ StepFacts /\ Positions /\ Wins /\ Waiting(r) /\ OneP5(r)
      /\ r \in Pcb /\ r \in Live /\ Safe(r) /\ p_prnt[r] = NULL
      /\ "endp5" \in UserSem /\ "endp5" \in Sem /\ semVal["endp5"] \in Int
      /\ semVal["endp5"] <= 0
      /\ createAt \in Nat /\ meetAt \in Nat
  BY TestSems, Cuts DEF Onward, StepFacts, Early, Waiting, Safe, IInv, Types
<1>1. ASSUME cpu = "run", currentProcess = r
      PROVE  Instruction(currentProcess) \notin {Exit, Trap, Store}
  <2>1. pc[r][2] <= createAt + 4
    BY <1>1, RootWaits
  <2>2. There(pc[r][1], pc[r][2], Instruction(r)) /\ pc[r][1] = "test"
    BY <1>0, <1>1, Doing DEF Waiting, At
  <2>. QED  BY <1>1, <2>1, <2>2 DEF There
<1>2. Safe(r)'
  BY <1>0, <1>1, RootSafe
<1>3. r \in Live'
  BY <1>2 DEF Safe
<1>4. p_prnt'[r] = NULL
  BY <1>0 DEF StepFacts, Links
<1>5. ASSUME NEW p \in Live'  PROVE At(p, "test")' <=> p = r
  <2>1. CASE p \in Live
    BY <1>0, <1>5, <2>1, AtLemma DEF Waiting
  <2>2. CASE p \notin Live
    BY <1>0, <1>5, <2>2, AtLemma DEF Begins
  <2>. QED  BY <2>1, <2>2
<1>6. ~Past(r, "test", createAt + 5)'
  <2> SUFFICES ASSUME Past(r, "test", createAt + 5)'  PROVE FALSE
    OBVIOUS
  <2>1. createAt + 5 \in Nat /\ 1 <= createAt + 5
    BY <1>0
  <2>2. Past(r, "test", createAt + 5) \/ (Advances(r) /\ pc[r][2] = createAt + 5)
    BY <1>0, <2>1, Crossed
  <2>3. Advances(r) => pc[r][2] <= createAt + 4
    BY RootWaits DEF Advances
  <2>4. ~(createAt + 5 <= createAt + 4)
    BY <1>0
  <2>. QED  BY <1>0, <2>2, <2>3, <2>4 DEF Waiting
<1>7. ~Gives("endp5")
  <2> SUFFICES ASSUME Gives("endp5")  PROVE FALSE
    OBVIOUS
  <2>1. cpu = "run" /\ Instruction(currentProcess) = V("endp5")
    BY DEF Gives, Advances
  <2>2. /\ currentProcess \in Live
        /\ Where(pc[currentProcess][1], pc[currentProcess][2], V("endp5"))
    BY <1>0, <2>1, Doing
  <2>3. Past(currentProcess, "p5", meetAt + 3)
    BY <2>2 DEF Where, Past, At
  <2>. QED  BY <1>0, <2>2, <2>3 DEF OneP5, Past
<1>8. Rests("endp5") \/ Takes("endp5")
  BY <1>0, <1>7 DEF StepFacts
<1>9. semVal'["endp5"] <= 0
  <2>1. CASE Rests("endp5")
    BY <1>0, <2>1 DEF Rests, Calm
  <2>2. CASE Takes("endp5")
    BY <1>0, <2>2 DEF Takes
  <2>. QED  BY <1>8, <2>1, <2>2
<1>10. ASSUME Past(r, "test", createAt + 4)'  PROVE r \in ToSet(procQ'["endp5"])
  <2>1. createAt + 4 \in Nat /\ 1 <= createAt + 4
    BY <1>0
  <2>2. Past(r, "test", createAt + 4) \/ (Advances(r) /\ pc[r][2] = createAt + 4)
    BY <1>0, <1>10, <2>1, Crossed
  <2>3. CASE Past(r, "test", createAt + 4)
    <3>1. r \in ToSet(procQ["endp5"])
      BY <1>0, <2>3 DEF Waiting
    <3>. QED  BY <1>3, <1>8, <3>1 DEF Rests, Calm, Takes, Live
  <2>4. CASE Advances(r) /\ pc[r][2] = createAt + 4
    <3>1. r = currentProcess /\ There(pc[r][1], pc[r][2], Instruction(r))
          /\ pc[r][1] = "test"
      BY <1>0, <2>4, Doing DEF Advances, Waiting, At
    <3>2. Instruction(r) = P("endp5")
      BY <2>4, <3>1 DEF There
    <3>3. Takes("endp5")
      BY <1>0, <1>3, <2>4, <3>2 DEF Wins
    <3>. QED  BY <1>0, <3>1, <3>3 DEF Takes
  <2>. QED  BY <2>2, <2>3, <2>4
<1>. QED  BY <1>2, <1>4, <1>5, <1>6, <1>9, <1>10 DEF Waiting

(***************************************************************************)
(* p1 creates one p5, and what gets p5 past its V(blkp4) is that V.        *)
(***************************************************************************)
LEMMA OneP5Keeps ==
  ASSUME NEW r, Onward(r), r \in Live'
  PROVE  OneP5(r)'
<1>0. /\ IInv /\ TestInv /\ Positions /\ Waiting(r) /\ OneP5(r) /\ ~Frees
      /\ createAt \in Nat /\ meetAt \in Nat
  BY Cuts DEF Onward, StepFacts, Early
<1>1. ASSUME NEW p \in Live', p \notin Live, At(p, "p5")'
      PROVE  /\ ~Past(r, "test", createAt + 1) /\ Past(r, "test", createAt + 1)'
             /\ \A q \in Live : ~At(q, "p5")
             /\ pc'[p][2] = 1
  <2> DEFINE c == currentProcess
  <2>1. Begins(p) /\ pc'[p][1] = "p5"
    BY <1>0, <1>1, AtLemma
  <2>2. c \in Live' /\ Advances(c) /\ cpu = "run" /\ Makes(Instruction(c), "p5")
    BY <2>1 DEF Begins, Advances
  <2>3. c \in Live /\ Where(pc[c][1], pc[c][2], Instruction(c))
    BY <1>0, <2>2, Doing
  <2>4. pc[c][1] = "test" /\ pc[c][2] = createAt + 1
    BY <2>2, <2>3 DEF Where
  <2>5. c = r
    BY <1>0, <2>3, <2>4 DEF Waiting, At
  <2>6. pc'[r][1] = "test" /\ pc'[r][2] = (createAt + 1) + 1
    BY <2>2, <2>4, <2>5 DEF Advances
  <2>7. ~(createAt + 1 > createAt + 1) /\ (createAt + 1) + 1 > createAt + 1
    BY <1>0
  <2>8. ~Past(r, "test", createAt + 1) /\ Past(r, "test", createAt + 1)'
    BY <2>2, <2>4, <2>5, <2>6, <2>7 DEF Past, At
  <2>. QED  BY <1>0, <2>1, <2>8 DEF OneP5, Begins
<1>2. \A p, q \in Live' : At(p, "p5")' /\ At(q, "p5")' => p = q
  <2> SUFFICES ASSUME NEW p \in Live', NEW q \in Live', At(p, "p5")', At(q, "p5")'
               PROVE  p = q
    OBVIOUS
  <2>1. p \in Live => At(p, "p5")
    BY <1>0, AtLemma
  <2>2. q \in Live => At(q, "p5")
    BY <1>0, AtLemma
  <2>3. CASE p \in Live /\ q \in Live
    BY <1>0, <2>1, <2>2, <2>3 DEF OneP5
  <2>4. CASE p \notin Live /\ q \notin Live
    BY <1>0, <2>4 DEF Positions
  <2>. QED  BY <1>1, <2>1, <2>2, <2>3, <2>4
<1>3. ASSUME NEW p \in Live', At(p, "p5")'
      PROVE  ~Past(p, "p5", meetAt + 3)' /\ Past(r, "test", createAt + 1)'
  <2>0. meetAt + 3 \in Nat /\ 1 <= meetAt + 3 /\ createAt + 1 \in Nat
    BY <1>0
  <2>1. CASE p \in Live
    <3>1. At(p, "p5")
      BY <1>0, <1>3, <2>1, AtLemma
    <3>2. ~Past(p, "p5", meetAt + 3) /\ Past(r, "test", createAt + 1)
      BY <1>0, <2>1, <3>1 DEF OneP5
    <3>3. Past(r, "test", createAt + 1)'
      BY <1>0, <2>0, <3>2, Remains
    <3>4. ~(Advances(p) /\ pc[p][2] = meetAt + 3)
      <4> SUFFICES ASSUME Advances(p), pc[p][2] = meetAt + 3  PROVE FALSE
        OBVIOUS
      <4>1. /\ p = currentProcess /\ cpu = "run" /\ pc[p][1] = "p5"
            /\ There(pc[p][1], pc[p][2], Instruction(p))
        BY <1>0, <3>1, Doing DEF Advances, At
      <4>. QED  BY <1>0, <4>1 DEF There, Frees
    <3>5. ~Past(p, "p5", meetAt + 3)'
      BY <1>0, <2>0, <3>2, <3>4, Crossed
    <3>. QED  BY <3>3, <3>5
  <2>2. CASE p \notin Live
    <3>1. pc'[p][2] = 1 /\ Past(r, "test", createAt + 1)'
      BY <1>1, <1>3, <2>2
    <3>2. ~(1 > meetAt + 3)
      BY <1>0
    <3>. QED  BY <3>1, <3>2 DEF Past
  <2>. QED  BY <2>1, <2>2
<1>. QED  BY <1>2, <1>3 DEF OneP5

(***************************************************************************)
(* blkp4 stays free until p1 creates the first p4.                         *)
(***************************************************************************)
LEMMA NotYetKeeps ==
  ASSUME NEW r, Onward(r), r \in Live'
  PROVE  NotYet(r)'
<1>0. /\ IInv /\ TestInv /\ Positions /\ NotYet(r) /\ Gate
      /\ createAt \in Nat /\ semVal["blkp4"] \in Int
  BY Cuts, TestSems DEF Onward, StepFacts, Early, IInv, Types
<1> SUFFICES ASSUME ~Past(r, "test", createAt)'
             PROVE  semVal'["blkp4"] = 1 /\ \A p \in Live' : ~At(p, "p4")'
  BY DEF NotYet
<1>1. ~Past(r, "test", createAt)
  BY <1>0, Remains
<1>2. semVal["blkp4"] = 1 /\ \A p \in Live : ~At(p, "p4")
  BY <1>0, <1>1 DEF NotYet
<1>3. Rests("blkp4")
  BY <1>2, GateStep
<1>4. semVal'["blkp4"] = 1
  BY <1>2, <1>3 DEF Rests, Calm
<1>5. ASSUME NEW p \in Live', At(p, "p4")'  PROVE FALSE
  <2>1. p \notin Live
    BY <1>0, <1>2, <1>5, AtLemma
  <2>2. Begins(p) /\ pc'[p][1] = "p4"
    BY <1>0, <1>5, <2>1, AtLemma
  <2>3. currentProcess \in Passed
    BY <2>2, NewP4
  <2>. QED  BY <1>0, <1>2, <2>3 DEF Gate
<1>. QED  BY <1>4, <1>5

(***************************************************************************)
(* The parent of a process is no free pcb.                                 *)
(***************************************************************************)
LEMMA ParentLives ==
  ASSUME IInv', NEW p \in Pcb, p_prnt'[p] # NULL
  PROVE  p_prnt'[p] \in Live'
<1>1. p_prnt'[p] \in Pcb /\ p \in ToSet(p_child'[p_prnt'[p]])
  BY DEF IInv, Types, Tree
<1>2. ToSet(<<>>) = {}
  BY DEF ToSet
<1>. QED  BY <1>1, <1>2 DEF IInv, Tree, Live

(***************************************************************************)
(* At most one p4 gets through P(blkp4), and it is the father of the other *)
(* while both are linked.                                                  *)
(***************************************************************************)
LEMMA GateKeeps ==
  ASSUME NEW r, Onward(r), IInv'
  PROVE  Gate'
<1>0. /\ IInv /\ TestInv /\ StepFacts /\ Positions /\ Wins /\ Links
      /\ NotYet(r) /\ Gate
      /\ blkp4At \in Nat /\ 1 <= blkp4At
      /\ semVal["blkp4"] \in Int /\ semVal'["blkp4"] \in Int
      /\ semVal["blkp4"] <= 1
      /\ "blkp4" \in Sem /\ "blkp4" \in UserSem
  BY Cuts, TestSems DEF Onward, StepFacts, Early, Gate, IInv, Types
<1>1. \/ Rests("blkp4")
      \/ /\ Takes("blkp4") /\ currentProcess \in Live
         /\ At(currentProcess, "p4") /\ pc[currentProcess][2] = blkp4At
  BY GateStep
<1>2. semVal["blkp4"] = 1 \/ semVal["blkp4"] <= 0
  BY <1>0
<1>3. ASSUME NEW p \in Live', p \notin Live, At(p, "p4")'
      PROVE  \/ semVal["blkp4"] = 1 /\ \A q \in Live : ~At(q, "p4")
             \/ p_prnt'[p] \in Passed /\ p_prnt'[p] \in Passed'
  <2>1. Begins(p) /\ pc'[p][1] = "p4"
    BY <1>0, <1>3, AtLemma
  <2>2. \/ ~Past(r, "test", createAt)
        \/ currentProcess \in Passed /\ currentProcess \in Live' /\ p_prnt'[p] = currentProcess
    BY <2>1, NewP4
  <2>. QED  BY <1>0, <2>2, PassedLemma DEF NotYet
<1>4. ASSUME semVal["blkp4"] <= 0
      PROVE  /\ semVal'["blkp4"] <= 0
             /\ \A p, q \in Passed' : p = q
             /\ \A p \in Live' : At(p, "p4")' => \/ p \in Passed'
                                                 \/ p_prnt'[p] = NULL
                                                 \/ p_prnt'[p] \in Passed'
  <2>1. semVal'["blkp4"] <= 0 /\ Passed' \subseteq Passed
    BY <1>4, PassedLemma
  <2>2. ASSUME NEW p \in Live', At(p, "p4")'
        PROVE  p \in Passed' \/ p_prnt'[p] = NULL \/ p_prnt'[p] \in Passed'
    <3>1. CASE p \in Live
      <4>1. At(p, "p4")
        BY <1>0, <2>2, <3>1, AtLemma
      <4>2. p \in Passed \/ p_prnt[p] = NULL \/ p_prnt[p] \in Passed
        BY <1>0, <1>4, <3>1, <4>1 DEF Gate
      <4>3. p_prnt'[p] = p_prnt[p] \/ p_prnt'[p] = NULL
        BY <1>0, <3>1 DEF Links
      <4>4. p_prnt'[p] # NULL => p_prnt'[p] \in Live'
        BY <3>1, ParentLives DEF Live
      <4>. QED  BY <2>2, <4>2, <4>3, <4>4, PassedLemma
    <3>2. CASE p \notin Live
      <4>1. ~(semVal["blkp4"] = 1)
        BY <1>0, <1>4
      <4>. QED  BY <1>3, <2>2, <3>2, <4>1
    <3>. QED  BY <3>1, <3>2
  <2>3. \A p, q \in Passed' : p = q
    BY <1>0, <1>4, <2>1 DEF Gate
  <2>. QED  BY <2>1, <2>2, <2>3
<1>5. ASSUME semVal["blkp4"] = 1, Rests("blkp4")
      PROVE  /\ semVal'["blkp4"] = 1 /\ Passed' = {}
             /\ \A p, q \in Live' : At(p, "p4")' /\ At(q, "p4")' => p = q
  <2>1. semVal'["blkp4"] = 1
    BY <1>5 DEF Rests, Calm
  <2>2. Passed = {} /\ \A p, q \in Live : At(p, "p4") /\ At(q, "p4") => p = q
    BY <1>0, <1>5 DEF Gate
  <2>3. ASSUME NEW p \in Passed'  PROVE FALSE
    <3>1. Past(p, "p4", blkp4At)' /\ p \notin ToSet(procQ'["blkp4"]) /\ p \in Live'
      BY <2>3 DEF Passed
    <3>2. /\ p \in Live /\ At(p, "p4")
          /\ Past(p, "p4", blkp4At) \/ (Advances(p) /\ pc[p][2] = blkp4At)
      BY <1>0, <3>1, Crossed
    <3>3. CASE Past(p, "p4", blkp4At)
      <4>1. p \in ToSet(procQ["blkp4"])
        BY <2>2, <3>2, <3>3 DEF Passed
      <4>. QED  BY <1>5, <3>1, <4>1 DEF Rests, Calm, Live
    <3>4. CASE Advances(p) /\ pc[p][2] = blkp4At
      <4>1. There(pc[p][1], pc[p][2], Instruction(p))
        BY <1>0, <3>4, Doing DEF Advances
      <4>2. Instruction(p) = P("blkp4")
        BY <3>2, <3>4, <4>1 DEF There, At
      <4>3. Takes("blkp4")
        BY <1>0, <3>1, <3>4, <4>2 DEF Wins
      <4>. QED  BY <1>5, <2>1, <4>3 DEF Takes
    <3>. QED  BY <3>2, <3>3, <3>4
  <2>4. ASSUME NEW p \in Live', NEW q \in Live', At(p, "p4")', At(q, "p4")'
        PROVE  p = q
    <3>1. /\ p \in Live => At(p, "p4")
          /\ q \in Live => At(q, "p4")
      BY <1>0, <2>4, AtLemma
    <3>2. CASE p \in Live /\ q \in Live
      BY <2>2, <3>1, <3>2
    <3>3. CASE p \notin Live /\ q \notin Live
      BY <1>0, <3>3 DEF Positions
    <3>4. /\ p \notin Live => \A x \in Live : ~At(x, "p4")
          /\ q \notin Live => \A x \in Live : ~At(x, "p4")
      BY <1>3, <2>2, <2>4
    <3>. QED  BY <3>1, <3>2, <3>3, <3>4
  <2>. QED  BY <2>1, <2>2, <2>3, <2>4
<1>6. ASSUME semVal["blkp4"] = 1,
             Takes("blkp4") /\ currentProcess \in Live /\ At(currentProcess, "p4")
      PROVE  /\ semVal'["blkp4"] = 0
             /\ \A p \in Passed' : p = currentProcess
             /\ \A p \in Live' : At(p, "p4")' => p \in Passed'
  <2>1. semVal'["blkp4"] = 0
    BY <1>6 DEF Takes
  <2>2. Passed = {} /\ \A p \in Live : At(p, "p4") => p = currentProcess
    BY <1>0, <1>6 DEF Gate
  <2>3. ASSUME NEW p \in Live', At(p, "p4")'  PROVE p = currentProcess
    <3>1. CASE p \in Live
      <4>1. At(p, "p4")
        BY <1>0, <2>3, <3>1, AtLemma
      <4>. QED  BY <2>2, <3>1, <4>1
    <3>2. CASE p \notin Live
      BY <1>3, <1>6, <2>2, <2>3, <3>2
    <3>. QED  BY <3>1, <3>2
  <2>4. \A p \in Passed' : p \in Live' /\ At(p, "p4")'
    BY DEF Passed, Past
  <2>5. ASSUME NEW p \in Live', At(p, "p4")'  PROVE p \in Passed'
    <3>1. p = currentProcess
      BY <2>3, <2>5
    <3>2. ~(semVal["blkp4"] <= 0)
      BY <1>6
    <3>3. p \notin ToSet(procQ'["blkp4"]) /\ Advances(p)
      BY <1>6, <3>1, <3>2 DEF Takes
    <3>4. pc[p][2] = blkp4At
      <4>1. cpu = "run" /\ Instruction(p) = P("blkp4")
        BY <1>6, <3>1 DEF Takes, Advances
      <4>2. Where(pc[p][1], pc[p][2], P("blkp4")) /\ pc[p][1] = "p4"
        BY <1>0, <1>6, <3>1, <4>1, Doing DEF At
      <4>. QED  BY <4>2 DEF Where
    <3>5. pc'[p][2] = blkp4At + 1 /\ blkp4At + 1 > blkp4At
      BY <1>0, <3>3, <3>4 DEF Advances
    <3>. QED  BY <2>5, <3>3, <3>5 DEF Passed, Past
  <2>. QED  BY <2>1, <2>3, <2>4, <2>5
<1>7. CASE semVal["blkp4"] <= 0
  <2>1. semVal'["blkp4"] <= 1 /\ ~(semVal'["blkp4"] = 1)
    BY <1>0, <1>4, <1>7
  <2>. QED  BY <1>4, <1>7, <2>1 DEF Gate
<1>8. CASE semVal["blkp4"] = 1 /\ Rests("blkp4")
  <2>1. semVal'["blkp4"] <= 1 /\ ~(semVal'["blkp4"] <= 0)
    BY <1>5, <1>8
  <2>. QED  BY <1>5, <1>8, <2>1 DEF Gate
<1>9. CASE semVal["blkp4"] = 1 /\ Takes("blkp4") /\ currentProcess \in Live
             /\ At(currentProcess, "p4")
  <2>1. semVal'["blkp4"] <= 1 /\ ~(semVal'["blkp4"] = 1)
    BY <1>6, <1>9
  <2>. QED  BY <1>6, <1>9, <2>1 DEF Gate
<1>. QED  BY <1>1, <1>2, <1>7, <1>8, <1>9

(***************************************************************************)
(* endp4 is raised by the p4 that got through, at its last but one         *)
(* instruction; p5 gets past P(endp4) only then.                           *)
(***************************************************************************)
LEMMA SignalKeeps ==
  ASSUME NEW r, Onward(r), IInv'
  PROVE  Signal'
<1>0. /\ IInv /\ TestInv /\ StepFacts /\ Positions /\ Wins /\ Gate /\ Signal
      /\ blkp4At \in Nat /\ endp4At \in Nat /\ blkp4At < endp4At /\ 1 <= blkp4At
      /\ meetAt \in Nat /\ 1 <= meetAt
      /\ semVal["blkp4"] \in Int /\ semVal["blkp4"] <= 1
      /\ semVal["endp4"] \in Int /\ semVal'["endp4"] \in Int
      /\ "endp4" \in Sem /\ "endp4" \in UserSem
  BY Cuts, TestSems DEF Onward, StepFacts, Early, Gate, IInv, Types
<1>1. ASSUME semVal["blkp4"] <= 0, NEW p \in Passed', Past(p, "p4", endp4At)
      PROVE  Past(p, "p4", endp4At)'
  BY <1>0, <1>1, Remains DEF Passed
<1>2. CASE Signalled
  BY <1>0, <1>1, <1>2, PassedLemma DEF Signal
<1>3. CASE Gives("endp4")
  <2> DEFINE c == currentProcess
  <2>1. /\ c \in Live' /\ Advances(c) /\ cpu = "run" /\ Instruction(c) = V("endp4")
    BY <1>3 DEF Gives, Advances
  <2>2. /\ c \in Live /\ Where(pc[c][1], pc[c][2], V("endp4"))
        /\ \A s \in Sem : c \notin ToSet(procQ[s])
    BY <1>0, <2>1, Doing
  <2>3. pc[c][1] = "p4" /\ pc[c][2] = endp4At
    BY <2>2 DEF Where
  <2>4. endp4At > blkp4At /\ endp4At + 1 > endp4At
    BY <1>0
  <2>5. c \in Passed
    BY <2>2, <2>3, <2>4, TestSems DEF Passed, Past, At
  <2>6. semVal["blkp4"] <= 0
    <3>1. ~(semVal["blkp4"] = 1)
      BY <1>0, <2>5 DEF Gate
    <3>. QED  BY <1>0, <3>1
  <2>7. pc'[c][1] = "p4" /\ pc'[c][2] > endp4At
    BY <2>1, <2>3, <2>4 DEF Advances
  <2>8. ASSUME NEW p \in Passed'  PROVE Past(p, "p4", endp4At)'
    <3>1. p \in Passed /\ p \in Live'
      BY <2>6, PassedLemma DEF Passed
    <3>2. p = c
      BY <1>0, <2>5, <2>6, <3>1 DEF Gate
    <3>. QED  BY <2>7, <3>1, <3>2 DEF Past, At
  <2>. QED  BY <2>6, <2>8, PassedLemma DEF Signal
<1>4. CASE ~Signalled /\ ~Gives("endp4")
  <2>1. Rests("endp4") \/ Takes("endp4")
    BY <1>0, <1>4 DEF StepFacts
  <2>2. semVal["endp4"] <= 0 /\ Met = {}
    BY <1>0, <1>4 DEF Signalled
  <2>3. ~(semVal'["endp4"] > 0)
    <3>1. CASE Rests("endp4")
      BY <1>0, <2>2, <3>1 DEF Rests, Calm
    <3>2. CASE Takes("endp4")
      BY <1>0, <2>2, <3>2 DEF Takes
    <3>. QED  BY <2>1, <3>1, <3>2
  <2>4. ASSUME NEW p \in Met'  PROVE FALSE
    <3>1. /\ Past(p, "p5", meetAt)' /\ p \in Live'
          /\ p \in ToSet(procQ'["endp4"]) => Past(p, "p5", meetAt + 1)'
      BY <2>4 DEF Met
    <3>2. /\ p \in Live /\ At(p, "p5")
          /\ Past(p, "p5", meetAt) \/ (Advances(p) /\ pc[p][2] = meetAt)
      BY <1>0, <3>1, Crossed
    <3>3. CASE Past(p, "p5", meetAt)
      <4>1. p \in ToSet(procQ["endp4"]) /\ ~Past(p, "p5", meetAt + 1)
        BY <2>2, <3>2, <3>3 DEF Met
      <4>2. p \in ToSet(procQ'["endp4"])
        BY <2>1, <3>1, <4>1 DEF Rests, Calm, Takes, Live
      <4>3. meetAt + 1 \in Nat /\ 1 <= meetAt + 1
        BY <1>0
      <4>4. Advances(p)
        BY <1>0, <3>1, <4>1, <4>2, <4>3, Crossed
      <4>. QED  BY <1>0, <4>1, <4>4, Doing DEF Advances
    <3>4. CASE Advances(p) /\ pc[p][2] = meetAt
      <4>1. There(pc[p][1], pc[p][2], Instruction(p)) /\ p = currentProcess
        BY <1>0, <3>4, Doing DEF Advances
      <4>2. Instruction(p) = P("endp4")
        BY <3>2, <3>4, <4>1 DEF There, At
      <4>3. Takes("endp4")
        BY <1>0, <3>1, <3>4, <4>2 DEF Wins
      <4>4. p \in ToSet(procQ'["endp4"])
        BY <2>2, <4>1, <4>3 DEF Takes
      <4>5. pc'[p][2] = meetAt + 1 /\ ~(meetAt + 1 > meetAt + 1)
        BY <1>0, <3>4 DEF Advances
      <4>. QED  BY <3>1, <4>4, <4>5 DEF Past
    <3>. QED  BY <3>2, <3>3, <3>4
  <2>5. ~Signalled'
    BY <2>3, <2>4 DEF Signalled
  <2>. QED  BY <2>5 DEF Signal
<1>. QED  BY <1>2, <1>3, <1>4

(***************************************************************************)
(* That p4 blocks nowhere any more.                                        *)
(***************************************************************************)
LEMMA LeavingKeeps ==
  ASSUME NEW r, Onward(r)
  PROVE  Leaving'
<1>0. /\ IInv /\ TestInv /\ StepFacts /\ Positions /\ Leaving
      /\ endp4At \in Nat /\ 1 <= endp4At
  BY Cuts DEF Onward, StepFacts, Early
<1> SUFFICES ASSUME NEW p \in Live', Past(p, "p4", endp4At)', NEW s \in Sem,
                    p \in ToSet(procQ'[s])
             PROVE  FALSE
  BY DEF Leaving
<1>1. /\ p \in Live /\ At(p, "p4")
      /\ Past(p, "p4", endp4At) \/ (Advances(p) /\ pc[p][2] = endp4At)
  BY <1>0, Crossed
<1>2. \/ p \in ToSet(procQ[s])
      \/ Advances(p) /\ Instruction(p) \notin {Exit, V("endp4")}
  BY <1>0 DEF StepFacts, Joins
<1>3. Advances(p)
  <2>1. CASE Past(p, "p4", endp4At)
    BY <1>0, <1>1, <1>2, <2>1 DEF Leaving
  <2>. QED  BY <1>1, <2>1
<1>4. /\ There(pc[p][1], pc[p][2], Instruction(p))
      /\ p \notin ToSet(procQ[s])
  BY <1>0, <1>3, Doing DEF Advances
<1>5. Instruction(p) \in {Exit, V("endp4")}
  BY <1>1, <1>4 DEF There, At, Past
<1>. QED  BY <1>2, <1>4, <1>5

(***************************************************************************)
(* When the processor gets idle every process is in a queue.               *)
(***************************************************************************)
LEMMA IdleBlocks ==
  ASSUME IInv', cpu' = "wait", NEW p \in Live'
  PROVE  \E s \in Sem : p \in ToSet(procQ'[s])
<1>1. currentProcess' = NULL /\ readyQueue' = <<>>
  BY DEF IInv, CpuOK
<1>2. p # NULL
  BY PcbAssumption DEF Live
<1>3. ToSet(<<>>) = {}
  BY DEF ToSet
<1>. QED  BY <1>1, <1>2, <1>3 DEF IInv, Places

(***************************************************************************)
(* So when the processor idles, with p5 in the queue of the clock, that p4 *)
(* has executed its SYS2.                                                  *)
(***************************************************************************)
LEMMA SleptKeeps ==
  ASSUME NEW r, Onward(r), IInv', Signal', Leaving'
  PROVE  Slept'
<1>0. /\ IInv /\ TestInv /\ StepFacts /\ Positions /\ Signal /\ Slept /\ Naps
      /\ meetAt \in Nat
      /\ 1 <= meetAt + 1 /\ 1 <= meetAt + 2
      /\ meetAt + 1 \in Nat /\ meetAt + 2 \in Nat
  BY Cuts DEF Onward, StepFacts, Early
<1>1. ASSUME NEW p \in Live, Past(p, "p5", meetAt + 1), Passed = {}
      PROVE  Passed' = {}
  <2>1. pc[p][2] \in Nat
    <3>1. pc[p] \in (DOMAIN Code) \X Nat
      BY <1>0 DEF TestInv, Live
    <3>. QED  BY <3>1
  <2>2. Past(p, "p5", meetAt)
    BY <1>0, <1>1, <2>1 DEF Past
  <2>3. p \in Met
    BY <1>1, <2>2 DEF Met
  <2>4. semVal["blkp4"] <= 0
    BY <1>0, <2>3 DEF Signal, Signalled
  <2>. QED  BY <1>1, <2>4, PassedLemma
<1>2. ASSUME NEW p \in Live', Past(p, "p5", meetAt + 2)'
      PROVE  Passed' = {}
  <2>1. /\ p \in Live /\ At(p, "p5")
        /\ Past(p, "p5", meetAt + 2) \/ (Advances(p) /\ pc[p][2] = meetAt + 2)
    BY <1>0, <1>2, Crossed
  <2>2. pc[p][2] \in Nat
    BY <1>0, <1>2, <2>1, MotionLemma
  <2>3. Past(p, "p5", meetAt + 1)
    BY <1>0, <2>1, <2>2 DEF Past
  <2>4. Passed = {}
    <3>1. CASE Past(p, "p5", meetAt + 2)
      BY <1>0, <2>1, <3>1 DEF Slept
    <3>2. CASE Advances(p) /\ pc[p][2] = meetAt + 2
      <4>1. There(pc[p][1], pc[p][2], Instruction(p))
        BY <1>0, <3>2, Doing DEF Advances
      <4>2. Instruction(p) = UntilHalf
        BY <2>1, <3>2, <4>1 DEF There, At
      <4>3. p \in idled
        BY <1>0, <1>2, <3>2, <4>2 DEF Naps
      <4>. QED  BY <1>0, <2>1, <2>3, <4>3 DEF Slept
    <3>. QED  BY <2>1, <3>1, <3>2
  <2>. QED  BY <1>1, <2>1, <2>3, <2>4
<1>3. ASSUME NEW p \in Live', Past(p, "p5", meetAt + 1)', p \in idled', cpu' # "wait"
      PROVE  Passed' = {}
  <2>1. /\ p \in Live /\ At(p, "p5")
        /\ Past(p, "p5", meetAt + 1) \/ (Advances(p) /\ pc[p][2] = meetAt + 1)
    BY <1>0, <1>3, Crossed
  <2>2. p \in idled /\ ~(Advances(p) /\ Instruction(p) = Clockwait)
    BY <1>0, <1>3 DEF Naps
  <2>3. Past(p, "p5", meetAt + 1)
    <3> SUFFICES ASSUME Advances(p), pc[p][2] = meetAt + 1  PROVE FALSE
      BY <2>1
    <3>1. There(pc[p][1], pc[p][2], Instruction(p))
      BY <1>0, Doing DEF Advances
    <3>2. Instruction(p) = Clockwait
      BY <2>1, <3>1 DEF There, At
    <3>. QED  BY <2>2, <3>2
  <2>4. Passed = {}
    BY <1>0, <2>1, <2>2, <2>3 DEF Slept
  <2>. QED  BY <1>1, <2>1, <2>3, <2>4
<1>4. ASSUME NEW p \in Live', Past(p, "p5", meetAt + 1)', cpu' = "wait"
      PROVE  Passed' = {}
  <2>1. pc'[p][2] \in Nat
    BY <1>0, <1>4, MotionLemma
  <2>2. Past(p, "p5", meetAt)'
    BY <1>0, <1>4, <2>1 DEF Past
  <2>3. p \in Met'
    BY <1>4, <2>2 DEF Met
  <2>4. \A q \in Passed' : q \in Live' /\ Past(q, "p4", endp4At)'
    BY <2>3 DEF Signal, Signalled, Passed
  <2>5. \A q \in Passed' : \A s \in Sem : q \notin ToSet(procQ'[s])
    BY <2>4 DEF Leaving
  <2>. QED  BY <1>4, <2>4, <2>5, IdleBlocks
<1>. QED  BY <1>2, <1>3, <1>4 DEF Slept

(***************************************************************************)
(* With p5's V(blkp4) the first part of the test is over, ...              *)
(***************************************************************************)
LEMMA FreesEnds ==
  ASSUME IInv, TestInv, StepFacts, NEW r, Early(r), Frees
  PROVE  Late'
<1>c. PICK c : c = currentProcess
  OBVIOUS
<1>0. /\ Positions /\ Waiting(r) /\ OneP5(r) /\ Advances(c) /\ cpu = "run"
      /\ Instruction(c) = V("blkp4")
      /\ meetAt \in Nat /\ createAt \in Nat
      /\ meetAt + 3 \in Nat /\ createAt + 1 \in Nat
  BY <1>c, Cuts DEF StepFacts, Early, Frees, Advances
<1>1. c \in Live /\ Where(pc[c][1], pc[c][2], V("blkp4"))
  BY <1>c, <1>0, Doing
<1>2. pc[c][1] = "p5" /\ pc[c][2] = meetAt + 3
  BY <1>1 DEF Where
<1>3. At(c, "p5") /\ Past(r, "test", createAt + 1)
  BY <1>0, <1>1, <1>2 DEF OneP5, At
<1>4. ASSUME NEW p \in Live', At(p, "p5")'  PROVE Past(p, "p5", meetAt + 3)'
  <2>1. p \in Live
    <3> SUFFICES ASSUME p \notin Live  PROVE FALSE
      OBVIOUS
    <3>1. Makes(V("blkp4"), "p5")
      BY <1>0, <1>4, <1>c, AtLemma DEF Begins
    <3>. QED  BY <3>1, MakesFacts
  <2>2. At(p, "p5")
    BY <1>0, <1>4, <2>1, AtLemma
  <2>3. p = c
    BY <1>0, <1>1, <1>3, <2>1, <2>2 DEF OneP5
  <2>4. pc'[p][2] = (meetAt + 3) + 1 /\ (meetAt + 3) + 1 > meetAt + 3
    BY <1>0, <1>2, <2>3 DEF Advances
  <2>. QED  BY <1>4, <2>4 DEF Past
<1>5. ASSUME NEW p \in Live', At(p, "test")'  PROVE Past(p, "test", createAt + 1)'
  <2>1. p \in Live /\ At(p, "test")
    BY <1>0, <1>5, AtLemma DEF Begins
  <2>2. p = r
    BY <1>0, <2>1 DEF Waiting
  <2>. QED  BY <1>0, <1>3, <1>5, <2>2, Remains
<1>. QED  BY <1>4, <1>5 DEF Late

(***************************************************************************)
(* ... and it stays over.                                                  *)
(***************************************************************************)
LEMMA LateKeeps ==
  ASSUME IInv, TestInv, StepFacts, Late
  PROVE  Late'
<1>0. /\ Positions
      /\ meetAt \in Nat /\ createAt \in Nat
      /\ meetAt + 3 \in Nat /\ createAt + 1 \in Nat
      /\ meetAt + 3 # meetAt + 1
  BY Cuts DEF StepFacts
<1>1. ASSUME NEW p \in Live', At(p, "test")'  PROVE Past(p, "test", createAt + 1)'
  <2>1. p \in Live /\ At(p, "test")
    BY <1>0, <1>1, AtLemma DEF Begins
  <2>2. Past(p, "test", createAt + 1)
    BY <2>1 DEF Late
  <2>. QED  BY <1>0, <1>1, <2>2, Remains
<1>2. ASSUME NEW p \in Live', At(p, "p5")'  PROVE Past(p, "p5", meetAt + 3)'
  <2>1. p \in Live
    <3> SUFFICES ASSUME p \notin Live  PROVE FALSE
      OBVIOUS
    <3>c. PICK c : c = currentProcess
      OBVIOUS
    <3>1. cpu = "run" /\ Makes(Instruction(c), "p5")
      BY <1>0, <1>2, <3>c, AtLemma DEF Begins, Advances
    <3>2. c \in Live /\ Where(pc[c][1], pc[c][2], Instruction(c))
      BY <3>1, <3>c, Doing
    <3>3. pc[c][1] = "test" /\ pc[c][2] = createAt + 1
      BY <3>1, <3>2 DEF Where
    <3>4. ~(createAt + 1 > createAt + 1)
      BY <1>0
    <3>. QED  BY <3>2, <3>3, <3>4 DEF Late, Past, At
  <2>2. At(p, "p5")
    BY <1>0, <1>2, <2>1, AtLemma
  <2>3. Past(p, "p5", meetAt + 3)
    BY <2>1, <2>2 DEF Late
  <2>. QED  BY <1>0, <1>2, <2>3, Remains
<1>. QED  BY <1>1, <1>2 DEF Late

(***************************************************************************)
(* The invariant: at first the one part, later the other.                  *)
(***************************************************************************)
P4Inv == Late \/ \E r \in Pcb : Early(r)

(***************************************************************************)
(* Every step of the test keeps the invariant.                             *)
(***************************************************************************)
LEMMA P4Next ==
  ASSUME IInv, TestInv, IInv', P4Inv, [TestNext]_allVars
  PROVE  P4Inv'
<1>1. StepFacts
  BY TestStepFacts
<1>2. Wins
  BY WinsLemma DEF Wins
<1>3. CASE Late
  BY <1>1, <1>3, LateKeeps DEF P4Inv
<1>4. ASSUME NEW r \in Pcb, Early(r)  PROVE P4Inv'
  <2>1. CASE Frees
    BY <1>1, <1>4, <2>1, FreesEnds DEF P4Inv
  <2>2. CASE ~Frees
    <3>1. Onward(r)
      BY <1>1, <1>2, <1>4, <2>2 DEF Onward
    <3>2. Waiting(r)' /\ r \in Live'
      BY <3>1, WaitingKeeps DEF Waiting, Safe
    <3>3. OneP5(r)' /\ NotYet(r)'
      BY <3>1, <3>2, OneP5Keeps, NotYetKeeps
    <3>4. Gate' /\ Signal' /\ Leaving'
      BY <3>1, GateKeeps, SignalKeeps, LeavingKeeps
    <3>5. Slept'
      BY <3>1, <3>4, SleptKeeps
    <3>. QED  BY <3>2, <3>3, <3>4, <3>5 DEF P4Inv, Early
  <2>. QED  BY <2>1, <2>2
<1>. QED  BY <1>3, <1>4 DEF P4Inv

(***************************************************************************)
(* The test starts with it.                                                *)
(***************************************************************************)
LEMMA P4Initially ==
  ASSUME TestInit
  PROVE  P4Inv
<1>r. PICK r \in Pcb : r = currentProcess /\ pcbFree = Pcb \ {r}
  BY DEF TestInit, Init
<1>1. /\ Live = {r} /\ cpu = "run" /\ p_prnt[r] = NULL
      /\ pc[r] = <<"test", 1>>
  BY <1>r DEF TestInit, Init, Live, Start
<1>2. /\ semVal["blkp4"] = 1 /\ semVal["endp4"] = 0 /\ semVal["endp5"] = 0
  BY TestSems DEF TestInit
<1>3. \A s \in Sem : ToSet(procQ[s]) = {}
  <2>1. ToSet(mkEmptyProcQ) = {}
    BY SeqFacts DEF mkEmptyProcQ, ToSet
  <2>. QED  BY <2>1 DEF TestInit, Init
<1>4. pc[r][1] = "test" /\ pc[r][2] = 1
  BY <1>1
<1>5. /\ At(r, "test") /\ \A p \in Live : ~At(p, "p4") /\ ~At(p, "p5")
  BY <1>1, <1>4 DEF At
<1>6. ~Past(r, "test", createAt) /\ ~Past(r, "test", createAt + 4)
      /\ ~Past(r, "test", createAt + 5)
  <2>1. ~(1 > createAt) /\ ~(1 > createAt + 4) /\ ~(1 > createAt + 5)
    BY Cuts
  <2>. QED  BY <1>4, <2>1 DEF Past
<1>7. Passed = {} /\ Met = {} /\ ~Signalled
  <2>1. Passed = {} /\ Met = {}
    BY <1>5 DEF Passed, Met, Past
  <2>. QED  BY <1>2, <2>1 DEF Signalled
<1>8. Waiting(r)
  BY <1>1, <1>2, <1>5, <1>6 DEF Waiting, Safe
<1>9. OneP5(r) /\ NotYet(r) /\ Leaving /\ Slept
  BY <1>2, <1>5 DEF OneP5, NotYet, Leaving, Slept, Past
<1>10. Gate
  BY <1>2, <1>5, <1>7 DEF Gate
<1>11. Signal
  BY <1>7 DEF Signal
<1>. QED  BY <1>8, <1>9, <1>10, <1>11 DEF P4Inv, Early

(***************************************************************************)
(* The invariant settles what p5 finds at its V(blkp4).                    *)
(***************************************************************************)
LEMMA DeadAtFree ==
  ASSUME IInv, TestInv, P4Inv
  PROVE  P4Dead
<1>c. PICK c : c = currentProcess
  OBVIOUS
<1> SUFFICES ASSUME cpu = "run", Instruction(c) = V("blkp4"),
                    NEW p \in Live, At(p, "p4")
             PROVE  Orphaned
  BY <1>c DEF P4Dead
<1>0. meetAt \in Nat
  BY Cuts
<1>1. c \in Live /\ Where(pc[c][1], pc[c][2], V("blkp4"))
  BY <1>c, Doing
<1>2. pc[c][1] = "p5" /\ pc[c][2] = meetAt + 3 /\ At(c, "p5")
  BY <1>1 DEF Where, At
<1>3. ~Late
  <2>1. ~(meetAt + 3 > meetAt + 3)
    BY <1>0
  <2>. QED  BY <1>1, <1>2, <2>1 DEF Late, Past
<1>4. PICK r \in Pcb : Early(r)
  BY <1>3 DEF P4Inv
<1>5. Past(c, "p5", meetAt) /\ Past(c, "p5", meetAt + 1) /\ Past(c, "p5", meetAt + 2)
  <2>1. meetAt + 3 > meetAt /\ meetAt + 3 > meetAt + 1 /\ meetAt + 3 > meetAt + 2
    BY <1>0
  <2>. QED  BY <1>2, <2>1 DEF Past
<1>6. Passed = {}
  BY <1>1, <1>4, <1>5 DEF Early, Slept
<1>7. semVal["blkp4"] <= 0
  <2>1. c \in Met
    BY <1>1, <1>5 DEF Met
  <2>. QED  BY <1>4, <2>1 DEF Early, Signal, Signalled
<1>8. p_prnt[p] = NULL
  BY <1>4, <1>6, <1>7 DEF Early, Gate
<1>9. r \in Live /\ p_prnt[r] = NULL /\ r # p
  BY <1>4 DEF Early, Waiting, Safe, At
<1> DEFINE roots == {q \in Live : p_prnt[q] = NULL}
<1>10. IsFiniteSet(roots)
  <2>1. roots \subseteq Pcb
    BY DEF Live
  <2>. QED  BY <2>1, PcbAssumption, FS_Subset
<1>11. {r, p} \subseteq roots
  BY <1>8, <1>9
<1> HIDE DEF roots
<1>12. Cardinality({r, p}) = 2
  <2>1. IsFiniteSet({r}) /\ Cardinality({r}) = 1
    BY FS_Singleton
  <2>2. {r} \cup {p} = {r, p} /\ p \notin {r}
    BY <1>9
  <2>3. Cardinality({r} \cup {p}) = Cardinality({r}) + 1
    BY <2>1, <2>2, FS_AddElement
  <2>. QED  BY <2>1, <2>2, <2>3
<1>13. Cardinality({r, p}) <= Cardinality(roots)
  BY <1>10, <1>11, FS_Subset
<1>14. Cardinality(roots) \in Nat
  BY <1>10, FS_CardinalityType
<1>15. Cardinality(roots) > 1
  BY <1>12, <1>13, <1>14
<1>. QED  BY <1>15 DEF Orphaned, Enabled, roots

(***************************************************************************)
(* p5's comment on its V(blkp4), ``if p4 and offspring are really dead'':  *)
(* they are.                                                               *)
(***************************************************************************)
THEOREM P4ReallyDead == TestSpec => []P4Dead
<1>1. TestInit => IInv /\ TestInv /\ P4Inv
  BY TestInitially, TestOnNucleus, P4Initially
<1>2. IInv /\ TestInv /\ P4Inv /\ [TestNext]_allVars => (IInv /\ TestInv /\ P4Inv)'
  BY TestNextKeeps, TestOnNucleus, P4Next
<1>3. IInv /\ TestInv /\ P4Inv => P4Dead
  BY DeadAtFree
<1>. QED  BY <1>1, <1>2, <1>3, PTL DEF TestSpec

------------------------------------------------------------------------------
\* Who has the terminal.

(***************************************************************************)
(* Every instruction of the code.                                          *)
(***************************************************************************)
Anything == Outside \cup Inside \cup {UntilHalf}

(***************************************************************************)
(* A piece of code that ends no message half way: P(term_mut) and every    *)
(* instruction of a message but the last are followed by another one of    *)
(* the message.                                                            *)
(***************************************************************************)
Closes(c) ==
  /\ c \in Seq(Anything)
  /\ \A i \in 1 .. Len(c) :
       c[i] \in Enter => i + 1 \in 1 .. Len(c) /\ c[i+1] \in Inside

(***************************************************************************)
(* Two such pieces one after the other are one.                            *)
(***************************************************************************)
LEMMA ClosesConcat ==
  ASSUME NEW c, NEW d, Closes(c), Closes(d)
  PROVE  Closes(c \o d)
<1> DEFINE e == c \o d
<1>0. c \in Seq(Anything) /\ d \in Seq(Anything)
  BY DEF Closes
<1>1. /\ e \in Seq(Anything) /\ Len(e) = Len(c) + Len(d)
      /\ Len(c) \in Nat /\ Len(d) \in Nat
      /\ \A i \in 1 .. Len(c) : e[i] = c[i]
      /\ \A i \in 1 .. Len(d) : e[Len(c) + i] = d[i]
  BY <1>0, ConcatAt
<1> HIDE DEF e
<1>2. ASSUME NEW i \in 1 .. Len(e), e[i] \in Enter
      PROVE  i + 1 \in 1 .. Len(e) /\ e[i+1] \in Inside
  <2>1. CASE i \in 1 .. Len(c)
    <3>1. i + 1 \in 1 .. Len(c) /\ c[i+1] \in Inside
      BY <1>1, <1>2, <2>1 DEF Closes
    <3>. QED  BY <1>1, <3>1
  <2>2. CASE i \notin 1 .. Len(c)
    <3>1. PICK k \in 1 .. Len(d) : i = Len(c) + k
      <4>1. i - Len(c) \in 1 .. Len(d) /\ i = Len(c) + (i - Len(c))
        BY <1>1, <2>2
      <4>. QED  BY <4>1
    <3>2. k + 1 \in 1 .. Len(d) /\ d[k+1] \in Inside
      BY <1>1, <1>2, <3>1 DEF Closes
    <3>3. i + 1 = Len(c) + (k + 1) /\ i + 1 \in 1 .. Len(e)
      BY <1>1, <3>1, <3>2
    <3>. QED  BY <1>1, <3>2, <3>3
  <2>. QED  BY <2>1, <2>2
<1>. QED  BY <1>1, <1>2 DEF Closes, e

(***************************************************************************)
(* So is a piece repeated, ...                                             *)
(***************************************************************************)
LEMMA ClosesRepeat ==
  ASSUME NEW body, Closes(body), NEW n \in Nat
  PROVE  Closes(Repeat(n, body))
<1> DEFINE S == {c \in Seq(Anything) : Closes(c)}
<1>1. \A c : c \in S <=> Closes(c)
  BY DEF Closes
<1> HIDE DEF S
<1>2. <<>> \in S
  <2>1. Closes(<<>>)
    BY DEF Closes
  <2>. QED  BY <1>1, <2>1
<1>3. \A c, d \in S : c \o d \in S
  BY <1>1, ClosesConcat
<1>. QED  BY <1>1, <1>2, <1>3, RepeatLemma

(***************************************************************************)
(* ... an instruction outside a message, the wait for half a clock         *)
(* interval ...                                                            *)
(***************************************************************************)
LEMMA ClosesAside ==
  ASSUME NEW c \in Seq(Anything \ Enter)
  PROVE  Closes(c)
<1>1. \A i \in 1 .. Len(c) : c[i] \notin Enter /\ c[i] \in Anything
  OBVIOUS
<1>2. c \in Seq(Anything)
  OBVIOUS
<1>. QED  BY <1>1, <1>2 DEF Closes

(***************************************************************************)
(* ... and a message.                                                      *)
(***************************************************************************)
LEMMA ClosesPrint == Closes(print)
<1> DEFINE C == {Char, Wait}
           loop == Repeat(MsgLen, <<Char, Wait>>)
           a == <<P("term_mut")>> \o loop
           c == a \o <<V("term_mut")>>
<1>1. loop \in Seq(C)
  <2>1. /\ <<>> \in Seq(C) /\ <<Char, Wait>> \in Seq(C)
        /\ \A x, y \in Seq(C) : x \o y \in Seq(C)
    OBVIOUS
  <2> HIDE DEF C
  <2>. QED  BY <2>1, RepeatLemma, TestAssumption
<1>2. print = c
  BY DEF print
<1>3. /\ C \subseteq Anything /\ C \subseteq Inside
      /\ P("term_mut") \in Anything /\ V("term_mut") \in Anything
      /\ V("term_mut") \in Inside
  BY PlainFacts DEF Anything, Inside, Outside
<1>4. V("term_mut") \notin Enter
  BY Kinds
<1> HIDE DEF C, loop
<1>5. /\ a \in Seq(Anything) /\ Len(a) \in Nat
      /\ \A i \in 1 .. Len(a) : i # 1 => a[i] \in C
  <2>1. loop \in Seq(Anything) /\ <<P("term_mut")>> \in Seq(Anything)
    BY <1>1, <1>3
  <2>2. a \in Seq(Anything) /\ Len(a) = Len(loop) + 1 /\ Len(loop) \in Nat
    BY <2>1
  <2>3. \A i \in 1 .. Len(loop) : a[1 + i] = loop[i]
    BY <2>1
  <2>4. \A i \in 1 .. Len(loop) : loop[i] \in C
    BY <1>1
  <2> HIDE DEF a
  <2>5. ASSUME NEW i \in 1 .. Len(a), i # 1  PROVE a[i] \in C
    <3>1. i - 1 \in 1 .. Len(loop) /\ i = 1 + (i - 1)
      BY <2>2, <2>5
    <3>. QED  BY <2>3, <2>4, <3>1
  <2>. QED  BY <2>2, <2>5
<1> HIDE DEF a
<1>6. /\ c \in Seq(Anything) /\ Len(c) = Len(a) + 1
      /\ \A i \in 1 .. Len(a) : c[i] = a[i]
      /\ c[Len(a) + 1] = V("term_mut")
  <2>1. <<V("term_mut")>> \in Seq(Anything)
    BY <1>3
  <2>. QED  BY <1>5, <2>1
<1> HIDE DEF c
<1>7. ASSUME NEW i \in 1 .. Len(c), c[i] \in Enter
      PROVE  i + 1 \in 1 .. Len(c) /\ c[i+1] \in Inside
  <2>1. i # Len(a) + 1
    BY <1>4, <1>6, <1>7
  <2>2. i + 1 \in 1 .. Len(c) /\ (i + 1 = Len(a) + 1 \/ i + 1 \in 1 .. Len(a)) /\ i + 1 # 1
    BY <1>5, <1>6, <2>1
  <2>. QED  BY <1>3, <1>5, <1>6, <2>2
<1>. QED  BY <1>2, <1>6, <1>7 DEF Closes

(***************************************************************************)
(* The instructions outside a message, but for P(term_mut).                *)
(***************************************************************************)
Aside == Anything \ Enter

LEMMA AsideFacts ==
  /\ P("startp2") \in Aside /\ P("endp2") \in Aside /\ P("endp3") \in Aside
  /\ P("endp4") \in Aside /\ P("endp5") \in Aside /\ P("endp8") \in Aside
  /\ P("endcreate") \in Aside /\ P("synp4") \in Aside /\ P("blkp4") \in Aside
  /\ P("s") \in Aside /\ P("blkp8") \in Aside
  /\ V("testsem") \in Aside /\ V("s") \in Aside /\ V("startp2") \in Aside
  /\ V("endp2") \in Aside /\ V("endp3") \in Aside /\ V("endp4") \in Aside
  /\ V("endp5") \in Aside /\ V("endp8") \in Aside /\ V("endcreate") \in Aside
  /\ V("synp4") \in Aside /\ V("blkp4") \in Aside
  /\ Clockwait \in Aside /\ UntilHalf \in Aside
  /\ Exit \in Aside /\ Trap \in Aside /\ Store \in Aside
  /\ \A x \in Creates : x \in Aside
<1>1. \A s : V(s) \notin Enter
  BY Kinds
<1>2. \A s : s # "term_mut" => P(s) \notin Enter
  BY DEF Enter, P, Char, Wait
<1>3. {Clockwait, UntilHalf, Exit, Trap, Store} \cap Enter = {}
  BY DEF Enter, P, Char, Wait, Clockwait, UntilHalf, Exit, Trap, Store
<1>4. \A x \in Creates : x \notin Enter
  <2>1. \A prog, sup : Create(prog, sup) \notin Enter
    BY DEF Create, Enter, P, Char, Wait
  <2>. QED  BY <2>1 DEF Creates
<1>5. Plain \subseteq Anything /\ Creates \subseteq Anything /\ UntilHalf \in Anything
  BY DEF Anything, Outside
<1>6. /\ P("startp2") \in Aside /\ P("endp2") \in Aside /\ P("endp3") \in Aside
      /\ P("endp4") \in Aside /\ P("endp5") \in Aside /\ P("endp8") \in Aside
      /\ P("endcreate") \in Aside /\ P("synp4") \in Aside /\ P("blkp4") \in Aside
      /\ P("s") \in Aside /\ P("blkp8") \in Aside
  BY <1>2, <1>5, PlainFacts, Zenon DEF Aside
<1>7. /\ V("testsem") \in Aside /\ V("s") \in Aside /\ V("startp2") \in Aside
      /\ V("endp2") \in Aside /\ V("endp3") \in Aside /\ V("endp4") \in Aside
      /\ V("endp5") \in Aside /\ V("endp8") \in Aside /\ V("endcreate") \in Aside
      /\ V("synp4") \in Aside /\ V("blkp4") \in Aside
  BY <1>1, <1>5, PlainFacts, Zenon DEF Aside
<1>8. /\ Clockwait \in Aside /\ UntilHalf \in Aside
      /\ Exit \in Aside /\ Trap \in Aside /\ Store \in Aside
  BY <1>3, <1>5, PlainFacts DEF Aside
<1>9. \A x \in Creates : x \in Aside
  BY <1>4, <1>5 DEF Aside
<1>. QED  BY <1>6, <1>7, <1>8, <1>9

(***************************************************************************)
(* The programs end no message half way.                                   *)
(***************************************************************************)
LEMMA testCloses == Closes(test)
<1> DEFINE m2 == Create("p2", FALSE)
           m3 == Create("p3", FALSE)
           m4 == Create("p4", FALSE)
           m5 == Create("p5", TRUE)
           m6 == Create("p6", FALSE)
           m7 == Create("p7", FALSE)
           m8 == Create("p8root", FALSE)
<1>1. /\ m2 \in Aside /\ m3 \in Aside /\ m4 \in Aside /\ m5 \in Aside
      /\ m6 \in Aside /\ m7 \in Aside /\ m8 \in Aside
  BY CreateFacts, AsideFacts, Zenon
<1> DEFINE a == <<V("testsem")>>
           b == <<m2>>
           c == <<V("startp2"), P("endp2"), m3>>
           d == <<P("endp3"), m4, m5, m6, m7, P("endp5")>>
           e == <<P("blkp4")>>
           f == <<m8, P("endp8")>>
           t == <<Trap>>
<1>2. test = a \o print \o b \o print \o c \o print \o d \o print
               \o e \o Repeat(Incarnations, f) \o print \o t
  BY Zenon DEF test
<1> HIDE DEF m2, m3, m4, m5, m6, m7, m8
<1>3. /\ a \in Seq(Aside) /\ b \in Seq(Aside) /\ c \in Seq(Aside) /\ d \in Seq(Aside)
      /\ e \in Seq(Aside) /\ f \in Seq(Aside) /\ t \in Seq(Aside)
  BY <1>1, AsideFacts
<1> HIDE DEF a, b, c, d, e, f, t
<1>4. /\ Closes(a) /\ Closes(b) /\ Closes(c) /\ Closes(d) /\ Closes(e) /\ Closes(f)
      /\ Closes(t)
  BY <1>3, ClosesAside DEF Aside
<1>5. Closes(Repeat(Incarnations, f))
  BY <1>4, ClosesRepeat, TestAssumption
<1>. QED  BY <1>2, <1>4, <1>5, ClosesPrint, ClosesConcat

LEMMA p23Closes == Closes(p2) /\ Closes(p3)
<1> DEFINE a == <<P("startp2")>>
           b == <<V("s"), P("s")>>
           c == <<V("endp2"), Exit>>
           d == <<Clockwait, UntilHalf>>
           e == <<Clockwait>>
           f == <<V("endp3"), Exit>>
<1>1. /\ p2 = a \o print \o b \o print \o print \o c
      /\ p3 = d \o print \o Repeat(CLOCKLOOP, e) \o print \o f
  BY DEF p2, p3
<1>2. /\ a \in Seq(Aside) /\ b \in Seq(Aside) /\ c \in Seq(Aside) /\ d \in Seq(Aside)
      /\ e \in Seq(Aside) /\ f \in Seq(Aside)
  BY AsideFacts
<1> HIDE DEF a, b, c, d, e, f
<1>3. Closes(a) /\ Closes(b) /\ Closes(c) /\ Closes(d) /\ Closes(e) /\ Closes(f)
  BY <1>2, ClosesAside DEF Aside
<1>4. Closes(Repeat(CLOCKLOOP, e))
  BY <1>3, ClosesRepeat, TestAssumption
<1>. QED  BY <1>1, <1>3, <1>4, ClosesPrint, ClosesConcat

LEMMA p45Closes == Closes(p4) /\ Closes(p5)
<1> DEFINE m4 == Create("p4", FALSE)
<1>1. m4 \in Aside
  BY CreateFacts, AsideFacts, Zenon
<1> DEFINE a == <<V("synp4"), P("blkp4"), P("synp4"), m4, P("synp4")>>
           b == <<V("endp4"), Exit>>
           t == <<Trap>>
           s == <<Store>>
           c == <<P("endp4"), Clockwait, UntilHalf, V("blkp4"), V("endp5"), Exit>>
<1>2. p4 = print \o a \o print \o b
  BY Zenon DEF p4
<1>3. p5 = print \o t \o print \o (s \o (print \o print))
             \o (t \o print \o t \o print \o c)
  BY DEF p5, p5gen, p5a, p5b, p5mm, p5sys
<1> HIDE DEF m4
<1>4. /\ a \in Seq(Aside) /\ b \in Seq(Aside) /\ t \in Seq(Aside) /\ s \in Seq(Aside)
      /\ c \in Seq(Aside)
  BY <1>1, AsideFacts
<1> HIDE DEF a, b, c, s, t
<1>5. Closes(a) /\ Closes(b) /\ Closes(c) /\ Closes(s) /\ Closes(t)
  BY <1>4, ClosesAside DEF Aside
<1>6. Closes(p4)
  BY <1>2, <1>5, ClosesPrint, ClosesConcat
<1>7. Closes(p5)
  BY <1>3, <1>5, ClosesPrint, ClosesConcat
<1>. QED  BY <1>6, <1>7

LEMMA otherCloses ==
  /\ Closes(p6) /\ Closes(p7) /\ Closes(p8root) /\ Closes(child1) /\ Closes(child2)
  /\ Closes(p8leaf)
<1> DEFINE m1 == Create("child1", FALSE)
           m2 == Create("child2", FALSE)
           m3 == Create("p8leaf", FALSE)
<1>1. m1 \in Aside /\ m2 \in Aside /\ m3 \in Aside
  BY CreateFacts, AsideFacts, Zenon
<1> DEFINE t == <<Trap>>
           a == <<m1, m2>>
           b == <<P("endcreate")>>
           c == <<V("endp8"), Exit>>
           d == <<m3, m3, P("blkp8")>>
           e == <<V("endcreate"), P("blkp8")>>
<1>2. /\ p6 = print \o t /\ p7 = print \o t
      /\ p8root = print \o a \o Repeat(4, b) \o c
      /\ child1 = print \o d /\ child2 = print \o d /\ p8leaf = print \o e
  BY Zenon DEF p6, p7, p8root, child1, child2, p8leaf
<1> HIDE DEF m1, m2, m3
<1>3. /\ t \in Seq(Aside) /\ a \in Seq(Aside) /\ b \in Seq(Aside) /\ c \in Seq(Aside)
      /\ d \in Seq(Aside) /\ e \in Seq(Aside)
  BY <1>1, AsideFacts
<1> HIDE DEF a, b, c, d, e, t
<1>4. /\ Closes(t) /\ Closes(a) /\ Closes(b) /\ Closes(c) /\ Closes(d) /\ Closes(e)
  BY <1>3, ClosesAside DEF Aside
<1>5. Closes(Repeat(4, b))
  BY <1>4, ClosesRepeat
<1>. QED  BY <1>2, <1>4, <1>5, ClosesPrint, ClosesConcat

(***************************************************************************)
(* So after P(term_mut), and after an instruction of a message other than  *)
(* the V(term_mut) at its end, the message goes on.                        *)
(***************************************************************************)
LEMMA MessageGoesOn ==
  ASSUME NEW prog \in DOMAIN Code, NEW i \in 1 .. Len(Code[prog]), Code[prog][i] \in Enter
  PROVE  i + 1 \in 1 .. Len(Code[prog]) /\ Code[prog][i+1] \in Inside
<1>1. DOMAIN Code = {"test", "p2", "p3", "p4", "p5", "p6", "p7", "p8root", "child1",
                     "child2", "p8leaf"}
  BY DEF Code
<1>2. /\ Code["test"] = test /\ Code["p2"] = p2 /\ Code["p3"] = p3 /\ Code["p4"] = p4
      /\ Code["p5"] = p5 /\ Code["p6"] = p6 /\ Code["p7"] = p7
      /\ Code["p8root"] = p8root /\ Code["child1"] = child1
      /\ Code["child2"] = child2 /\ Code["p8leaf"] = p8leaf
  BY DEF Code
<1>3. Closes(Code[prog])
  BY <1>1, <1>2, testCloses, p23Closes, p45Closes, otherCloses
<1>. QED  BY <1>3 DEF Closes

(***************************************************************************)
(* A process that gets on with V(s) gives to s.                            *)
(***************************************************************************)
LEMMA GivesLemma ==
  ASSUME IInv, TestInv, [TestNext]_allVars, NEW p \in Live', Advances(p),
         NEW s \in UserSem, Instruction(p) = V(s)
  PROVE  Gives(s) /\ UNCHANGED pcbFree
<1>0. /\ p = currentProcess /\ cpu = "run" /\ p \in Pcb /\ p \in Live
      /\ pc'[p] = <<pc[p][1], pc[p][2] + 1>>
  BY DEF Advances, Live
<1>1. pc'[p] # pc[p]
  <2>1. pc[p] \in (DOMAIN Code) \X Nat
    BY <1>0 DEF TestInv
  <2>2. pc[p][2] \in Nat
    BY <2>1
  <2>3. <<pc[p][1], pc[p][2] + 1>>[2] = pc[p][2] + 1
    OBVIOUS
  <2>4. pc[p][2] # pc[p][2] + 1
    BY <2>2
  <2>. QED  BY <1>0, <2>3, <2>4
<1>2. ~Counters(pc) /\ pc' # pc
  BY <1>0, <1>1 DEF Counters, Live
<1>3. Execute
  BY <1>2 DEF TestNext, Terminating, BusError, Tick, Sent, Preempt, Kernel, Halted,
     allVars
<1>4. /\ Instruction(currentProcess) = V(s)
      /\ V(s) \notin {Clockwait, UntilHalf, Store, Exit, Trap, Char, Wait}
      /\ \A t : V(t) = V(s) => t = s
      /\ \A t : P(t) # V(s)
      /\ \A prog, sup : Create(prog, sup) # V(s)
  BY <1>0, Apart
<1>5. RunSimple
  BY <1>3, <1>4 DEF Execute, RunClockwait, HalfPassed, HalfNotPassed, RefillAgain
<1>6. Verhogen(s)
  BY <1>4, <1>5 DEF RunSimple, Simple
<1>7. Loosens /\ semVal'[s] = semVal[s] + 1 /\ s \in Sem /\ UNCHANGED pcbFree
  BY <1>6, VerhogenLoosens, VerhogenEffect, UserSems DEF Verhogen, treeVars, pcbVars
<1>. QED  BY <1>0, <1>4, <1>7 DEF Gives, Loosens

(***************************************************************************)
(* Whoever waits on term_mut is past its P(term_mut), in a message that it *)
(* will print.                                                             *)
(***************************************************************************)
Lined == \A p \in Live : p \in ToSet(procQ["term_mut"]) => InsideAt(pc[p])

(***************************************************************************)
(* Where the process that takes the terminal, or prints, is next.          *)
(***************************************************************************)
LEMMA EntersMessage ==
  ASSUME IInv, TestInv, NEW p \in Live, Advances(p), Instruction(p) \in Enter
  PROVE  InsideAt(pc'[p])
<1>0. p = currentProcess /\ cpu = "run" /\ pc'[p] = <<pc[p][1], pc[p][2] + 1>>
  BY DEF Advances
<1> DEFINE prog == pc[p][1]
           i == pc[p][2]
<1>1. prog \in DOMAIN Code /\ i \in 1 .. Len(Code[prog])
  BY <1>0, Executing
<1>2. Code[prog][i] \in Enter
  BY DEF Instruction
<1>3. pc'[p] = <<prog, i + 1>>
  BY <1>0
<1>4. Len(Code[prog]) \in Nat
  BY <1>1, SectionLemma
<1> HIDE DEF prog, i
<1>5. i + 1 \in 1 .. Len(Code[prog]) /\ Code[prog][i+1] \in Inside
  BY <1>1, <1>2, MessageGoesOn
<1>6. pc'[p][1] = prog /\ pc'[p][2] = i + 1
  BY <1>3
<1>7. i + 1 > 0 /\ i + 1 <= Len(Code[prog])
  BY <1>4, <1>5
<1>. QED  BY <1>5, <1>6, <1>7 DEF InsideAt

LEMMA LinedKeeps ==
  ASSUME IInv, TestInv, Lined, [TestNext]_allVars
  PROVE  Lined'
<1>0. StepFacts /\ "term_mut" \in UserSem /\ "term_mut" \in Sem
  BY TestStepFacts, UserSems, TestAssumption
<1>1. ASSUME NEW p \in Live', p \in ToSet(procQ'["term_mut"])
      PROVE  InsideAt(pc'[p])
  <2>1. CASE p \in ToSet(procQ["term_mut"])
    <3>1. p \in Live /\ p # currentProcess
      BY <1>0, <2>1 DEF IInv, Places, Live
    <3>2. Stays(p)
      BY <1>0, <1>1, <3>1 DEF StepFacts, Positions, Advances, Retries, Starts, Live
    <3>. QED  BY <2>1, <3>1, <3>2 DEF Lined, Stays
  <2>2. CASE p \notin ToSet(procQ["term_mut"])
    <3>1. Takes("term_mut") /\ p = currentProcess
      BY <1>0, <1>1, <2>2 DEF StepFacts, Rests, Gives, Takes
    <3>2. Advances(p) /\ Instruction(p) \in Enter
      BY <3>1 DEF Takes, Enter
    <3>3. p \in Live
      BY <3>2 DEF Advances
    <3>. QED  BY <3>2, <3>3, EntersMessage
  <2>. QED  BY <2>1, <2>2
<1>. QED  BY <1>1 DEF Lined

LEMMA LinedInit ==
  ASSUME TestInit
  PROVE  Lined
<1>1. procQ["term_mut"] = <<>>
  BY UserSems, TestAssumption DEF TestInit, Init, mkEmptyProcQ
<1>2. ToSet(procQ["term_mut"]) = {}
  BY <1>1 DEF ToSet
<1>. QED  BY <1>2 DEF Lined

(***************************************************************************)
(* The terminal is accounted for just when term_mut is free or somebody    *)
(* prints.                                                                 *)
(***************************************************************************)
Accounted ==
  PrintReturned <=> cpu = "lost" \/ semVal["term_mut"] = 1 \/ Printing # {}

LEMMA ReturnedIs ==
  ASSUME IInv, TestInv
  PROVE  Accounted
<1> DEFINE n == semVal["term_mut"]
           k == Len(procQ["term_mut"])
           m == Cardinality(Printing)
<1>1. n \in Int /\ n <= 1 /\ (n = 1 => Printing = {})
  BY UserSems, TestAssumption DEF IInv, Types, TestInv, Alone
<1>2. k = IF n < 0 THEN -n ELSE 0
  BY TestAssumption DEF IInv, SemaphoreCountsWaiters
<1>3. Printing = {} => m = 0
  BY FS_EmptySet
<1>4. Printing # {} => m = 1
  <2> HAVE Printing # {}
  <2>1. PICK p : p \in Printing
    OBVIOUS
  <2>2. Printing = {p}
    BY <2>1 DEF TestInv, Alone
  <2>. QED  BY <2>2, FS_Singleton
<1>5. PrintReturned <=> (cpu # "lost" => n = 1 - m - k)
  BY DEF PrintReturned
<1> HIDE DEF n, k, m
<1>6. CASE Printing = {}
  <2>1. n = 1 - m - k <=> n = 1
    BY <1>1, <1>2, <1>3, <1>6
  <2>. QED  BY <1>5, <1>6, <2>1 DEF n, Accounted
<1>7. CASE Printing # {}
  <2>1. n = 1 - m - k
    BY <1>1, <1>2, <1>4, <1>7
  <2>. QED  BY <1>5, <1>7, <2>1 DEF n, Accounted
<1>. QED  BY <1>6, <1>7

(***************************************************************************)
(* V(term_mut) with processes waiting hands the terminal to one of them.   *)
(***************************************************************************)
LEMMA HandsOver ==
  ASSUME IInv, IInv', TestInv, Lined, StepFacts, Gives("term_mut"), UNCHANGED pcbFree,
         semVal["term_mut"] < 0
  PROVE  Printing' # {}
<1> DEFINE Q == ToSet(procQ["term_mut"])
           R == ToSet(procQ'["term_mut"])
<1>0. /\ "term_mut" \in UserSem /\ "term_mut" \in Sem
      /\ semVal["term_mut"] \in Int /\ semVal'["term_mut"] = semVal["term_mut"] + 1
      /\ procQ["term_mut"] \in Seq(Pcb) /\ procQ'["term_mut"] \in Seq(Pcb)
      /\ IsInjective(procQ["term_mut"]) /\ IsInjective(procQ'["term_mut"])
  BY UserSems, TestAssumption DEF IInv, Types, Places, Gives
<1>1. /\ Len(procQ["term_mut"]) = -semVal["term_mut"]
      /\ Len(procQ'["term_mut"]) = -semVal["term_mut"] - 1
  <2>1. Len(procQ["term_mut"]) = IF semVal["term_mut"] < 0 THEN -semVal["term_mut"] ELSE 0
    BY <1>0 DEF IInv, SemaphoreCountsWaiters
  <2>2. Len(procQ'["term_mut"]) = IF semVal'["term_mut"] < 0 THEN -semVal'["term_mut"] ELSE 0
    BY <1>0 DEF IInv, SemaphoreCountsWaiters
  <2>. QED  BY <1>0, <2>1, <2>2
<1>2. /\ IsFiniteSet(Q) /\ Cardinality(Q) = Len(procQ["term_mut"])
      /\ IsFiniteSet(R) /\ Cardinality(R) = Len(procQ'["term_mut"])
  BY <1>0, LenLemma
<1>3. PICK q \in Q : q \notin R
  <2>1. ~(Q \subseteq R)
    <3> SUFFICES ASSUME Q \subseteq R  PROVE FALSE
      OBVIOUS
    <3>1. Cardinality(Q) <= Cardinality(R)
      BY <1>2, FS_Subset
    <3>. QED  BY <1>0, <1>1, <1>2, <3>1
  <2>. QED  BY <2>1
<1>4. q \in Live /\ q # currentProcess /\ q \in Pcb
  <2>1. q \in Pcb
    BY <1>0, <1>3, SeqFacts DEF ToSet
  <2>2. q \notin pcbFree
    BY <1>0, <1>3 DEF IInv, Places
  <2>3. q # currentProcess
    <3>1. cpu = "run"
      BY DEF Gives, Advances
    <3>. QED  BY <1>0, <1>3, <3>1, Executing
  <2>. QED  BY <2>1, <2>2, <2>3 DEF Live
<1>5. q \in Live'
  BY <1>4 DEF Live
<1>6. Stays(q)
  BY <1>4, <1>5 DEF StepFacts, Positions, Advances, Retries, Starts, Live
<1>7. InsideAt(pc'[q])
  BY <1>3, <1>4, <1>6 DEF Lined, Stays
<1>. QED  BY <1>3, <1>5, <1>7, PrintingIs

(***************************************************************************)
(* A step after which the terminal is no longer accounted for has freed    *)
(* the process that was printing.                                          *)
(***************************************************************************)
LEMMA TerminalStep ==
  ASSUME IInv, IInv', TestInv, TestInv', Lined, Accounted, Accounted',
         [TestNext]_allVars, PrintReturned, ~PrintReturned'
  PROVE  \E p \in Printing : p \in pcbFree'
<1>0. /\ StepFacts /\ "term_mut" \in UserSem /\ "term_mut" \in Sem
      /\ semVal["term_mut"] \in Int /\ semVal'["term_mut"] \in Int
      /\ semVal["term_mut"] <= 1 /\ semVal'["term_mut"] <= 1
  BY TestStepFacts, UserSems, TestAssumption DEF IInv, Types, TestInv, Alone
<1>1. cpu' # "lost" /\ semVal'["term_mut"] # 1 /\ Printing' = {}
  <2>1. PrintReturned' <=> cpu' = "lost" \/ semVal'["term_mut"] = 1 \/ Printing' # {}
    BY DEF Accounted
  <2>. QED  BY <2>1
<1>2. semVal'["term_mut"] <= 0
  BY <1>0, <1>1
<1>3. cpu # "lost"
  <2> SUFFICES ASSUME cpu = "lost"  PROVE FALSE
    OBVIOUS
  <2>1. cpu' = "lost"
    BY <1>0 DEF TestNext, Execute, Terminating, BusError, Tick, Sent, Preempt, Halted,
       Kernel, Stopped, Sys2Helper, KillChild, KillBlocked, KillStale, KillReady,
       KillCurrent, KillSelf, ClockTick, DeviceInterrupt, TimeSlice, Enabled,
       allVars, vars
  <2>. QED  BY <1>1, <2>1
<1>4. semVal["term_mut"] = 1 \/ Printing # {}
  BY <1>3 DEF Accounted
<1>5. CASE Printing = {}
  <2>1. semVal["term_mut"] = 1
    BY <1>4, <1>5
  <2>2. ~Rests("term_mut")
    BY <1>1, <2>1 DEF Rests, Calm
  <2>3. ~Gives("term_mut")
    BY <1>2, <2>1 DEF Gives
  <2>4. Takes("term_mut")
    BY <1>0, <2>2, <2>3 DEF StepFacts
  <2>5. PICK c : c = currentProcess
    OBVIOUS
  <2>6. /\ Advances(c) /\ c \in Live' /\ c \notin ToSet(procQ'["term_mut"])
        /\ Instruction(c) \in Enter
    BY <2>1, <2>4, <2>5 DEF Takes, Enter
  <2>7. InsideAt(pc'[c])
    BY <2>6, EntersMessage DEF Advances
  <2>8. c \in Printing'
    BY <2>6, <2>7, PrintingIs
  <2>. QED  BY <1>1, <2>8
<1>6. CASE Printing # {}
  <2> SUFFICES ASSUME \A p \in Printing : p \notin pcbFree'  PROVE FALSE
    OBVIOUS
  <2>1. PICK p : p \in Printing
    BY <1>6
  <2>2. /\ p \in Live /\ p \notin ToSet(procQ["term_mut"]) /\ InsideAt(pc[p])
        /\ Instruction(p) \in Inside
    BY <2>1, PrintingIs DEF InsideAt, Instruction
  <2>3. p \in Live'
    BY <2>1, <2>2 DEF Live
  <2>4. semVal["term_mut"] <= 0
    <3>1. semVal["term_mut"] # 1
      BY <2>1 DEF TestInv, Alone
    <3>. QED  BY <1>0, <3>1
  <2>5. CASE Advances(p) /\ Instruction(p) = V("term_mut")
    <3>1. Gives("term_mut") /\ UNCHANGED pcbFree
      BY <1>0, <2>3, <2>5, GivesLemma
    <3>2. semVal'["term_mut"] = semVal["term_mut"] + 1
      BY <3>1 DEF Gives
    <3>3. semVal["term_mut"] < 0
      BY <1>0, <1>2, <3>2
    <3>4. Printing' # {}
      BY <1>0, <3>1, <3>3, HandsOver
    <3>. QED  BY <1>1, <3>4
  <2>6. CASE ~(Advances(p) /\ Instruction(p) = V("term_mut"))
    <3>1. Stays(p) \/ Advances(p)
      <4>1. Instruction(p) # UntilHalf
        BY <2>2, Apart DEF Inside
      <4>2. p \notin pcbFree
        BY <2>2 DEF Live
      <4>. QED  BY <1>0, <2>3, <4>1, <4>2 DEF StepFacts, Positions, Retries, Starts
    <3>2. InsideAt(pc'[p])
      <4>1. CASE Stays(p)
        BY <2>2, <4>1 DEF Stays
      <4>2. CASE Advances(p)
        <5>1. Instruction(p) \in Enter
          BY <2>2, <2>6, <4>2 DEF Inside, Enter
        <5>. QED  BY <2>2, <4>2, <5>1, EntersMessage
      <4>. QED  BY <3>1, <4>1, <4>2
    <3>3. p \notin ToSet(procQ'["term_mut"])
      <4>1. CASE Rests("term_mut") \/ Gives("term_mut")
        BY <2>2, <4>1 DEF Rests, Gives
      <4>2. CASE Takes("term_mut")
        <5>1. P("term_mut") \notin Inside
          BY Apart DEF Inside
        <5>2. p # currentProcess
          BY <2>2, <4>2, <5>1 DEF Takes
        <5>. QED  BY <2>2, <4>2, <5>2 DEF Takes
      <4>. QED  BY <1>0, <4>1, <4>2 DEF StepFacts
    <3>4. p \in Printing'
      BY <2>3, <3>2, <3>3, PrintingIs
    <3>. QED  BY <1>1, <3>4
  <2>. QED  BY <2>5, <2>6
<1>. QED  BY <1>5, <1>6

(***************************************************************************)
(* The terminal is lost in one way only: by freeing the process that       *)
(* prints. P(term_mut) gives it to the caller, V(term_mut) to one that     *)
(* waits if there is one, and no interrupt, preemption, exception or       *)
(* termination of others changes who has it, or that a message goes on     *)
(* to its V(term_mut).                                                     *)
(***************************************************************************)
OnlyDeathLosesTerminal ==
  [][PrintReturned /\ ~PrintReturned' => \E p \in Printing : p \in pcbFree']_allVars

THEOREM TerminalLostByDeath == TestSpec => OnlyDeathLosesTerminal
<1>1. TestInit => Lined
  BY LinedInit
<1>2. IInv /\ TestInv /\ Lined /\ [TestNext]_allVars => Lined'
  BY LinedKeeps
<1>3. IInv /\ TestInv => Accounted
  BY ReturnedIs
<1>4. IInv /\ IInv' /\ TestInv /\ TestInv' /\ Lined /\ Accounted /\ Accounted'
        /\ [TestNext]_allVars
        => [PrintReturned /\ ~PrintReturned' => \E p \in Printing : p \in pcbFree']_allVars
  BY TerminalStep
<1>. QED  BY <1>1, <1>2, <1>3, <1>4, TestInvariance, PTL DEF TestSpec, OnlyDeathLosesTerminal
==============================================================================
