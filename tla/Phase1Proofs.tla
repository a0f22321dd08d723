---------------------------- MODULE Phase1Proofs ----------------------------
(***************************************************************************)
(* The pointers of pcb.c's queues and free list implement PcbPool, for any *)
(* size of the table and any number of queues.  The proof computes, for    *)
(* each function, the sequences its links form afterwards.                 *)
(***************************************************************************)
EXTENDS MCPhase1, TLAPS, FiniteSetTheorems

Q == INSTANCE ProcQProofs

PcbOrNull == Pcb \cup {NULL}

LEMMA PcbFacts == IsFiniteSet(Pcb) /\ 0 \notin Pcb /\ MAXPROC \in Nat \ {0}
BY TableAssumption, FS_Interval DEF Pcb

(***************************************************************************)
(* ProcQProofs has its own name for each operator it shares with PcbList.  *)
(***************************************************************************)
LEMMA SameOperators ==
  /\ \A S : Q!Cardinality(S) = Cardinality(S)
  /\ \A S : Q!IsFiniteSet(S) <=> IsFiniteSet(S)
  /\ \A s : Q!ToSet(s) = ToSet(s) /\ Pool!ToSet(s) = ToSet(s)
  /\ \A s : Q!IsInjective(s) <=> IsInjective(s)
<1>1. \A S : Q!Cardinality(S) = Cardinality(S)
  BY Zenon DEF Q!Cardinality, Cardinality, Q!IsFiniteSet, IsFiniteSet
<1>2. \A S : Q!IsFiniteSet(S) <=> IsFiniteSet(S)
  BY Zenon DEF Q!IsFiniteSet, IsFiniteSet
<1>3. \A s : Q!ToSet(s) = ToSet(s) /\ Pool!ToSet(s) = ToSet(s)
  BY DEF Q!ToSet, Pool!ToSet, ToSet
<1>4. \A s : Q!IsInjective(s) <=> IsInjective(s)
  BY DEF Q!IsInjective, IsInjective
<1>. QED  BY <1>1, <1>2, <1>3, <1>4

LEMMA Members ==
  ASSUME NEW s \in Seq(Pcb)
  PROVE  /\ ToSet(s) \subseteq Pcb
         /\ \A x : x \in ToSet(s) <=> \E i \in 1 .. Len(s) : s[i] = x
BY Q!SeqFacts, SameOperators

LEMMA SameWalk ==
  ASSUME NEW link, NEW x, NEW stop
  PROVE  Q!Walk(link, x, stop) = Walk(link, x, stop)
<1> DEFINE loop(k) == CHOOSE at : at = [i \in 1 .. k |->
                        IF i = 1 THEN x
                        ELSE IF at[i-1] \in {0, stop} THEN 0
                        ELSE link[at[i-1]]]
           met(k) == {i \in 1 .. k : loop(k)[i] # 0}
           walk(k, m) == [i \in 1 .. m |-> loop(k)[i]]
           n == Cardinality(DOMAIN link)
           size == Q!Cardinality(DOMAIN link)
<1>1. Walk(link, x, stop) = walk(n, Cardinality(met(n)))
  BY DEF Walk
<1>2. Q!Walk(link, x, stop) = walk(size, Q!Cardinality(met(size)))
  BY DEF Q!Walk
<1>3. n = size
  BY SameOperators
<1> HIDE DEF walk, met, n, size
<1>. QED  BY <1>1, <1>2, <1>3, SameOperators

LEMMA WalkFinds ==
  ASSUME NEW link, DOMAIN link = Pcb, NEW x, NEW stop, NEW s,
         Q!Threaded(link, x, stop, s)
  PROVE  Walk(link, x, stop) = s
<1>1. Q!IsFiniteSet(DOMAIN link) /\ 0 \notin DOMAIN link
  BY PcbFacts, SameOperators
<1>. QED  BY <1>1, Q!WalkLemma, SameWalk

------------------------------------------------------------------------------
(***************************************************************************)
(* The sequence s, from the oldest element to the newest, is threaded      *)
(* through nx and pv as a ring whose newest element is t.                  *)
(***************************************************************************)
IsRing(t, s, nx, pv) ==
  /\ s \in Seq(Pcb)
  /\ \A i, j \in 1 .. Len(s) : s[i] = s[j] => i = j
  /\ t = IF s = <<>> THEN NULL ELSE s[Len(s)]
  /\ \A i \in 1 .. Len(s) :
       /\ pv[s[i]] = IF i = Len(s) THEN s[1] ELSE s[i+1]
       /\ nx[s[i]] = IF i = 1 THEN s[Len(s)] ELSE s[i-1]

(***************************************************************************)
(* The sequence s is threaded through nx as a list from h that ends.       *)
(***************************************************************************)
IsList(h, s, nx) ==
  /\ s \in Seq(Pcb)
  /\ \A i, j \in 1 .. Len(s) : s[i] = s[j] => i = j
  /\ h = IF s = <<>> THEN NULL ELSE s[1]
  /\ \A i \in 1 .. Len(s) : nx[s[i]] = IF i = Len(s) THEN NULL ELSE s[i+1]

(***************************************************************************)
(* Each loop over a list finds the sequence threaded through its links.    *)
(***************************************************************************)
LEMMA RingFound ==
  ASSUME NEW nx \in [Pcb -> PcbOrNull], NEW pv \in [Pcb -> PcbOrNull],
         NEW t, NEW s, IsRing(t, s, nx, pv)
  PROVE  (IF t = NULL THEN <<>> ELSE Walk(pv, pv[t], t)) = s
<1> DEFINE n == Len(s)
<1>1. /\ s \in Seq(Pcb) /\ n \in Nat /\ DOMAIN pv = Pcb
      /\ \A i, j \in 1 .. n : s[i] = s[j] => i = j
      /\ \A i \in 1 .. n : s[i] \in Pcb
      /\ s = <<>> <=> n = 0
      /\ t = IF s = <<>> THEN NULL ELSE s[n]
      /\ \A i \in 1 .. n : pv[s[i]] = IF i = n THEN s[1] ELSE s[i+1]
  BY DEF IsRing
<1>2. CASE s = <<>>
  BY <1>1, <1>2
<1>3. CASE s # <<>>
  <2>1. n \in 1 .. n /\ 1 \in 1 .. n /\ t = s[n] /\ t # NULL
    <3>1. n \in 1 .. n /\ 1 \in 1 .. n
      BY <1>1, <1>3
    <3>. QED  BY <1>1, <1>3, <3>1, PcbFacts DEF NULL
  <2>3. pv[t] = s[1]
    BY <1>1, <2>1
  <2> HIDE DEF n
  <2>4. \A i \in 1 .. n - 1 : s[i] # t /\ pv[s[i]] = s[i+1]
    <3>1. \A i \in 1 .. n - 1 : i \in 1 .. n /\ i # n
      BY <1>1
    <3>. QED  BY <1>1, <2>1, <3>1
  <2>5. Q!Threaded(pv, pv[t], t, s)
    BY <1>1, <1>3, <2>1, <2>3, <2>4 DEF n, Q!Threaded
  <2>6. Walk(pv, pv[t], t) = s
    BY <1>1, <2>5, WalkFinds
  <2>. QED  BY <2>1, <2>6
<1>. QED  BY <1>2, <1>3

LEMMA ListFound ==
  ASSUME NEW nx \in [Pcb -> PcbOrNull], NEW h, NEW s, IsList(h, s, nx)
  PROVE  Walk(nx, h, NULL) = s
<1> DEFINE n == Len(s)
<1>1. /\ s \in Seq(Pcb) /\ n \in Nat /\ DOMAIN nx = Pcb
      /\ \A i, j \in 1 .. n : s[i] = s[j] => i = j
      /\ \A i \in 1 .. n : s[i] \in Pcb
      /\ s = <<>> <=> n = 0
      /\ h = IF s = <<>> THEN NULL ELSE s[1]
      /\ \A i \in 1 .. n : nx[s[i]] = IF i = n THEN NULL ELSE s[i+1]
  BY DEF IsList
<1> HIDE DEF n
<1>3. \A i \in 1 .. n - 1 : s[i] # NULL /\ nx[s[i]] = s[i+1]
  <2>1. \A i \in 1 .. n - 1 : i \in 1 .. n /\ i # n
    BY <1>1
  <2>. QED  BY <1>1, <2>1, PcbFacts DEF NULL
<1>4. s # <<>> => nx[s[n]] = 0
  <2>1. n # 0 => n \in 1 .. n
    BY <1>1
  <2>. QED  BY <1>1, <2>1 DEF NULL
<1>5. Q!Threaded(nx, h, NULL, s)
  BY <1>1, <1>3, <1>4 DEF n, NULL, Q!Threaded
<1>. QED  BY <1>1, <1>5, WalkFinds

LEMMA SearchFound ==
  ASSUME NEW nx \in [Pcb -> PcbOrNull], NEW pv \in [Pcb -> PcbOrNull],
         NEW t, NEW s, IsRing(t, s, nx, pv), s # <<>>
  PROVE  ToSet(Walk(nx, nx[t], t)) = ToSet(s)
<1> DEFINE n == Len(s)
           r == [i \in 1 .. n |-> IF i = n THEN s[n] ELSE s[n-i]]
<1>1. /\ s \in Seq(Pcb) /\ n \in Nat \ {0} /\ DOMAIN nx = Pcb
      /\ \A i, j \in 1 .. n : s[i] = s[j] => i = j
      /\ \A i \in 1 .. n : s[i] \in Pcb
      /\ t = s[n]
      /\ \A i \in 1 .. n : nx[s[i]] = IF i = 1 THEN s[n] ELSE s[i-1]
  BY DEF IsRing
<1> HIDE DEF n
<1>2. \A i \in 1 .. n : i # n => n - i \in 1 .. n /\ n - i # n
  BY <1>1
<1>3. r \in Seq(Pcb) /\ Len(r) = n
  <2>1. \A i \in 1 .. n : r[i] \in Pcb
    BY <1>1, <1>2
  <2>. QED  BY <1>1, <2>1
<1>4. \A i, j \in 1 .. n : r[i] = r[j] => i = j
  BY <1>1, <1>2
<1>5. nx[t] = r[1]
  BY <1>1
<1>6. ASSUME NEW i \in 1 .. n - 1
      PROVE  r[i] # t /\ nx[r[i]] = r[i+1]
  <2>1. i \in 1 .. n /\ i # n /\ i + 1 \in 1 .. n /\ n - i \in 1 .. n /\ n - i # n
    BY <1>1, <1>6
  <2>2. r[i] = s[n-i] /\ r[i] # t
    BY <1>1, <2>1
  <2>3. CASE n - i = 1
    BY <1>1, <2>1, <2>2, <2>3
  <2>4. CASE n - i # 1
    <3>1. i + 1 # n /\ n - (i + 1) = (n - i) - 1
      BY <1>1, <2>1, <2>4
    <3>2. nx[s[n-i]] = s[(n-i) - 1] /\ r[i+1] = s[n - (i+1)]
      BY <1>1, <2>1, <2>4, <3>1
    <3>. QED  BY <2>2, <3>1, <3>2
  <2>. QED  BY <2>2, <2>3, <2>4
<1>7. r[n] = t /\ r # <<>>
  BY <1>1, <1>3
<1>8. ToSet(r) = ToSet(s)
  <2>1. \A i \in 1 .. n : \E j \in 1 .. n : r[j] = s[i]
    <3>1. \A i \in 1 .. n : i # n => n - (n - i) = i
      BY <1>1
    <3>. QED  BY <1>1, <1>2, <3>1
  <2>2. \A i \in 1 .. n : \E j \in 1 .. n : s[j] = r[i]
    BY <1>1, <1>2
  <2> HIDE DEF r
  <2>3. /\ \A x : x \in ToSet(s) <=> \E i \in 1 .. n : s[i] = x
        /\ \A x : x \in ToSet(r) <=> \E i \in 1 .. n : r[i] = x
    BY <1>1, <1>3, Members DEF n
  <2>. QED  BY <2>1, <2>2, <2>3
<1> HIDE DEF r
<1>9. Q!Threaded(nx, nx[t], t, r)
  BY <1>1, <1>3, <1>4, <1>5, <1>6, <1>7 DEF Q!Threaded
<1>. QED  BY <1>1, <1>8, <1>9, WalkFinds

(***************************************************************************)
(* A ring and a list keep their sequence if no field of theirs is written. *)
(***************************************************************************)
LEMMA RingFrame ==
  ASSUME NEW nx, NEW pv, NEW nx2, NEW pv2, NEW t, NEW s, IsRing(t, s, nx, pv),
         \A p \in ToSet(s) : nx2[p] = nx[p] /\ pv2[p] = pv[p]
  PROVE  IsRing(t, s, nx2, pv2)
<1>1. s \in Seq(Pcb) /\ \A i \in 1 .. Len(s) : s[i] \in ToSet(s)
  BY DEF IsRing, ToSet
<1>. QED  BY <1>1 DEF IsRing

LEMMA ListFrame ==
  ASSUME NEW nx, NEW nx2, NEW h, NEW s, IsList(h, s, nx),
         \A p \in ToSet(s) : nx2[p] = nx[p]
  PROVE  IsList(h, s, nx2)
<1>1. s \in Seq(Pcb) /\ \A i \in 1 .. Len(s) : s[i] \in ToSet(s)
  BY DEF IsList, ToSet
<1>. QED  BY <1>1 DEF IsList

(***************************************************************************)
(* Only pcbs in S had a link written.                                      *)
(***************************************************************************)
WrittenIn(S, nx, pv, nx2, pv2) ==
  /\ nx2 \in [Pcb -> PcbOrNull] /\ pv2 \in [Pcb -> PcbOrNull]
  /\ \A x \in Pcb \ S : nx2[x] = nx[x] /\ pv2[x] = pv[x]

(***************************************************************************)
(* allocPcb takes the head of the free list, freePcb goes behind its end.  *)
(***************************************************************************)
HeadCleared(h, nx, pv, nx2, pv2) ==
  /\ nx2 = [nx EXCEPT ![h] = NULL]
  /\ pv2 = [pv EXCEPT ![h] = NULL]

LEMMA ListTake ==
  ASSUME NEW nx \in [Pcb -> PcbOrNull], NEW pv \in [Pcb -> PcbOrNull],
         NEW h, NEW s, IsList(h, s, nx), h # NULL,
         NEW nx2, NEW pv2, HeadCleared(h, nx, pv, nx2, pv2)
  PROVE  /\ s # <<>> /\ h = Head(s) /\ h \in Pcb
         /\ IsList(nx[h], Tail(s), nx2)
         /\ WrittenIn({h}, nx, pv, nx2, pv2)
<1> DEFINE n == Len(s)  r == Tail(s)
<1>1. /\ s \in Seq(Pcb) /\ s # <<>> /\ n \in Nat \ {0} /\ h = s[1]
      /\ \A i, j \in 1 .. n : s[i] = s[j] => i = j
      /\ \A i \in 1 .. n : s[i] \in Pcb
      /\ \A i \in 1 .. n : nx[s[i]] = IF i = n THEN NULL ELSE s[i+1]
  BY DEF IsList
<1>2. /\ r \in Seq(Pcb) /\ Len(r) = n - 1 /\ h = Head(s) /\ h \in Pcb
      /\ \A i \in 1 .. n - 1 : r[i] = s[i+1]
  BY <1>1
<1>3. WrittenIn({h}, nx, pv, nx2, pv2)
  BY <1>2 DEF HeadCleared, WrittenIn, PcbOrNull
<1> HIDE DEF n, r
<1>4. \A i, j \in 1 .. n - 1 : r[i] = r[j] => i = j
  <2>1. \A i \in 1 .. n - 1 : i + 1 \in 1 .. n
    BY <1>1
  <2>. QED  BY <1>1, <1>2, <2>1
<1>5. nx[h] = IF r = <<>> THEN NULL ELSE r[1]
  <2>1. r = <<>> <=> n = 1
    BY <1>1, <1>2
  <2>. QED  BY <1>1, <1>2, <2>1
<1>6. ASSUME NEW i \in 1 .. n - 1
      PROVE  nx2[r[i]] = IF i = n - 1 THEN NULL ELSE r[i+1]
  <2>1. i + 1 \in 1 .. n /\ i + 1 # 1 /\ (i + 1 = n <=> i = n - 1)
    BY <1>1
  <2>2. r[i] = s[i+1] /\ r[i] # h /\ r[i] \in Pcb
    BY <1>1, <1>2, <2>1
  <2>3. nx2[r[i]] = nx[s[i+1]]
    BY <2>2 DEF HeadCleared
  <2>4. i # n - 1 => i + 1 \in 1 .. n - 1
    BY <1>1
  <2>. QED  BY <1>1, <1>2, <2>1, <2>3, <2>4
<1>7. IsList(nx[h], r, nx2)
  BY <1>2, <1>4, <1>5, <1>6 DEF IsList
<1>. QED  BY <1>1, <1>2, <1>3, <1>7 DEF r

LEMMA ListPut ==
  ASSUME NEW nx \in [Pcb -> PcbOrNull], NEW pv \in [Pcb -> PcbOrNull],
         NEW h, NEW s, IsList(h, s, nx), NEW p \in Pcb \ ToSet(s), NEW nx2,
         nx2 = IF h = NULL THEN [nx EXCEPT ![p] = NULL]
               ELSE [nx EXCEPT ![Last(s)] = p, ![p] = NULL]
  PROVE  /\ IsList(IF h = NULL THEN p ELSE h, Append(s, p), nx2)
         /\ WrittenIn(ToSet(s) \cup {p}, nx, pv, nx2, [pv EXCEPT ![p] = NULL])
<1> DEFINE n == Len(s)  r == Append(s, p)
<1>1. /\ s \in Seq(Pcb) /\ n \in Nat /\ (h = NULL <=> n = 0) /\ (n # 0 => h = s[1])
      /\ \A i, j \in 1 .. n : s[i] = s[j] => i = j
      /\ \A i \in 1 .. n : s[i] \in Pcb
      /\ \A i \in 1 .. n : nx[s[i]] = IF i = n THEN NULL ELSE s[i+1]
  BY PcbFacts DEF IsList, NULL
<1>2. /\ r \in Seq(Pcb) /\ Len(r) = n + 1
      /\ \A i \in 1 .. n : r[i] = s[i]
      /\ r[n+1] = p
  BY <1>1
<1>3. \A i \in 1 .. n : s[i] # p
  BY <1>1, Members
<1>4. Last(s) = s[n]
  BY DEF Last
<1> HIDE DEF n, r
<1>5. \A i, j \in 1 .. n + 1 : r[i] = r[j] => i = j
  <2>1. \A i \in 1 .. n + 1 : i \in 1 .. n \/ i = n + 1
    BY <1>1
  <2>. QED  BY <1>1, <1>2, <1>3, <2>1
<1>6. (IF h = NULL THEN p ELSE h) = IF r = <<>> THEN NULL ELSE r[1]
  BY <1>1, <1>2
<1>7. /\ nx2 \in [Pcb -> PcbOrNull]
      /\ nx2[p] = NULL
      /\ n # 0 => nx2[s[n]] = p
      /\ \A x \in Pcb : x # p /\ (n # 0 => x # s[n]) => nx2[x] = nx[x]
  <2>1. n # 0 => s[n] \in Pcb /\ s[n] # p
    BY <1>1, <1>3
  <2>. QED  BY <1>1, <1>4, <2>1 DEF PcbOrNull
<1>8. ASSUME NEW i \in 1 .. n + 1
      PROVE  nx2[r[i]] = IF i = n + 1 THEN NULL ELSE r[i+1]
  <2>1. CASE i = n + 1
    BY <1>2, <1>7, <2>1
  <2>2. CASE i = n
    <3>1. n # 0 /\ i # n + 1 /\ i \in 1 .. n
      BY <1>1, <2>2
    <3>. QED  BY <1>2, <1>7, <2>2, <3>1
  <2>3. CASE i \in 1 .. n - 1
    <3>1. i \in 1 .. n /\ i # n + 1 /\ i # n /\ n # 0 /\ i + 1 \in 1 .. n /\ n \in 1 .. n
      BY <1>1, <2>3
    <3>2. s[i] # s[n] /\ s[i] # p /\ s[i] \in Pcb
      BY <1>1, <1>3, <3>1
    <3>. QED  BY <1>1, <1>2, <1>7, <3>1, <3>2
  <2>. QED  BY <1>1, <2>1, <2>2, <2>3
<1>9. IsList(IF h = NULL THEN p ELSE h, r, nx2)
  BY <1>2, <1>5, <1>6, <1>8 DEF IsList
<1>10. n # 0 => s[n] \in ToSet(s)
  <2>1. n # 0 => n \in 1 .. n
    BY <1>1
  <2>. QED  BY <1>1, <2>1, Members DEF n
<1>11. WrittenIn(ToSet(s) \cup {p}, nx, pv, nx2, [pv EXCEPT ![p] = NULL])
  BY <1>7, <1>10 DEF WrittenIn, PcbOrNull
<1>. QED  BY <1>9, <1>11 DEF r

(***************************************************************************)
(* What the ring of a queue that is not empty gives by positions.          *)
(***************************************************************************)
LEMMA RingFacts ==
  ASSUME NEW nx, NEW pv, NEW t, NEW s, IsRing(t, s, nx, pv), t # NULL
  PROVE  /\ s \in Seq(Pcb) /\ s # <<>> /\ Len(s) \in Nat \ {0} /\ t = s[Len(s)]
         /\ 1 \in 1 .. Len(s) /\ Len(s) \in 1 .. Len(s)
         /\ \A i, j \in 1 .. Len(s) : s[i] = s[j] => i = j
         /\ \A i \in 1 .. Len(s) : s[i] \in Pcb
         /\ \A i \in 1 .. Len(s) :
              /\ pv[s[i]] = IF i = Len(s) THEN s[1] ELSE s[i+1]
              /\ nx[s[i]] = IF i = 1 THEN s[Len(s)] ELSE s[i-1]
         /\ nx[t] = t <=> Len(s) = 1
<1>1. /\ s \in Seq(Pcb) /\ s # <<>> /\ Len(s) \in Nat \ {0} /\ t = s[Len(s)]
      /\ \A i, j \in 1 .. Len(s) : s[i] = s[j] => i = j
      /\ \A i \in 1 .. Len(s) : s[i] \in Pcb
      /\ \A i \in 1 .. Len(s) :
           /\ pv[s[i]] = IF i = Len(s) THEN s[1] ELSE s[i+1]
           /\ nx[s[i]] = IF i = 1 THEN s[Len(s)] ELSE s[i-1]
  BY DEF IsRing
<1> DEFINE n == Len(s)
<1>2. n \in Nat \ {0} /\ n \in 1 .. n /\ 1 \in 1 .. n
  BY <1>1
<1>3. nx[t] = t <=> n = 1
  <2>1. nx[t] = IF n = 1 THEN s[n] ELSE s[n-1]
    BY <1>1, <1>2
  <2>2. n # 1 => n - 1 \in 1 .. n /\ n - 1 # n
    <3> HIDE DEF n
    <3>. QED  BY <1>2
  <2>. QED  BY <1>1, <1>2, <2>1, <2>2
<1>. QED  BY <1>1, <1>2, <1>3

(***************************************************************************)
(* insertProcQ.                                                            *)
(***************************************************************************)
LEMMA RingPut ==
  ASSUME NEW nx \in [Pcb -> PcbOrNull], NEW pv \in [Pcb -> PcbOrNull],
         NEW t, NEW s, IsRing(t, s, nx, pv), NEW p \in Pcb \ ToSet(s),
         NEW nx2, NEW pv2,
         IF t = NULL
           THEN /\ nx2 = [nx EXCEPT ![p] = p]
                /\ pv2 = [pv EXCEPT ![p] = p]
           ELSE /\ nx2 = [nx EXCEPT ![p] = t, ![pv[t]] = p]
                /\ pv2 = [pv EXCEPT ![p] = pv[t], ![t] = p]
  PROVE  /\ IsRing(p, Append(s, p), nx2, pv2)
         /\ WrittenIn(ToSet(s) \cup {p}, nx, pv, nx2, pv2)
<1> DEFINE n == Len(s)  r == Append(s, p)
<1>0. s \in Seq(Pcb)
  BY DEF IsRing
<1>1. CASE t = NULL
  <2>1. s = <<>>
    <3>1. s # <<>> => s[Len(s)] \in Pcb
      BY <1>0
    <3>. QED  BY <1>1, <3>1, PcbFacts DEF IsRing, NULL
  <2>2. nx2[p] = p /\ pv2[p] = p
    BY <1>1
  <2>3. Append(<<>>, p) \in Seq(Pcb) /\ Len(Append(<<>>, p)) = 1 /\ Append(<<>>,
  p)[1] = p
    OBVIOUS
  <2>4. IsRing(p, Append(s, p), nx2, pv2)
    <3> DEFINE r1 == Append(s, p)
    <3>1. r1 \in Seq(Pcb) /\ Len(r1) = 1 /\ r1[1] = p
      BY <2>1, <2>3
    <3> HIDE DEF r1
    <3>2. r1 # <<>> /\ \A i \in 1 .. Len(r1) : i = 1
      <4>1. r1 = <<>> => Len(r1) = 0
        OBVIOUS
      <4>2. \A i \in 1 .. 1 : i = 1
        OBVIOUS
      <4>. QED  BY <3>1, <4>1, <4>2
    <3>3. IsRing(p, r1, nx2, pv2)
      BY <2>2, <3>1, <3>2 DEF IsRing
    <3>. QED  BY <3>3 DEF r1
  <2>. QED  BY <1>1, <2>4 DEF WrittenIn, PcbOrNull
<1>2. CASE t # NULL
  <2>1. /\ n \in Nat \ {0} /\ t = s[n] /\ n \in 1 .. n /\ 1 \in 1 .. n
        /\ \A i, j \in 1 .. n : s[i] = s[j] => i = j
        /\ \A i \in 1 .. n : s[i] \in Pcb
        /\ \A i \in 1 .. n : /\ pv[s[i]] = IF i = n THEN s[1] ELSE s[i+1]
                             /\ nx[s[i]] = IF i = 1 THEN s[n] ELSE s[i-1]
    BY <1>2, RingFacts
  <2>2. /\ r \in Seq(Pcb) /\ Len(r) = n + 1 /\ r # <<>>
        /\ \A i \in 1 .. n : r[i] = s[i]
        /\ r[n+1] = p
    BY <1>0
  <2>3. \A i \in 1 .. n : s[i] # p
    BY <1>0, Members
  <2>4. \A i \in 1 .. n : s[i] \in ToSet(s)
    BY <1>0, Members
  <2> HIDE DEF n, r
  <2>5. \A i, j \in 1 .. n + 1 : r[i] = r[j] => i = j
    <3>1. \A i \in 1 .. n + 1 : i \in 1 .. n \/ i = n + 1
      BY <2>1
    <3>. QED  BY <2>1, <2>2, <2>3, <3>1
  <2>6. /\ nx2[p] = s[n] /\ nx2[s[1]] = p
        /\ pv2[p] = s[1] /\ pv2[s[n]] = p
        /\ \A x \in Pcb : x # p /\ x # s[1] => nx2[x] = nx[x]
        /\ \A x \in Pcb : x # p /\ x # s[n] => pv2[x] = pv[x]
        /\ nx2 \in [Pcb -> PcbOrNull] /\ pv2 \in [Pcb -> PcbOrNull]
    <3>1. pv[t] = s[1] /\ s[1] # p /\ s[n] # p /\ s[1] \in Pcb /\ s[n] \in Pcb
      BY <2>1, <2>3
    <3>2. nx2 = [nx EXCEPT ![p] = s[n], ![s[1]] = p]
      BY <1>2, <2>1, <3>1
    <3>3. pv2 = [pv EXCEPT ![p] = s[1], ![s[n]] = p]
      BY <1>2, <2>1, <3>1
    <3>. QED  BY <3>1, <3>2, <3>3 DEF PcbOrNull
  <2>7. ASSUME NEW i \in 1 .. n + 1
        PROVE  /\ pv2[r[i]] = IF i = n + 1 THEN r[1] ELSE r[i+1]
               /\ nx2[r[i]] = IF i = 1 THEN r[n+1] ELSE r[i-1]
    <3>1. CASE i = n + 1
      <4>1. i # 1 /\ i - 1 = n
        BY <2>1, <3>1
      <4>. QED  BY <2>1, <2>2, <2>6, <3>1, <4>1
    <3>2. CASE i \in 1 .. n
      <4>1. i # n + 1 /\ (i # n => i + 1 \in 1 .. n) /\ (i # 1 => i - 1 \in 1 .. n)
        BY <2>1, <3>2
      <4>2. pv2[r[i]] = r[i+1]
        BY <2>1, <2>2, <2>3, <2>6, <3>2, <4>1
      <4>3. nx2[r[i]] = IF i = 1 THEN r[n+1] ELSE r[i-1]
        BY <2>1, <2>2, <2>3, <2>6, <3>2, <4>1
      <4>. QED  BY <4>1, <4>2, <4>3
    <3>. QED  BY <2>1, <3>1, <3>2
  <2>8. IsRing(p, r, nx2, pv2)
    BY <2>2, <2>5, <2>7 DEF IsRing
  <2>9. WrittenIn(ToSet(s) \cup {p}, nx, pv, nx2, pv2)
    BY <2>1, <2>4, <2>6 DEF WrittenIn
  <2>. QED  BY <2>8, <2>9 DEF r
<1>. QED  BY <1>1, <1>2

(***************************************************************************)
(* removeProcQ of a queue with more than one element.                      *)
(***************************************************************************)
OldestUnlinked(t, nx, pv, nx2, pv2) ==
  /\ nx2 = [nx EXCEPT ![pv[pv[t]]] = t]
  /\ pv2 = [pv EXCEPT ![t] = pv[pv[t]]]

LEMMA RingTake ==
  ASSUME NEW nx \in [Pcb -> PcbOrNull], NEW pv \in [Pcb -> PcbOrNull],
         NEW t, NEW s, IsRing(t, s, nx, pv), t # NULL, nx[t] # t,
         NEW nx2, NEW pv2, OldestUnlinked(t, nx, pv, nx2, pv2)
  PROVE  /\ pv[t] = Head(s)
         /\ IsRing(t, Tail(s), nx2, pv2)
         /\ WrittenIn(ToSet(s), nx, pv, nx2, pv2)
<1> DEFINE n == Len(s)  r == Tail(s)
<1>1. /\ n \in Nat \ {0} /\ t = s[n] /\ n \in 1 .. n /\ 1 \in 1 .. n
      /\ s \in Seq(Pcb) /\ s # <<>>
      /\ \A i, j \in 1 .. n : s[i] = s[j] => i = j
      /\ \A i \in 1 .. n : s[i] \in Pcb
      /\ \A i \in 1 .. n : /\ pv[s[i]] = IF i = n THEN s[1] ELSE s[i+1]
                           /\ nx[s[i]] = IF i = 1 THEN s[n] ELSE s[i-1]
      /\ n # 1
  BY RingFacts
<1>2. /\ r \in Seq(Pcb) /\ Len(r) = n - 1
      /\ \A i \in 1 .. n - 1 : r[i] = s[i+1]
      /\ Head(s) = s[1]
  BY <1>1
<1>3. \A i \in 1 .. n : s[i] \in ToSet(s)
  BY <1>1, Members
<1> HIDE DEF n, r
<1>4. pv[t] = s[1] /\ pv[s[1]] = s[2] /\ 2 \in 1 .. n /\ s[2] \in Pcb /\ s[n] \in Pcb
  <2>1. 2 \in 1 .. n
    BY <1>1
  <2>. QED  BY <1>1, <2>1
<1>5. /\ nx2[s[2]] = s[n] /\ pv2[s[n]] = s[2]
      /\ \A x \in Pcb : x # s[2] => nx2[x] = nx[x]
      /\ \A x \in Pcb : x # s[n] => pv2[x] = pv[x]
      /\ nx2 \in [Pcb -> PcbOrNull] /\ pv2 \in [Pcb -> PcbOrNull]
  BY <1>1, <1>4 DEF OldestUnlinked, PcbOrNull
<1>6. /\ \A i, j \in 1 .. n - 1 : r[i] = r[j] => i = j
      /\ t = r[n-1] /\ r # <<>>
  <2>1. /\ \A i \in 1 .. n - 1 : i + 1 \in 1 .. n
        /\ n - 1 \in 1 .. n - 1 /\ (n - 1) + 1 = n
    BY <1>1
  <2>. QED  BY <1>1, <1>2, <2>1
<1>7. ASSUME NEW i \in 1 .. n - 1
      PROVE  /\ pv2[r[i]] = IF i = n - 1 THEN r[1] ELSE r[i+1]
             /\ nx2[r[i]] = IF i = 1 THEN r[n-1] ELSE r[i-1]
  <2>1. /\ i + 1 \in 1 .. n /\ i + 1 # 1 /\ (i + 1 = n <=> i = n - 1)
        /\ (i # n - 1 => i + 1 \in 1 .. n - 1) /\ (i # 1 => i - 1 \in 1 .. n - 1)
        /\ (i + 1) - 1 = i /\ (i - 1) + 1 = i /\ (i + 1 = 2 <=> i = 1)
        /\ 1 \in 1 .. n - 1
    BY <1>1
  <2>2. r[i] = s[i+1] /\ s[i+1] \in Pcb /\ r[1] = s[2]
    BY <1>1, <1>2, <2>1
  <2>3. pv2[r[i]] = IF i = n - 1 THEN r[1] ELSE r[i+1]
    <3>1. CASE i = n - 1
      BY <1>5, <2>1, <2>2, <3>1
    <3>2. CASE i # n - 1
      <4>1. s[i+1] # s[n]
        BY <1>1, <2>1, <3>2
      <4>2. pv2[s[i+1]] = pv[s[i+1]]
        BY <1>5, <2>2, <4>1
      <4>3. pv[s[i+1]] = s[(i+1)+1]
        BY <1>1, <2>1, <3>2
      <4>4. r[i+1] = s[(i+1)+1]
        BY <1>2, <2>1, <3>2
      <4>. QED  BY <2>2, <3>2, <4>2, <4>3, <4>4
    <3>. QED  BY <3>1, <3>2
  <2>4. nx2[r[i]] = IF i = 1 THEN r[n-1] ELSE r[i-1]
    <3>1. CASE i = 1
      BY <1>1, <1>5, <1>6, <2>1, <2>2, <3>1
    <3>2. CASE i # 1
      <4>1. s[i+1] # s[2]
        BY <1>1, <1>4, <2>1, <3>2
      <4>2. nx2[r[i]] = s[i] /\ r[i-1] = s[i]
        BY <1>1, <1>2, <1>5, <2>1, <2>2, <3>2, <4>1
      <4>. QED  BY <3>2, <4>2
    <3>. QED  BY <3>1, <3>2
  <2>. QED  BY <2>3, <2>4
<1>8. IsRing(t, r, nx2, pv2)
  BY <1>2, <1>6, <1>7 DEF IsRing
<1>9. WrittenIn(ToSet(s), nx, pv, nx2, pv2)
  BY <1>1, <1>3, <1>4, <1>5 DEF WrittenIn
<1>. QED  BY <1>2, <1>4, <1>8, <1>9 DEF r

(***************************************************************************)
(* outProcQ of the newest element of several: tp moves to the oldest.      *)
(***************************************************************************)
NewestUnlinked(t, nx, pv, nx2, pv2) ==
  /\ nx2 = [nx EXCEPT ![pv[t]] = nx[t]]
  /\ pv2 = [pv EXCEPT ![nx[t]] = pv[t]]

LEMMA RingTurn ==
  ASSUME NEW nx \in [Pcb -> PcbOrNull], NEW pv \in [Pcb -> PcbOrNull],
         NEW t, NEW s, IsRing(t, s, nx, pv), t # NULL, nx[t] # t,
         NEW nx2, NEW pv2, NewestUnlinked(t, nx, pv, nx2, pv2)
  PROVE  /\ IsRing(pv[t], Q!DropNewest(s), nx2, pv2)
         /\ WrittenIn(ToSet(s), nx, pv, nx2, pv2)
<1> DEFINE n == Len(s)  r == Q!DropNewest(s)
<1>1. /\ n \in Nat \ {0} /\ t = s[n] /\ n \in 1 .. n /\ 1 \in 1 .. n
      /\ s \in Seq(Pcb) /\ s # <<>>
      /\ \A i, j \in 1 .. n : s[i] = s[j] => i = j
      /\ \A i \in 1 .. n : s[i] \in Pcb
      /\ \A i \in 1 .. n : /\ pv[s[i]] = IF i = n THEN s[1] ELSE s[i+1]
                           /\ nx[s[i]] = IF i = 1 THEN s[n] ELSE s[i-1]
      /\ n # 1
  BY RingFacts
<1>2. /\ r \in Seq(Pcb) /\ Len(r) = n - 1
      /\ \A i \in 1 .. n - 1 : r[i] = IF i < n - 1 THEN s[i+1] ELSE s[1]
  <2>1. Len(s) > 1
    BY <1>1
  <2>. QED  BY <1>1, <2>1, Q!DropAt
<1>3. \A i \in 1 .. n : s[i] \in ToSet(s)
  BY <1>1, Members
<1> HIDE DEF n, r
<1>4. n - 1 \in 1 .. n /\ n - 1 # n /\ 1 \in 1 .. n - 1 /\ n - 1 \in 1 .. n - 1
  BY <1>1
<1>5. /\ pv[t] = s[1] /\ nx[t] = s[n-1] /\ s[1] \in Pcb /\ s[n-1] \in Pcb
      /\ nx2[s[1]] = s[n-1] /\ pv2[s[n-1]] = s[1]
      /\ \A x \in Pcb : x # s[1] => nx2[x] = nx[x]
      /\ \A x \in Pcb : x # s[n-1] => pv2[x] = pv[x]
      /\ nx2 \in [Pcb -> PcbOrNull] /\ pv2 \in [Pcb -> PcbOrNull]
  BY <1>1, <1>4 DEF NewestUnlinked, PcbOrNull
<1>6. \A i \in 1 .. n - 1 :
        /\ i # n - 1 => i + 1 \in 1 .. n - 1 /\ i + 1 \in 1 .. n /\ i < n - 1 /\ i + 1 # n
        /\ i # 1 => i - 1 \in 1 .. n - 1 /\ i - 1 < n - 1 /\ (i - 1) + 1 = i
        /\ i \in 1 .. n /\ i + 1 # 1 /\ (i + 1) - 1 = i
  BY <1>1
<1>7. /\ \A i \in 1 .. n - 1 : i # n - 1 => r[i] = s[i+1]
      /\ r[n-1] = s[1]
      /\ \A i \in 1 .. n - 1 : i # 1 => r[i-1] = s[i]
  BY <1>2, <1>4, <1>6
<1>8. /\ \A i, j \in 1 .. n - 1 : r[i] = r[j] => i = j
      /\ pv[t] = r[n-1] /\ r # <<>>
  <2>1. ASSUME NEW i \in 1 .. n - 1, NEW j \in 1 .. n - 1, r[i] = r[j]
        PROVE  i = j
    <3>1. i \in Int /\ j \in Int
      OBVIOUS
    <3>2. CASE i = n - 1
      BY <1>1, <1>6, <1>7, <2>1, <3>2
    <3>3. CASE j = n - 1
      BY <1>1, <1>6, <1>7, <2>1, <3>3
    <3>4. CASE i # n - 1 /\ j # n - 1
      <4>1. i + 1 = j + 1
        BY <1>1, <1>6, <1>7, <2>1, <3>4
      <4>. QED  BY <3>1, <4>1
    <3>. QED  BY <3>2, <3>3, <3>4
  <2>2. r # <<>>
    BY <1>1, <1>2
  <2>. QED  BY <1>5, <1>7, <2>1, <2>2
<1>9. ASSUME NEW i \in 1 .. n - 1
      PROVE  /\ pv2[r[i]] = IF i = n - 1 THEN r[1] ELSE r[i+1]
             /\ nx2[r[i]] = IF i = 1 THEN r[n-1] ELSE r[i-1]
  <2>1. pv2[r[i]] = IF i = n - 1 THEN r[1] ELSE r[i+1]
    <3>1. CASE i = n - 1 /\ i = 1
      BY <1>5, <1>7, <3>1
    <3>2. CASE i = n - 1 /\ i # 1
      <4>1. s[1] # s[n-1]
        BY <1>1, <1>4, <3>2
      <4>2. pv2[s[1]] = s[2] /\ r[1] = s[2]
        BY <1>1, <1>4, <1>5, <1>7, <3>2, <4>1
      <4>. QED  BY <1>7, <3>2, <4>2
    <3>3. CASE i # n - 1 /\ i + 1 = n - 1
      BY <1>5, <1>7, <3>3
    <3>4. CASE i # n - 1 /\ i + 1 # n - 1
      <4>1. s[i+1] # s[n-1] /\ s[i+1] \in Pcb
        BY <1>1, <1>4, <1>6, <3>4
      <4>2. pv2[s[i+1]] = s[(i+1)+1]
        BY <1>1, <1>5, <1>6, <3>4, <4>1
      <4>3. r[i+1] = s[(i+1)+1]
        BY <1>6, <1>7, <3>4
      <4>. QED  BY <1>7, <3>4, <4>2, <4>3
    <3>. QED  BY <3>1, <3>2, <3>3, <3>4
  <2>2. nx2[r[i]] = IF i = 1 THEN r[n-1] ELSE r[i-1]
    <3>1. CASE i = n - 1 /\ i = 1
      <4>1. n - 1 = 1
        BY <3>1
      <4>2. r[1] = s[1] /\ nx2[s[1]] = s[1]
        BY <1>5, <1>7, <4>1
      <4>. QED  BY <3>1, <4>1, <4>2
    <3>2. CASE i = n - 1 /\ i # 1
      BY <1>5, <1>7, <3>2
    <3>3. CASE i # n - 1
      <4>1. r[i] = s[i+1] /\ s[i+1] # s[1] /\ s[i+1] \in Pcb
        BY <1>1, <1>6, <1>7, <3>3
      <4>2. nx2[r[i]] = s[i]
        BY <1>1, <1>5, <1>6, <3>3, <4>1
      <4>. QED  BY <1>7, <4>2
    <3>. QED  BY <3>1, <3>2, <3>3
  <2>. QED  BY <2>1, <2>2
<1>10. IsRing(pv[t], r, nx2, pv2)
  BY <1>2, <1>8, <1>9 DEF IsRing
<1>11. WrittenIn(ToSet(s), nx, pv, nx2, pv2)
  BY <1>1, <1>3, <1>4, <1>5 DEF WrittenIn
<1>. QED  BY <1>10, <1>11 DEF r

(***************************************************************************)
(* outProcQ of an element that is not the newest.                          *)
(***************************************************************************)
OlderUnlinked(p, nx, pv, nx2, pv2) ==
  /\ nx2 = [[nx EXCEPT ![p] = NULL] EXCEPT ![pv[p]] = nx[p]]
  /\ pv2 = [[pv EXCEPT ![p] = NULL] EXCEPT ![nx[p]] = pv[p]]

LEMMA RingCut ==
  ASSUME NEW nx \in [Pcb -> PcbOrNull], NEW pv \in [Pcb -> PcbOrNull],
         NEW t, NEW s, IsRing(t, s, nx, pv), t # NULL,
         NEW p \in ToSet(s), p # t,
         NEW nx2, NEW pv2, OlderUnlinked(p, nx, pv, nx2, pv2)
  PROVE  /\ IsRing(t, Q!Without(s, p), nx2, pv2)
         /\ WrittenIn(ToSet(s), nx, pv, nx2, pv2)
<1> DEFINE n == Len(s)  r == Q!Without(s, p)
<1>1. /\ n \in Nat \ {0} /\ t = s[n] /\ n \in 1 .. n /\ 1 \in 1 .. n
      /\ s \in Seq(Pcb) /\ s # <<>>
      /\ \A i, j \in 1 .. n : s[i] = s[j] => i = j
      /\ \A i \in 1 .. n : s[i] \in Pcb
      /\ \A i \in 1 .. n : /\ pv[s[i]] = IF i = n THEN s[1] ELSE s[i+1]
                           /\ nx[s[i]] = IF i = 1 THEN s[n] ELSE s[i-1]
  BY RingFacts
<1>2. PICK c \in 1 .. n : s[c] = p
  BY <1>1, Members
<1>3. /\ r \in Seq(Pcb) /\ Len(r) = n - 1
      /\ \A i \in 1 .. n - 1 : r[i] = IF i < c THEN s[i] ELSE s[i+1]
  <2>1. Q!IsInjective(s)
    BY <1>1, Q!SeqFacts
  <2>2. r = Q!Without(s, s[c])
    BY <1>2
  <2>3. /\ Q!Without(s, s[c]) \in Seq(Pcb)
        /\ Len(Q!Without(s, s[c])) = Len(s) - 1
        /\ \A i \in 1 .. Len(s) - 1 :
             Q!Without(s, s[c])[i] = IF i < c THEN s[i] ELSE s[i+1]
    BY <1>1, <2>1, Q!WithoutAt
  <2> HIDE DEF r
  <2>. QED  BY <2>2, <2>3
<1>4. \A i \in 1 .. n : s[i] \in ToSet(s)
  BY <1>1, Members
<1> HIDE DEF n, r
<1>5. /\ c \in Nat /\ c # n /\ c < n /\ c + 1 \in 1 .. n /\ n - 1 \in 1 .. n - 1
      /\ c # 1 => c - 1 \in 1 .. n
  BY <1>1, <1>2
<1> DEFINE b == IF c = 1 THEN n ELSE c - 1
<1>6. b \in 1 .. n /\ b # c /\ c + 1 # c
  BY <1>1, <1>5
<1>7. /\ pv[p] = s[c+1] /\ nx[p] = s[b] /\ s[c+1] \in Pcb /\ s[b] \in Pcb
      /\ s[c+1] # p /\ s[b] # p
  BY <1>1, <1>2, <1>5, <1>6
<1> HIDE DEF b
<1>8. /\ nx2[s[c+1]] = s[b] /\ pv2[s[b]] = s[c+1]
      /\ \A x \in Pcb : x # s[c+1] /\ x # p => nx2[x] = nx[x]
      /\ \A x \in Pcb : x # s[b] /\ x # p => pv2[x] = pv[x]
      /\ nx2 \in [Pcb -> PcbOrNull] /\ pv2 \in [Pcb -> PcbOrNull]
  BY <1>1, <1>7 DEF OlderUnlinked, PcbOrNull
<1>9. \A i \in 1 .. n :
        i # c => /\ i # c + 1 => nx2[s[i]] = nx[s[i]]
                 /\ i # b => pv2[s[i]] = pv[s[i]]
  <2> SUFFICES ASSUME NEW i \in 1 .. n, i # c
               PROVE  /\ i # c + 1 => nx2[s[i]] = nx[s[i]]
                      /\ i # b => pv2[s[i]] = pv[s[i]]
    OBVIOUS
  <2>1. s[i] \in Pcb /\ s[i] # p
    BY <1>1, <1>2
  <2>2. /\ i # c + 1 => s[i] # s[c+1]
        /\ i # b => s[i] # s[b]
    BY <1>1, <1>5, <1>6
  <2>. QED  BY <1>8, <2>1, <2>2
<1>10. /\ \A i, j \in 1 .. n - 1 : r[i] = r[j] => i = j
       /\ t = r[n-1] /\ r # <<>>
  <2>1. \A i \in 1 .. n - 1 : i \in 1 .. n /\ i + 1 \in 1 .. n
    BY <1>1
  <2>2. ASSUME NEW i \in 1 .. n - 1, NEW j \in 1 .. n - 1, r[i] = r[j]
        PROVE  i = j
    <3> DEFINE at(k) == IF k < c THEN k ELSE k + 1
    <3>1. r[i] = s[at(i)] /\ r[j] = s[at(j)] /\ at(i) \in 1 .. n /\ at(j) \in 1 .. n
      BY <1>3, <2>1
    <3>2. at(i) = at(j)
      <4> HIDE DEF at
      <4>. QED  BY <1>1, <2>2, <3>1
    <3>3. i \in Int /\ j \in Int
      OBVIOUS
    <3>. QED  BY <1>5, <3>2, <3>3
  <2>3. ~(n - 1 < c) /\ (n - 1) + 1 = n
    BY <1>1, <1>5
  <2>. QED  BY <1>1, <1>3, <1>5, <2>2, <2>3
<1>11. ASSUME NEW i \in 1 .. n - 1
       PROVE  pv2[r[i]] = IF i = n - 1 THEN r[1] ELSE r[i+1]
  <2>0. i \in Nat /\ i \in 1 .. n /\ i + 1 \in 1 .. n
    BY <1>1
  <2>1. CASE i = c - 1
    <3>1. /\ i < c /\ b = i /\ i # n - 1 /\ i + 1 \in 1 .. n - 1 /\ ~(i + 1 < c)
          /\ (i + 1) + 1 = c + 1
      BY <1>1, <1>5, <2>0, <2>1 DEF b
    <3>2. r[i] = s[b] /\ r[i+1] = s[c+1]
      BY <1>3, <3>1
    <3>. QED  BY <1>8, <3>1, <3>2
  <2>2. CASE i < c - 1
    <3>1. /\ i < c /\ i # b /\ i # c /\ i # n - 1 /\ i # n
          /\ i + 1 \in 1 .. n - 1 /\ i + 1 < c
      BY <1>1, <1>5, <2>0, <2>2 DEF b
    <3>2. r[i] = s[i] /\ r[i+1] = s[i+1]
      BY <1>3, <3>1
    <3>. QED  BY <1>1, <1>9, <2>0, <3>1, <3>2
  <2>3. CASE i >= c /\ i # n - 1
    <3>1. /\ ~(i < c) /\ i + 1 # b /\ i + 1 # c /\ i + 1 # n
          /\ i + 1 \in 1 .. n - 1 /\ ~(i + 1 < c)
      BY <1>1, <1>5, <2>0, <2>3 DEF b
    <3>2. r[i] = s[i+1] /\ r[i+1] = s[(i+1)+1]
      BY <1>3, <3>1
    <3>. QED  BY <1>1, <1>9, <2>0, <2>3, <3>1, <3>2
  <2>4. CASE i >= c /\ i = n - 1
    <3>1. ~(i < c) /\ i + 1 = n /\ 1 \in 1 .. n - 1
      BY <1>1, <1>5, <2>0, <2>4
    <3>2. r[i] = s[n]
      BY <1>3, <3>1
    <3>3. CASE c = 1
      <4>1. b = n /\ r[1] = s[2] /\ c + 1 = 2
        BY <1>3, <3>1, <3>3 DEF b
      <4>2. pv2[s[n]] = s[2]
        BY <1>8, <4>1
      <4>. QED  BY <2>4, <3>2, <4>1, <4>2
    <3>4. CASE c # 1
      <4>1. 1 < c /\ b # n /\ r[1] = s[1]
        <5>1. 1 < c /\ b # n
          BY <1>1, <1>5, <3>4 DEF b
        <5>. QED  BY <1>3, <3>1, <5>1
      <4>. QED  BY <1>1, <1>5, <1>9, <2>4, <3>2, <4>1
    <3>. QED  BY <3>3, <3>4
  <2>5. i = c - 1 \/ i < c - 1 \/ i >= c
    BY <1>5, <2>0
  <2>. QED  BY <2>1, <2>2, <2>3, <2>4, <2>5
<1>12. ASSUME NEW i \in 1 .. n - 1
       PROVE  nx2[r[i]] = IF i = 1 THEN r[n-1] ELSE r[i-1]
  <2>0. /\ i \in Nat /\ i \in 1 .. n /\ i + 1 \in 1 .. n /\ (i + 1) - 1 = i
        /\ i + 1 # 1 /\ (i # 1 => i - 1 \in 1 .. n - 1 /\ (i - 1) + 1 = i)
    BY <1>1
  <2>1. CASE i < c
    <3>1. i # c /\ i # c + 1 /\ (i # 1 => i - 1 < c)
      BY <1>5, <2>0, <2>1
    <3>2. r[i] = s[i] /\ (i # 1 => r[i-1] = s[i-1])
      BY <1>3, <2>0, <2>1, <3>1
    <3>. QED  BY <1>1, <1>9, <1>10, <2>0, <3>1, <3>2
  <2>2. CASE i = c
    <3>1. r[i] = s[c+1]
      BY <1>3, <1>5, <2>0, <2>2
    <3>2. CASE i = 1
      BY <1>1, <1>8, <1>10, <2>2, <3>1, <3>2 DEF b
    <3>3. CASE i # 1
      <4>1. b = i - 1 /\ i - 1 < c
        BY <1>5, <2>0, <2>2, <3>3 DEF b
      <4>2. r[i-1] = s[b]
        BY <1>3, <2>0, <3>3, <4>1
      <4>. QED  BY <1>8, <3>1, <3>3, <4>2
    <3>. QED  BY <3>2, <3>3
  <2>3. CASE i > c
    <3>1. ~(i < c) /\ i # 1 /\ ~(i - 1 < c) /\ i + 1 # c /\ i + 1 # c + 1
      BY <1>1, <1>2, <1>5, <2>0, <2>3
    <3>2. r[i] = s[i+1] /\ r[i-1] = s[i]
      BY <1>3, <2>0, <3>1
    <3>3. nx2[s[i+1]] = nx[s[i+1]]
      BY <1>9, <2>0, <3>1
    <3>4. nx[s[i+1]] = s[i]
      BY <1>1, <2>0
    <3>. QED  BY <3>1, <3>2, <3>3, <3>4
  <2>. QED  BY <1>5, <2>0, <2>1, <2>2, <2>3
<1>13. IsRing(t, r, nx2, pv2)
  <2>1. Len(r) = n - 1 /\ r \in Seq(Pcb)
    BY <1>3
  <2>2. t = IF r = <<>> THEN NULL ELSE r[Len(r)]
    BY <1>10, <2>1
  <2>3. \A i, j \in 1 .. Len(r) : r[i] = r[j] => i = j
    BY <1>10, <2>1
  <2>4. \A i \in 1 .. Len(r) :
          /\ pv2[r[i]] = IF i = Len(r) THEN r[1] ELSE r[i+1]
          /\ nx2[r[i]] = IF i = 1 THEN r[Len(r)] ELSE r[i-1]
    BY <1>11, <1>12, <2>1
  <2>. QED  BY <2>1, <2>2, <2>3, <2>4, Zenon DEF IsRing
<1>14. WrittenIn(ToSet(s), nx, pv, nx2, pv2)
  <2>1. s[b] \in ToSet(s) /\ s[c+1] \in ToSet(s)
    BY <1>4, <1>5, <1>6
  <2>. QED  BY <1>8, <2>1 DEF WrittenIn
<1>. QED  BY <1>13, <1>14 DEF r

------------------------------------------------------------------------------
(***************************************************************************)
(* The inductive invariant: the links form a free list and one ring for    *)
(* each queue, no two of these nor the pcbs held have a pcb in common, and *)
(* together they have all of them.  RingsClosed and PoolComplete speak of  *)
(* the sequences the loops find; that these are the ones the links form is *)
(* what makes them inductive.                                              *)
(***************************************************************************)
Queues == [q \in Queue |-> Ring(tp[q])]

Wired(h, heads, nx, pv, fr, qu) ==
  /\ nx \in [Pcb -> PcbOrNull] /\ pv \in [Pcb -> PcbOrNull]
  /\ DOMAIN heads = Queue /\ DOMAIN qu = Queue
  /\ heads = [q \in Queue |-> heads[q]] /\ qu = [q \in Queue |-> qu[q]]
  /\ IsList(h, fr, nx)
  /\ \A q \in Queue : IsRing(heads[q], qu[q], nx, pv)

Apart(hd, fr, qu) ==
  /\ hd \subseteq Pcb
  /\ ToSet(fr) \cap hd = {}
  /\ \A q \in Queue : ToSet(qu[q]) \cap hd = {} /\ ToSet(qu[q]) \cap ToSet(fr) = {}
  /\ \A q, r \in Queue : q # r => ToSet(qu[q]) \cap ToSet(qu[r]) = {}
  /\ \A p \in Pcb : p \in hd \/ p \in ToSet(fr) \/ \E q \in Queue : p \in ToSet(qu[q])

PcbInv ==
  /\ Wired(pcbfree_h, tp, p_next, p_prev, FreeList, Queues)
  /\ Apart(held, FreeList, Queues)

(***************************************************************************)
(* Sequences known to be the ones the links form after a step are those    *)
(* the loops find then.                                                    *)
(***************************************************************************)
LEMMA WiredFound ==
  ASSUME NEW h, NEW heads, NEW nx, NEW pv, NEW fr, NEW qu,
         Wired(h, heads, nx, pv, fr, qu)
  PROVE  /\ Walk(nx, h, NULL) = fr
         /\ [q \in Queue |-> IF heads[q] = NULL THEN <<>>
                             ELSE Walk(pv, pv[heads[q]], heads[q])] = qu
<1>1. Walk(nx, h, NULL) = fr
  BY ListFound DEF Wired
<1>2. ASSUME NEW q \in Queue
      PROVE  (IF heads[q] = NULL THEN <<>>
              ELSE Walk(pv, pv[heads[q]], heads[q])) = qu[q]
  BY RingFound DEF Wired
<1>. QED  BY <1>1, <1>2, Zenon DEF Wired

LEMMA StepFound ==
  ASSUME NEW fr, NEW qu, Wired(pcbfree_h', tp', p_next', p_prev', fr, qu),
         Apart(held', fr, qu)
  PROVE  PcbInv' /\ FreeList' = fr /\ Queues' = qu
<1>1. /\ Walk(p_next', pcbfree_h', NULL) = fr
      /\ [q \in Queue |-> IF tp'[q] = NULL THEN <<>>
                          ELSE Walk(p_prev', p_prev'[tp'[q]], tp'[q])] = qu
  BY WiredFound
<1>2. FreeList' = fr /\ Queues' = qu
  BY <1>1, Zenon DEF FreeList, Queues, Ring
<1>. QED  BY <1>2 DEF PcbInv

(***************************************************************************)
(* What a step that writes links of one queue and of pcbs held must show:  *)
(* it leaves a ring, and no pcb is lost or in two places.                  *)
(***************************************************************************)
LEMMA QueueStep ==
  ASSUME PcbInv, NEW q \in Queue, NEW t, NEW s, tp' = [tp EXCEPT ![q] = t],
         UNCHANGED pcbfree_h,
         IsRing(t, s, p_next', p_prev'),
         NEW S, S \subseteq ToSet(Queues[q]) \cup held,
         WrittenIn(S, p_next, p_prev, p_next', p_prev'),
         held' \cup ToSet(s) = held \cup ToSet(Queues[q]),
         held' \cap ToSet(s) = {}
  PROVE  /\ PcbInv'
         /\ FreeList' = FreeList
         /\ Queues' = [Queues EXCEPT ![q] = s]
<1> DEFINE qu == [Queues EXCEPT ![q] = s]
<1>0. /\ DOMAIN Queues = Queue /\ DOMAIN tp = Queue
      /\ DOMAIN qu = Queue /\ qu = [r \in Queue |-> qu[r]]
      /\ qu[q] = s /\ \A r \in Queue : r # q => qu[r] = Queues[r]
      /\ DOMAIN tp' = Queue /\ tp' = [r \in Queue |-> tp'[r]]
      /\ tp'[q] = t /\ \A r \in Queue : r # q => tp'[r] = tp[r]
  BY DEF PcbInv, Wired
<1> HIDE DEF qu
<1>1. /\ FreeList \in Seq(Pcb) /\ ToSet(FreeList) \subseteq Pcb
      /\ \A r \in Queue : Queues[r] \in Seq(Pcb) /\ ToSet(Queues[r]) \subseteq Pcb
      /\ held \subseteq Pcb
  BY Members DEF PcbInv, Wired, Apart, IsList, IsRing
<1>2. IsList(pcbfree_h', FreeList, p_next')
  <2>1. \A p \in ToSet(FreeList) : p \in Pcb \ S
    BY <1>1 DEF PcbInv, Apart
  <2>2. \A p \in ToSet(FreeList) : p_next'[p] = p_next[p]
    BY <2>1 DEF WrittenIn
  <2>. QED  BY <2>2, ListFrame DEF PcbInv, Wired
<1>3. ASSUME NEW r \in Queue
      PROVE  IsRing(tp'[r], qu[r], p_next', p_prev')
  <2>1. CASE r = q
    BY <1>0, <2>1
  <2>2. CASE r # q
    <3>1. \A p \in ToSet(Queues[r]) : p \in Pcb \ S
      BY <1>1, <2>2 DEF PcbInv, Apart
    <3>2. \A p \in ToSet(Queues[r]) : p_next'[p] = p_next[p] /\ p_prev'[p] = p_prev[p]
      BY <3>1 DEF WrittenIn
    <3>3. IsRing(tp[r], Queues[r], p_next, p_prev)
      BY DEF PcbInv, Wired
    <3>4. IsRing(tp[r], Queues[r], p_next', p_prev')
      BY <3>2, <3>3, RingFrame
    <3>. QED  BY <1>0, <2>2, <3>4
  <2>. QED  BY <2>1, <2>2
<1>4. Wired(pcbfree_h', tp', p_next', p_prev', FreeList, qu)
  BY <1>0, <1>2, <1>3 DEF Wired, WrittenIn
<1>5. Apart(held', FreeList, qu)
  <2>1. held' \subseteq Pcb /\ ToSet(s) \subseteq Pcb
    BY <1>1
  <2>2. ToSet(FreeList) \cap held' = {}
    BY <1>1 DEF PcbInv, Apart
  <2>3. ASSUME NEW r \in Queue
        PROVE  ToSet(qu[r]) \cap held' = {} /\ ToSet(qu[r]) \cap ToSet(FreeList) = {}
    <3>1. CASE r = q
      <4>1. ToSet(s) \cap ToSet(FreeList) = {}
        BY <1>1 DEF PcbInv, Apart
      <4>. QED  BY <1>0, <3>1, <4>1
    <3>2. CASE r # q
      BY <1>0, <3>2 DEF PcbInv, Apart
    <3>. QED  BY <3>1, <3>2
  <2>4. ASSUME NEW r \in Queue, r # q
        PROVE  ToSet(s) \cap ToSet(qu[r]) = {}
    BY <1>0, <2>4 DEF PcbInv, Apart
  <2>5. ASSUME NEW a \in Queue, NEW r \in Queue, a # r
        PROVE  ToSet(qu[a]) \cap ToSet(qu[r]) = {}
    <3>1. CASE a = q \/ r = q
      BY <1>0, <2>4, <2>5, <3>1
    <3>2. CASE a # q /\ r # q
      BY <1>0, <2>5, <3>2 DEF PcbInv, Apart
    <3>. QED  BY <3>1, <3>2
  <2>6. ASSUME NEW p \in Pcb
        PROVE  p \in held' \/ p \in ToSet(FreeList) \/ \E r \in Queue : p \in ToSet(qu[r])
    <3>1. CASE p \in held \/ p \in ToSet(Queues[q])
      BY <1>0, <3>1
    <3>2. CASE p \in ToSet(FreeList)
      BY <3>2
    <3>3. CASE \E r \in Queue : r # q /\ p \in ToSet(Queues[r])
      BY <1>0, <3>3
    <3>. QED  BY <3>1, <3>2, <3>3 DEF PcbInv, Apart
  <2>. QED  BY <2>1, <2>2, <2>3, <2>5, <2>6 DEF Apart
<1>. QED  BY <1>4, <1>5, StepFound DEF qu

(***************************************************************************)
(* The same for a step that writes links of free and held pcbs only.       *)
(***************************************************************************)
LEMMA FreeStep ==
  ASSUME PcbInv, UNCHANGED tp, NEW s, IsList(pcbfree_h', s, p_next'),
         NEW S, S \subseteq ToSet(FreeList) \cup held,
         WrittenIn(S, p_next, p_prev, p_next', p_prev'),
         held' \cup ToSet(s) = held \cup ToSet(FreeList),
         held' \cap ToSet(s) = {}
  PROVE  /\ PcbInv'
         /\ FreeList' = s
         /\ Queues' = Queues
<1>1. /\ FreeList \in Seq(Pcb) /\ ToSet(FreeList) \subseteq Pcb
      /\ \A r \in Queue : Queues[r] \in Seq(Pcb) /\ ToSet(Queues[r]) \subseteq Pcb
      /\ held \subseteq Pcb
  BY Members DEF PcbInv, Wired, Apart, IsList, IsRing
<1>2. ASSUME NEW r \in Queue
      PROVE  IsRing(tp'[r], Queues[r], p_next', p_prev')
  <2>1. \A p \in ToSet(Queues[r]) : p \in Pcb \ S
    BY <1>1 DEF PcbInv, Apart
  <2>2. \A p \in ToSet(Queues[r]) : p_next'[p] = p_next[p] /\ p_prev'[p] = p_prev[p]
    BY <2>1 DEF WrittenIn
  <2>3. IsRing(tp[r], Queues[r], p_next, p_prev)
    BY DEF PcbInv, Wired
  <2>. QED  BY <2>2, <2>3, RingFrame
<1>3. Wired(pcbfree_h', tp', p_next', p_prev', s, Queues)
  BY <1>2 DEF PcbInv, Wired, WrittenIn
<1>4. Apart(held', s, Queues)
  <2>1. \A r \in Queue : ToSet(Queues[r]) \cap (held \cup ToSet(FreeList)) = {}
    BY DEF PcbInv, Apart
  <2>2. \A r \in Queue : ToSet(Queues[r]) \cap held' = {} /\ ToSet(Queues[r]) \cap ToSet(s) = {}
    BY <2>1
  <2>3. \A p \in Pcb : p \in held' \/ p \in ToSet(s) \/ \E r \in Queue : p \in ToSet(Queues[r])
    BY DEF PcbInv, Apart
  <2>4. held' \subseteq Pcb /\ ToSet(s) \cap held' = {}
    BY <1>1
  <2>5. \A q, r \in Queue : q # r => ToSet(Queues[q]) \cap ToSet(Queues[r]) = {}
    BY DEF PcbInv, Apart
  <2>. QED  BY <2>2, <2>3, <2>4, <2>5 DEF Apart
<1>. QED  BY <1>3, <1>4, StepFound

(***************************************************************************)
(* Facts about the current sequences the steps below share.                *)
(***************************************************************************)
LEMMA InvFacts ==
  ASSUME PcbInv
  PROVE  /\ p_next \in [Pcb -> PcbOrNull] /\ p_prev \in [Pcb -> PcbOrNull]
         /\ IsList(pcbfree_h, FreeList, p_next)
         /\ FreeList \in Seq(Pcb) /\ Q!IsInjective(FreeList)
         /\ pcbfree_h = NULL <=> FreeList = <<>>
         /\ \A q \in Queue :
              /\ IsRing(tp[q], Queues[q], p_next, p_prev)
              /\ Queues[q] \in Seq(Pcb) /\ Q!IsInjective(Queues[q])
              /\ tp[q] = NULL <=> Queues[q] = <<>>
              /\ tp[q] # NULL => tp[q] \in Pcb /\ Last(Queues[q]) = tp[q]
<1>1. /\ p_next \in [Pcb -> PcbOrNull] /\ p_prev \in [Pcb -> PcbOrNull]
      /\ IsList(pcbfree_h, FreeList, p_next)
      /\ \A q \in Queue : IsRing(tp[q], Queues[q], p_next, p_prev)
  BY DEF PcbInv, Wired
<1>2. FreeList \in Seq(Pcb) /\ Q!IsInjective(FreeList)
  BY <1>1, Q!SeqFacts DEF IsList
<1>3. pcbfree_h = NULL <=> FreeList = <<>>
  <2>1. FreeList # <<>> => FreeList[1] \in Pcb
    BY <1>2
  <2>. QED  BY <1>1, <2>1, PcbFacts DEF IsList, NULL
<1>4. ASSUME NEW q \in Queue
      PROVE  /\ Queues[q] \in Seq(Pcb) /\ Q!IsInjective(Queues[q])
             /\ tp[q] = NULL <=> Queues[q] = <<>>
             /\ tp[q] # NULL => tp[q] \in Pcb /\ Last(Queues[q]) = tp[q]
  <2> DEFINE s == Queues[q]
  <2>1. IsRing(tp[q], s, p_next, p_prev)
    BY <1>1
  <2> HIDE DEF s
  <2>2. s \in Seq(Pcb) /\ Q!IsInjective(s)
    BY <2>1, Q!SeqFacts DEF IsRing
  <2>3. s # <<>> => s[Len(s)] \in Pcb
    BY <2>2
  <2>4. tp[q] = NULL <=> s = <<>>
    BY <2>1, <2>3, PcbFacts DEF IsRing, NULL
  <2>5. tp[q] # NULL => tp[q] \in Pcb /\ Last(s) = tp[q]
    BY <2>1, <2>3, <2>4 DEF IsRing, Last
  <2>. QED  BY <2>2, <2>4, <2>5 DEF s
<1>. QED  BY <1>1, <1>2, <1>3, <1>4

(***************************************************************************)
(* The loop of outProcQ meets the elements of the queue and stops.         *)
(***************************************************************************)
LEMMA SearchIs ==
  ASSUME PcbInv, NEW q \in Queue
  PROVE  Search(tp[q]) = ToSet(Queues[q])
<1>1. CASE tp[q] = NULL
  <2>1. ToSet(<<>>) = {}
    BY DEF ToSet
  <2>. QED  BY <1>1, <2>1, InvFacts DEF Search
<1>2. CASE tp[q] # NULL
  BY <1>2, InvFacts, SearchFound DEF Search
<1>. QED  BY <1>1, <1>2

(***************************************************************************)
(* What the operators on sequences do to the elements.                     *)
(***************************************************************************)
LEMMA PutElements ==
  ASSUME NEW s \in Seq(Pcb), NEW p \in Pcb
  PROVE  Append(s, p) \in Seq(Pcb) /\ ToSet(Append(s, p)) = ToSet(s) \cup {p}
BY Q!InsertLemma, SameOperators DEF Q!insertProcQ

LEMMA TakeElements ==
  ASSUME NEW s \in Seq(Pcb), s # <<>>, Q!IsInjective(s)
  PROVE  /\ Head(s) \in ToSet(s) /\ Head(s) \in Pcb
         /\ ToSet(Tail(s)) = ToSet(s) \ {Head(s)}
<1>1. ~Q!emptyProcQ(s)
  BY DEF Q!emptyProcQ
<1>2. /\ Head(s) \in ToSet(s) /\ Head(s) \in Pcb
      /\ ToSet(s) = ToSet(Tail(s)) \cup {Head(s)}
      /\ Head(s) \notin ToSet(Tail(s))
  BY <1>1, Q!RemoveLemma, SameOperators DEF Q!headProcQ, Q!removeProcQ
<1>. QED  BY <1>2

LEMMA OutElements ==
  ASSUME NEW s \in Seq(Pcb), NEW p, Q!IsInjective(s)
  PROVE  /\ Pool!outProcQ(s, p) = Q!outProcQ(s, p)
         /\ ToSet(Pool!outProcQ(s, p)) = ToSet(s) \ {p}
<1>1. Pool!outProcQ(s, p) = Q!outProcQ(s, p)
  BY Zenon DEF Pool!outProcQ, Q!outProcQ, Pool!emptyProcQ, Q!emptyProcQ,
       Pool!Last, Q!Last, Pool!DropNewest, Q!DropNewest,
       Pool!Without, Q!Without, Pool!ToSet, Q!ToSet, Pool!RemoveAt, Q!RemoveAt,
       Pool!mkEmptyProcQ, Q!mkEmptyProcQ, Pool!insertProcQ, Q!insertProcQ,
       Pool!removeProcQ, Q!removeProcQ, Pool!headProcQ, Q!headProcQ,
       Pool!Front, Q!Front
<1>. QED  BY <1>1, Q!OutLemma, SameOperators

------------------------------------------------------------------------------
(***************************************************************************)
(* Each function keeps the invariant and does what PcbPool says.           *)
(***************************************************************************)
LEMMA AllocStep ==
  ASSUME PcbInv, allocPcb
  PROVE  PcbInv' /\ Pool!Alloc
<1>1. CASE pcbfree_h = NULL
  <2>1. UNCHANGED <<pcbfree_h, tp, p_next, p_prev, held>> /\ result' = NULL
    BY <1>1 DEF allocPcb
  <2>2. FreeList' = FreeList /\ Queues' = Queues /\ PcbInv'
    BY <2>1 DEF PcbInv, FreeList, Queues, Ring
  <2>3. FreeList = <<>>
    BY <1>1, InvFacts
  <2>. QED  BY <2>1, <2>2, <2>3 DEF Pool!Alloc, Queues
<1>2. CASE pcbfree_h # NULL
  <2>1. /\ result' = pcbfree_h /\ pcbfree_h' = p_next[pcbfree_h]
        /\ p_next' = [p_next EXCEPT ![pcbfree_h] = NULL]
        /\ p_prev' = [p_prev EXCEPT ![pcbfree_h] = NULL]
        /\ held' = held \cup {pcbfree_h} /\ UNCHANGED tp
    BY <1>2 DEF allocPcb
  <2>2. /\ FreeList # <<>> /\ pcbfree_h = Head(FreeList)
        /\ IsList(pcbfree_h', Tail(FreeList), p_next')
        /\ WrittenIn({pcbfree_h}, p_next, p_prev, p_next', p_prev')
    <3>1. HeadCleared(pcbfree_h, p_next, p_prev, p_next', p_prev')
      BY <2>1 DEF HeadCleared
    <3>. QED  BY <1>2, <2>1, <3>1, InvFacts, ListTake
  <2>3. /\ pcbfree_h \in ToSet(FreeList)
        /\ ToSet(Tail(FreeList)) = ToSet(FreeList) \ {pcbfree_h}
    BY <2>2, InvFacts, TakeElements
  <2>4. held' \cup ToSet(Tail(FreeList)) = held \cup ToSet(FreeList)
    BY <2>1, <2>3
  <2>5. held' \cap ToSet(Tail(FreeList)) = {}
    BY <2>1, <2>3 DEF PcbInv, Apart
  <2>6. PcbInv' /\ FreeList' = Tail(FreeList) /\ Queues' = Queues
    BY <2>1, <2>2, <2>3, <2>4, <2>5, FreeStep
  <2>. QED  BY <2>1, <2>2, <2>6 DEF Pool!Alloc, Queues
<1>. QED  BY <1>1, <1>2

LEMMA FreePcbStep ==
  ASSUME PcbInv, NEW p \in Pcb, freePcb(p)
  PROVE  PcbInv' /\ Pool!Free(p)
<1>1. /\ p \in held /\ held' = held \ {p}
      /\ p_prev' = [p_prev EXCEPT ![p] = NULL]
      /\ pcbfree_h' = IF pcbfree_h = NULL THEN p ELSE pcbfree_h
      /\ p_next' = IF pcbfree_h = NULL THEN [p_next EXCEPT ![p] = NULL]
                   ELSE [p_next EXCEPT ![Last(FreeList)] = p, ![p] = NULL]
      /\ UNCHANGED <<tp, result>>
  BY DEF freePcb
<1>2. p \notin ToSet(FreeList)
  BY <1>1 DEF PcbInv, Apart
<1>3. /\ IsList(pcbfree_h', Append(FreeList, p), p_next')
      /\ WrittenIn(ToSet(FreeList) \cup {p}, p_next, p_prev, p_next', p_prev')
  BY <1>1, <1>2, InvFacts, ListPut
<1>4. ToSet(Append(FreeList, p)) = ToSet(FreeList) \cup {p}
  BY InvFacts, PutElements
<1>5. held' \cup ToSet(Append(FreeList, p)) = held \cup ToSet(FreeList)
  BY <1>1, <1>4
<1>6. held' \cap ToSet(Append(FreeList, p)) = {}
  BY <1>1, <1>4 DEF PcbInv, Apart
<1>7. ToSet(FreeList) \cup {p} \subseteq ToSet(FreeList) \cup held
  BY <1>1
<1>8. PcbInv' /\ FreeList' = Append(FreeList, p) /\ Queues' = Queues
  BY <1>1, <1>3, <1>5, <1>6, <1>7, FreeStep
<1>. QED  BY <1>1, <1>8 DEF Pool!Free, Queues

LEMMA InsertStep ==
  ASSUME PcbInv, NEW q \in Queue, NEW p \in Pcb, insertProcQ(q, p)
  PROVE  PcbInv' /\ Pool!Enqueue(q, p)
<1>1. /\ p \in held /\ held' = held \ {p}
      /\ tp' = [tp EXCEPT ![q] = p]
      /\ IF tp[q] = NULL
           THEN /\ p_next' = [p_next EXCEPT ![p] = p]
                /\ p_prev' = [p_prev EXCEPT ![p] = p]
           ELSE /\ p_next' = [p_next EXCEPT ![p] = tp[q], ![p_prev[tp[q]]] = p]
                /\ p_prev' = [p_prev EXCEPT ![p] = p_prev[tp[q]], ![tp[q]] = p]
      /\ UNCHANGED <<pcbfree_h, result>>
  BY DEF insertProcQ
<1> DEFINE s == Queues[q]
<1>2. s \in Seq(Pcb) /\ p \notin ToSet(s)
  BY <1>1, InvFacts DEF PcbInv, Apart
<1>3. /\ IsRing(p, Append(s, p), p_next', p_prev')
      /\ WrittenIn(ToSet(s) \cup {p}, p_next, p_prev, p_next', p_prev')
  BY <1>1, <1>2, InvFacts, RingPut
<1>4. ToSet(Append(s, p)) = ToSet(s) \cup {p}
  BY <1>2, PutElements
<1>5. held' \cup ToSet(Append(s, p)) = held \cup ToSet(s)
  BY <1>1, <1>4
<1>6. held' \cap ToSet(Append(s, p)) = {}
  BY <1>1, <1>4 DEF PcbInv, Apart
<1>7. ToSet(s) \cup {p} \subseteq ToSet(s) \cup held
  BY <1>1
<1>8. PcbInv' /\ FreeList' = FreeList /\ Queues' = [Queues EXCEPT ![q] = Append(s, p)]
  BY <1>1, <1>3, <1>5, <1>6, <1>7, QueueStep
<1>. QED  BY <1>1, <1>8, Zenon DEF Pool!Enqueue, Pool!insertProcQ, Queues

LEMMA RemoveStep ==
  ASSUME PcbInv, NEW q \in Queue, removeProcQ(q)
  PROVE  PcbInv' /\ Pool!Dequeue(q)
<1> DEFINE s == Queues[q]  t == tp[q]
<1>1. CASE t = NULL
  <2>1. UNCHANGED <<pcbfree_h, tp, p_next, p_prev, held>> /\ result' = NULL
    BY <1>1 DEF removeProcQ
  <2>2. FreeList' = FreeList /\ Queues' = Queues /\ PcbInv'
    BY <2>1 DEF PcbInv, FreeList, Queues, Ring
  <2>3. s = <<>>
    BY <1>1, InvFacts
  <2>. QED  BY <2>1, <2>2, <2>3 DEF Pool!Dequeue, Pool!emptyProcQ, Queues
<1>2. CASE t # NULL
  <2>1. /\ IsRing(t, s, p_next, p_prev) /\ s \in Seq(Pcb) /\ s # <<>>
        /\ Q!IsInjective(s)
        /\ Head(s) \in ToSet(s) /\ ToSet(Tail(s)) = ToSet(s) \ {Head(s)}
    BY <1>2, InvFacts, TakeElements
  <2>2. /\ result' = Head(s)
        /\ tp' = [tp EXCEPT ![q] = IF p_next[t] = t THEN NULL ELSE t]
        /\ IsRing(IF p_next[t] = t THEN NULL ELSE t, Tail(s), p_next', p_prev')
        /\ WrittenIn(ToSet(s), p_next, p_prev, p_next', p_prev')
    <3>1. CASE p_next[t] = t
      <4>1. result' = t /\ tp' = [tp EXCEPT ![q] = NULL] /\ UNCHANGED <<p_next, p_prev>>
        BY <1>2, <3>1 DEF removeProcQ
      <4>2. Len(s) = 1 /\ s[1] = t
        BY <1>2, <2>1, <3>1, RingFacts
      <4>3. Head(s) = t /\ Tail(s) = <<>>
        <5> HIDE DEF s, t
        <5>1. Head(s) = s[1]
          BY <2>1
        <5>2. Tail(s) \in Seq(Pcb) /\ Len(Tail(s)) = 0
          BY <2>1, <4>2
        <5>3. \A w \in Seq(Pcb) : Len(w) = 0 => w = <<>>
          OBVIOUS
        <5>. QED  BY <4>2, <5>1, <5>2, <5>3
      <4>4. IsRing(NULL, <<>>, p_next', p_prev')
        BY DEF IsRing
      <4>5. WrittenIn(ToSet(s), p_next, p_prev, p_next', p_prev')
        BY <4>1, InvFacts DEF WrittenIn
      <4>. QED  BY <3>1, <4>1, <4>3, <4>4, <4>5
    <3>2. CASE p_next[t] # t
      <4>1. /\ result' = p_prev[t] /\ UNCHANGED tp
            /\ p_next' = [p_next EXCEPT ![p_prev[p_prev[t]]] = t]
            /\ p_prev' = [p_prev EXCEPT ![t] = p_prev[p_prev[t]]]
        BY <1>2, <3>2 DEF removeProcQ
      <4>2. /\ p_prev[t] = Head(s)
            /\ IsRing(t, Tail(s), p_next', p_prev')
            /\ WrittenIn(ToSet(s), p_next, p_prev, p_next', p_prev')
        <5>1. OldestUnlinked(t, p_next, p_prev, p_next', p_prev')
          BY <4>1 DEF OldestUnlinked
        <5> HIDE DEF s, t
        <5>. QED  BY <1>2, <2>1, <3>2, <5>1, InvFacts, RingTake
      <4>3. tp' = [tp EXCEPT ![q] = t]
        BY <4>1 DEF PcbInv, Wired
      <4>. QED  BY <3>2, <4>1, <4>2, <4>3
    <3>. QED  BY <3>1, <3>2
  <2>3. held' = held \cup {Head(s)} /\ UNCHANGED pcbfree_h
    BY <1>2, <2>2 DEF removeProcQ
  <2>4. held' \cup ToSet(Tail(s)) = held \cup ToSet(s)
    BY <2>1, <2>3
  <2>5. held' \cap ToSet(Tail(s)) = {}
    BY <2>1, <2>3 DEF PcbInv, Apart
  <2>6. PcbInv' /\ FreeList' = FreeList /\ Queues' = [Queues EXCEPT ![q] = Tail(s)]
    BY <2>2, <2>3, <2>4, <2>5, QueueStep
  <2>. QED
    BY <2>1, <2>2, <2>3, <2>6, Zenon
       DEF Pool!Dequeue, Pool!emptyProcQ, Pool!headProcQ, Pool!removeProcQ, Queues
<1>. QED  BY <1>1, <1>2

LEMMA OutStep ==
  ASSUME PcbInv, NEW q \in Queue, NEW p \in Pcb, outProcQ(q, p)
  PROVE  PcbInv' /\ Pool!Withdraw(q, p)
<1> DEFINE s == Queues[q]  t == tp[q]
<1>1. /\ IsRing(t, s, p_next, p_prev) /\ s \in Seq(Pcb) /\ Q!IsInjective(s)
      /\ t = NULL <=> s = <<>>
      /\ t # NULL => t \in Pcb /\ Last(s) = t
      /\ Search(t) = ToSet(s)
      /\ p \notin ToSet(FreeList) /\ UNCHANGED pcbfree_h
      /\ Pool!outProcQ(s, p) = Q!outProcQ(s, p)
      /\ ToSet(Pool!outProcQ(s, p)) = ToSet(s) \ {p}
      /\ p # NULL
  BY InvFacts, SearchIs, OutElements, PcbFacts DEF outProcQ, NULL
<1> HIDE DEF s, t
<1>2. CASE outProcQ_Absent(q, p)
  <2>1. /\ UNCHANGED <<pcbfree_h, tp, p_next, p_prev, held>> /\ result' = NULL
        /\ p \notin ToSet(s)
    <3>1. p \notin ToSet(s) /\ t # p /\ UNCHANGED <<tp, p_next, p_prev>>
      BY <1>1, <1>2 DEF outProcQ_Absent, t
    <3>2. p \in ToSet(s) \/ (result' = NULL /\ UNCHANGED held)
      BY <1>1, <3>1 DEF outProcQ, outProcQ_Only, outProcQ_Newest, outProcQ_Older, t
    <3>. QED  BY <1>1, <3>1, <3>2
  <2>2. FreeList' = FreeList /\ Queues' = Queues /\ PcbInv'
    BY <2>1 DEF PcbInv, FreeList, Queues, Ring
  <2>3. Q!outProcQ(s, p) = s
    <3>1. ~(s # <<>> /\ s[Len(s)] = p)
      <4>1. s # <<>> => Len(s) \in 1 .. Len(s)
        BY <1>1
      <4>. QED  BY <1>1, <2>1, <4>1, Members
    <3>. QED  BY <2>1, <3>1, SameOperators
              DEF Q!outProcQ, Q!emptyProcQ, Q!Last, Q!Without
  <2>4. Queues = [Queues EXCEPT ![q] = Pool!outProcQ(@, p)]
    <3>1. Queues[q] = Pool!outProcQ(Queues[q], p)
      BY <1>1, <2>3 DEF s
    <3>. QED  BY <3>1 DEF Queues
  <2>. QED  BY <1>1, <2>1, <2>2, <2>4, SameOperators DEF Pool!Withdraw, Queues, s
<1>3. CASE ~outProcQ_Absent(q, p)
  <2>0. /\ outProcQ_Only(q, p) \/ outProcQ_Newest(q, p) \/ outProcQ_Older(q, p)
        /\ result' = p /\ held' = held \cup {p}
    BY <1>3 DEF outProcQ
  <2> DEFINE out == Q!outProcQ(s, p)
  <2>1. /\ p \in ToSet(s)
        /\ \E t2 : /\ tp' = [tp EXCEPT ![q] = t2]
                   /\ IsRing(t2, out, p_next', p_prev')
        /\ WrittenIn(ToSet(s), p_next, p_prev, p_next', p_prev')
    <3>1. CASE outProcQ_Only(q, p)
      <4>1. /\ t = p /\ p_next[p] = p /\ tp' = [tp EXCEPT ![q] = NULL]
            /\ UNCHANGED <<p_next, p_prev>>
        BY <3>1 DEF outProcQ_Only, t
      <4>2. Len(s) = 1 /\ s # <<>> /\ s[1] = p /\ 1 \in 1 .. Len(s)
        BY <1>1, <4>1, RingFacts
      <4>3. out = <<>>
        BY <4>2 DEF Q!outProcQ, Q!emptyProcQ, Q!Last, Q!DropNewest, Q!mkEmptyProcQ
      <4>4. IsRing(NULL, <<>>, p_next', p_prev')
        BY DEF IsRing
      <4>5. p \in ToSet(s)
        BY <1>1, <4>2, Members
      <4>. QED  BY <4>1, <4>3, <4>4, <4>5, InvFacts DEF WrittenIn
    <3>2. CASE outProcQ_Newest(q, p)
      <4>1. /\ t = p /\ p_next[p] # p /\ tp' = [tp EXCEPT ![q] = p_prev[p]]
            /\ p_next' = [p_next EXCEPT ![p_prev[p]] = p_next[p]]
            /\ p_prev' = [p_prev EXCEPT ![p_next[p]] = p_prev[p]]
        BY <3>2 DEF outProcQ_Newest, Unlink, t
      <4>2. s # <<>> /\ s[Len(s)] = p /\ p \in ToSet(s)
        <5>1. s # <<>> /\ s[Len(s)] = p /\ Len(s) \in 1 .. Len(s)
          BY <1>1, <4>1, RingFacts
        <5>. QED  BY <1>1, <5>1, Members
      <4>3. out = Q!DropNewest(s)
        BY <4>2 DEF Q!outProcQ, Q!emptyProcQ, Q!Last
      <4>4. /\ IsRing(p_prev[p], out, p_next', p_prev')
            /\ WrittenIn(ToSet(s), p_next, p_prev, p_next', p_prev')
        <5>1. NewestUnlinked(p, p_next, p_prev, p_next', p_prev')
          BY <4>1 DEF NewestUnlinked
        <5>. QED  BY <1>1, <4>1, <4>3, <5>1, InvFacts, RingTurn
      <4>. QED  BY <4>1, <4>2, <4>4
    <3>3. CASE outProcQ_Older(q, p)
      <4>1. /\ t # NULL /\ t # p /\ p \in ToSet(s) /\ UNCHANGED tp
            /\ p_next' = [[p_next EXCEPT ![p] = NULL] EXCEPT ![p_prev[p]] = p_next[p]]
            /\ p_prev' = [[p_prev EXCEPT ![p] = NULL] EXCEPT ![p_next[p]] = p_prev[p]]
        BY <1>1, <3>3 DEF outProcQ_Older, Unlink, t
      <4>2. s # <<>> /\ s[Len(s)] # p
        BY <1>1, <4>1, RingFacts
      <4>3. out = Q!Without(s, p)
        BY <4>2 DEF Q!outProcQ, Q!emptyProcQ, Q!Last
      <4>4. /\ IsRing(t, out, p_next', p_prev')
            /\ WrittenIn(ToSet(s), p_next, p_prev, p_next', p_prev')
        <5>1. OlderUnlinked(p, p_next, p_prev, p_next', p_prev')
          BY <4>1 DEF OlderUnlinked
        <5>. QED  BY <1>1, <4>1, <4>3, <5>1, InvFacts, RingCut
      <4>5. tp' = [tp EXCEPT ![q] = t]
        BY <4>1 DEF PcbInv, Wired, t
      <4>. QED  BY <4>1, <4>4, <4>5
    <3>. QED  BY <2>0, <3>1, <3>2, <3>3
  <2>2. PICK t2 : /\ tp' = [tp EXCEPT ![q] = t2]
                  /\ IsRing(t2, out, p_next', p_prev')
    BY <2>1
  <2>3. ToSet(out) = ToSet(s) \ {p}
    BY <1>1
  <2> HIDE DEF out
  <2>4. held' \cup ToSet(out) = held \cup ToSet(s)
    BY <2>0, <2>1, <2>3
  <2>5. held' \cap ToSet(out) = {}
    BY <2>0, <2>3 DEF PcbInv, Apart, s
  <2>6. PcbInv' /\ FreeList' = FreeList /\ Queues' = [Queues EXCEPT ![q] = out]
    BY <1>1, <2>1, <2>2, <2>4, <2>5, QueueStep DEF s
  <2>7. Queues' = [Queues EXCEPT ![q] = Pool!outProcQ(@, p)]
    BY <1>1, <2>6 DEF out, s
  <2>. QED
    BY <1>1, <2>0, <2>1, <2>6, <2>7, SameOperators DEF Pool!Withdraw, Queues, s
<1>. QED  BY <1>2, <1>3

LEMMA InitStep ==
  ASSUME Init
  PROVE  PcbInv /\ Pool!Init
<1> DEFINE fr == [i \in 1 .. MAXPROC |-> i]
           qu == [q \in Queue |-> <<>>]
<1>1. fr \in Seq(Pcb) /\ Len(fr) = MAXPROC /\ MAXPROC \in Nat \ {0}
  BY TableAssumption DEF Pcb
<1>2. /\ pcbfree_h = 1
      /\ \A q \in Queue : tp[q] = NULL
      /\ tp = [q \in Queue |-> tp[q]] /\ DOMAIN tp = Queue
      /\ p_next = [p \in Pcb |-> IF p = MAXPROC THEN NULL ELSE p + 1]
      /\ p_prev = [p \in Pcb |-> NULL]
      /\ held = {} /\ result = NULL
  BY DEF Init
<1>3. p_next \in [Pcb -> PcbOrNull] /\ p_prev \in [Pcb -> PcbOrNull]
  <2>1. \A p \in Pcb : p # MAXPROC => p + 1 \in Pcb
    BY <1>1 DEF Pcb
  <2>. QED  BY <1>2, <2>1 DEF PcbOrNull
<1>4. IsList(pcbfree_h, fr, p_next)
  <2>1. fr # <<>> /\ fr[1] = 1
    BY <1>1
  <2>2. \A i \in 1 .. MAXPROC : fr[i] = i /\ i \in Pcb /\ (i # MAXPROC => fr[i+1] = i + 1)
    BY <1>1 DEF Pcb
  <2> HIDE DEF fr
  <2>. QED  BY <1>1, <1>2, <2>1, <2>2 DEF IsList
<1>5. \A q \in Queue : IsRing(tp[q], qu[q], p_next, p_prev)
  BY <1>2 DEF IsRing
<1>6. Wired(pcbfree_h, tp, p_next, p_prev, fr, qu)
  BY <1>2, <1>3, <1>4, <1>5 DEF Wired
<1>7. ToSet(fr) = Pcb
  BY <1>1 DEF ToSet, Pcb
<1>8. Apart(held, fr, qu)
  <2>1. \A q \in Queue : ToSet(qu[q]) = {}
    BY DEF ToSet
  <2>. QED  BY <1>2, <1>7, <2>1 DEF Apart
<1>9. FreeList = fr /\ Queues = qu
  <2>1. /\ Walk(p_next, pcbfree_h, NULL) = fr
        /\ [q \in Queue |-> IF tp[q] = NULL THEN <<>>
                            ELSE Walk(p_prev, p_prev[tp[q]], tp[q])] = qu
    BY <1>6, WiredFound
  <2>. QED  BY <2>1, Zenon DEF FreeList, Queues, Ring
<1>10. FreeList \in Pool!SetToSeqs(Pcb)
  <2>1. Pool!Cardinality(Pcb) = MAXPROC
    <3>1. Cardinality(Pcb) = MAXPROC
      BY <1>1, FS_Interval DEF Pcb
    <3>2. Pool!Cardinality(Pcb) = Cardinality(Pcb)
      BY Zenon DEF Pool!Cardinality, Cardinality, Pool!IsFiniteSet, IsFiniteSet
    <3>. QED  BY <3>1, <3>2
  <2>2. fr \in [1 .. MAXPROC -> Pcb] /\ \A i,
  j \in 1 .. MAXPROC : i # j => fr[i] # fr[j]
    BY DEF Pcb
  <2>. QED  BY <1>9, <2>1, <2>2 DEF Pool!SetToSeqs
<1>. QED  BY <1>2, <1>6, <1>8, <1>9, <1>10 DEF PcbInv, Pool!Init, Pool!mkEmptyProcQ,
Queues

LEMMA NextStep ==
  ASSUME PcbInv, [Next]_vars
  PROVE  PcbInv' /\ [Pool!Next]_(Pool!vars)
<1>1. CASE allocPcb
  BY <1>1, AllocStep DEF Pool!Next
<1>2. ASSUME NEW p \in Pcb, freePcb(p)
      PROVE  PcbInv' /\ Pool!Next
  BY <1>2, FreePcbStep DEF Pool!Next
<1>3. ASSUME NEW q \in Queue, removeProcQ(q)
      PROVE  PcbInv' /\ Pool!Next
  BY <1>3, RemoveStep DEF Pool!Next
<1>4. ASSUME NEW q \in Queue, NEW p \in Pcb, insertProcQ(q, p)
      PROVE  PcbInv' /\ Pool!Next
  BY <1>4, InsertStep DEF Pool!Next
<1>5. ASSUME NEW q \in Queue, NEW p \in Pcb, outProcQ(q, p)
      PROVE  PcbInv' /\ Pool!Next
  BY <1>5, OutStep DEF Pool!Next
<1>6. CASE UNCHANGED vars
  BY <1>6 DEF vars, PcbInv, FreeList, Queues, Ring, Pool!vars
<1>. QED  BY <1>1, <1>2, <1>3, <1>4, <1>5, <1>6 DEF Next

LEMMA PcbInvRings ==
  ASSUME PcbInv
  PROVE  RingsClosed
<1> SUFFICES ASSUME NEW q \in Queue, tp[q] # NULL
             PROVE  /\ Last(Ring(tp[q])) = tp[q]
                    /\ \A p \in ToSet(Ring(tp[q])) :
                         p_next[p_prev[p]] = p /\ p_prev[p_next[p]] = p
                    /\ Search(tp[q]) = ToSet(Ring(tp[q]))
  BY DEF RingsClosed
<1> DEFINE s == Ring(tp[q])  n == Len(s)
<1>1. s = Queues[q]
  BY DEF Queues
<1>2. Last(s) = tp[q] /\ Search(tp[q]) = ToSet(s)
  BY <1>1, InvFacts, SearchIs
<1>3. IsRing(tp[q], s, p_next, p_prev)
  BY <1>1, InvFacts
<1> HIDE DEF s
<1>4. /\ s \in Seq(Pcb) /\ n \in Nat \ {0}
      /\ \A i \in 1 .. n : /\ p_prev[s[i]] = IF i = n THEN s[1] ELSE s[i+1]
                           /\ p_next[s[i]] = IF i = 1 THEN s[n] ELSE s[i-1]
  BY <1>3, RingFacts
<1>5. ASSUME NEW p \in ToSet(s)
      PROVE  p_next[p_prev[p]] = p /\ p_prev[p_next[p]] = p
  <2>1. PICK i \in 1 .. n : s[i] = p
    BY <1>4, Members
  <2> HIDE DEF n
  <2>2. /\ 1 \in 1 .. n /\ n \in 1 .. n
        /\ i # n => i + 1 \in 1 .. n /\ i + 1 # 1 /\ (i + 1) - 1 = i
        /\ i # 1 => i - 1 \in 1 .. n /\ i - 1 # n /\ (i - 1) + 1 = i
    BY <1>4
  <2>. QED  BY <1>4, <2>1, <2>2
<1>. QED  BY <1>2, <1>5 DEF s

LEMMA CountApart ==
  ASSUME NEW S, NEW T, IsFiniteSet(S), IsFiniteSet(T), S \cap T = {}
  PROVE  /\ IsFiniteSet(S \cup T)
         /\ Cardinality(S \cup T) = Cardinality(S) + Cardinality(T)
<1>1. /\ Cardinality(S \cup T) = Cardinality(S) + Cardinality(T) - Cardinality(S \cap T)
      /\ IsFiniteSet(S \cup T)
  BY FS_Union
<1>2. Cardinality(S \cap T) = 0
  BY FS_EmptySet
<1>3. Cardinality(S) \in Nat /\ Cardinality(T) \in Nat
  BY FS_CardinalityType
<1>. QED  BY <1>1, <1>2, <1>3

LEMMA PcbInvPool ==
  ASSUME PcbInv
  PROVE  PoolComplete
<1> DEFINE F == ToSet(FreeList)
           U == UNION {ToSet(Ring(tp[q])) : q \in Queue}
<1>1. \A q \in Queue : Ring(tp[q]) = Queues[q]
  BY DEF Queues
<1>2. U = UNION {ToSet(Queues[q]) : q \in Queue}
  BY <1>1
<1>3. \A x : x \in U <=> \E q \in Queue : x \in ToSet(Queues[q])
  BY <1>2
<1>4. /\ F \subseteq Pcb /\ held \subseteq Pcb /\ U \subseteq Pcb
      /\ F \cap held = {} /\ U \cap (held \cup F) = {}
      /\ held \cup F \cup U = Pcb
  <2>1. F \subseteq Pcb /\ \A q \in Queue : ToSet(Queues[q]) \subseteq Pcb
    BY InvFacts, Members
  <2> HIDE DEF U, F
  <2>2. U \subseteq Pcb
    BY <1>3, <2>1
  <2>3. /\ held \subseteq Pcb /\ F \cap held = {}
        /\ \A q \in Queue : ToSet(Queues[q]) \cap (held \cup F) = {}
        /\ \A p \in Pcb : p \in held \/ p \in F \/ \E q \in Queue : p \in ToSet(Queues[q])
    BY DEF PcbInv, Apart, F
  <2>4. U \cap (held \cup F) = {}
    BY <1>3, <2>3
  <2>5. held \cup F \cup U = Pcb
    BY <1>3, <2>1, <2>2, <2>3
  <2>. QED  BY <2>1, <2>2, <2>3, <2>4, <2>5
<1>5. Cardinality(F) = Len(FreeList)
  BY InvFacts, Q!LenLemma, SameOperators
<1> HIDE DEF U, F
<1>6. Len(FreeList) + Cardinality(held) + Cardinality(U) = MAXPROC
  <2>1. IsFiniteSet(F) /\ IsFiniteSet(held) /\ IsFiniteSet(U)
    BY <1>4, PcbFacts, FS_Subset
  <2>2. Cardinality(F \cup held) = Cardinality(F) + Cardinality(held)
    BY <1>4, <2>1, CountApart
  <2>3. IsFiniteSet(F \cup held)
    BY <1>4, <2>1, CountApart
  <2>4. (F \cup held) \cap U = {} /\ (F \cup held) \cup U = Pcb
    BY <1>4
  <2>5. Cardinality(Pcb) = Cardinality(F \cup held) + Cardinality(U)
    BY <2>1, <2>3, <2>4, CountApart
  <2>6. Cardinality(Pcb) = MAXPROC
    BY PcbFacts, FS_Interval DEF Pcb
  <2>. QED  BY <1>5, <2>2, <2>5, <2>6
<1>7. FreeList # <<>> => p_next[Last(FreeList)] = NULL
  <2>1. IsList(pcbfree_h, FreeList, p_next)
    BY InvFacts
  <2>2. FreeList # <<>> => Len(FreeList) \in 1 .. Len(FreeList)
    BY InvFacts
  <2>. QED  BY <2>1, <2>2 DEF IsList, Last
<1>8. \A q, r \in Queue : q # r => ToSet(Ring(tp[q])) \cap ToSet(Ring(tp[r])) = {}
  BY <1>1 DEF PcbInv, Apart
<1>. QED  BY <1>4, <1>6, <1>7, <1>8 DEF PoolComplete, F, U

------------------------------------------------------------------------------
(***************************************************************************)
(* The invariant holds of pcb.c's lists, for any table and any queues.     *)
(***************************************************************************)
THEOREM ListsInvariant == Spec => []PcbInv
<1>1. Init => PcbInv
  BY InitStep
<1>2. PcbInv /\ [Next]_vars => PcbInv'
  BY NextStep
<1>. QED  BY <1>1, <1>2, PTL DEF Spec

(***************************************************************************)
(* The search loop of outProcQ always stops, after the whole queue.        *)
(***************************************************************************)
THEOREM RingsStayClosed == Spec => []RingsClosed
<1>1. PcbInv => RingsClosed
  BY PcbInvRings
<1>. QED  BY <1>1, ListsInvariant, PTL

(***************************************************************************)
(* No pcb is ever lost, or in two places.                                  *)
(***************************************************************************)
THEOREM PoolStaysComplete == Spec => []PoolComplete
<1>1. PcbInv => PoolComplete
  BY PcbInvPool
<1>. QED  BY <1>1, ListsInvariant, PTL

(***************************************************************************)
(* What the functions of pcb.c compute with pointers is what PcbPool says. *)
(***************************************************************************)
THEOREM ListsImplementPool == Spec => ImplementsPool
<1>1. Init => Pool!Init
  BY InitStep
<1>2. PcbInv /\ [Next]_vars => [Pool!Next]_(Pool!vars)
  BY NextStep
<1>. QED  BY <1>1, <1>2, ListsInvariant, PTL DEF Spec, ImplementsPool, Pool!Spec

------------------------------------------------------------------------------
(***************************************************************************)
(* A behaviour of phase 1 is one of each of its parts, of which the two    *)
(* others than PcbList have their theorems in ProcTreeProofs and           *)
(* AslProofs.                                                              *)
(***************************************************************************)
LEMMA Projections ==
  /\ Phase1Spec => Spec
  /\ Phase1Spec => Tree!Spec
  /\ Phase1Spec => Asl!Spec
<1>1. Phase1Init => Init /\ Tree!Init /\ Asl!Init
  BY DEF Phase1Init
<1>2. [Phase1Next]_<<part, vars, treeVars, aslVars>> =>
        [Next]_vars /\ [Tree!Next]_Tree!vars /\ [Asl!Next]_Asl!vars
  <2>1. /\ UNCHANGED treeVars => UNCHANGED Tree!vars
        /\ UNCHANGED aslVars => UNCHANGED Asl!vars
    BY DEF treeVars, aslVars, Tree!vars, Asl!vars
  <2>. QED  BY <2>1, Zenon DEF Phase1Next
<1>. QED  BY <1>1, <1>2, PTL DEF Phase1Spec, Spec, Tree!Spec, Asl!Spec

(* ProcTreeProofs has its own name for each operator of Tree. *)
TreeP == INSTANCE ProcTreeProofs WITH Pcb <- TreePcb, result <- treeResult

LEMMA TreeOps ==
  /\ \A S : TreeP!Cardinality(S) = Tree!Cardinality(S)
  /\ \A s : TreeP!Last(s) = Tree!Last(s)
  /\ \A s : TreeP!Abstract!ToSet(s) = Tree!Abstract!ToSet(s)
  /\ \A s, p : TreeP!Abstract!Without(s, p) = Tree!Abstract!Without(s, p)
<1>1. \A S : TreeP!Cardinality(S) = Tree!Cardinality(S)
  BY Zenon DEF TreeP!Cardinality, Tree!Cardinality, TreeP!IsFiniteSet,
     Tree!IsFiniteSet
<1>2. \A s : TreeP!Last(s) = Tree!Last(s)
  BY Zenon DEF TreeP!Last, Tree!Last
<1>3. \A s : TreeP!Abstract!ToSet(s) = Tree!Abstract!ToSet(s)
  BY Zenon DEF TreeP!Abstract!ToSet, Tree!Abstract!ToSet
<1>4. \A s, p : TreeP!Abstract!Without(s, p) = Tree!Abstract!Without(s, p)
  BY Zenon DEF TreeP!Abstract!Without, Tree!Abstract!Without, TreeP!Abstract!ToSet,
     Tree!Abstract!ToSet, TreeP!Abstract!RemoveAt, Tree!Abstract!RemoveAt
<1>. QED  BY <1>1, <1>2, <1>3, <1>4

LEMMA TreeWalk ==
  ASSUME NEW link, NEW x, NEW stop
  PROVE  TreeP!Walk(link, x, stop) = Tree!Walk(link, x, stop)
<1> DEFINE loop(k) == CHOOSE at : at = [i \in 1 .. k |->
                        IF i = 1 THEN x
                        ELSE IF at[i-1] \in {0, stop} THEN 0
                        ELSE link[at[i-1]]]
           met(k) == {i \in 1 .. k : loop(k)[i] # 0}
           walk(k, m) == [i \in 1 .. m |-> loop(k)[i]]
           n == Tree!Cardinality(DOMAIN link)
           size == TreeP!Cardinality(DOMAIN link)
<1>1. Tree!Walk(link, x, stop) = walk(n, Tree!Cardinality(met(n)))
  BY DEF Tree!Walk
<1>2. TreeP!Walk(link, x, stop) = walk(size, TreeP!Cardinality(met(size)))
  BY DEF TreeP!Walk
<1>3. n = size
  BY TreeOps
<1> HIDE DEF walk, met, n, size
<1>. QED  BY <1>1, <1>2, <1>3, TreeOps

(* The functions of the tree are the same ones. *)
LEMMA TreeSpecs == Tree!Spec => TreeP!Spec
<1>1. Tree!Init => TreeP!Init
  BY DEF Tree!Init, TreeP!Init, Tree!NULL, TreeP!NULL
<1>2. ASSUME NEW p, NEW q, ~Tree!Descends(p, q)
      PROVE  ~TreeP!Descends(p, q)
  BY <1>2, TreeOps DEF Tree!Descends, TreeP!Descends, Tree!NULL, TreeP!NULL
<1>3. ASSUME NEW prnt, NEW p, Tree!insertChild(prnt, p)
      PROVE  TreeP!insertChild(prnt, p)
  BY <1>2, <1>3, TreeWalk, TreeOps DEF Tree!insertChild, TreeP!insertChild,
     Tree!NULL, TreeP!NULL, Tree!emptyChild, TreeP!emptyChild, Tree!Siblings,
     TreeP!Siblings
<1>4. ASSUME NEW p, Tree!removeChild(p)
      PROVE  TreeP!removeChild(p)
  BY <1>4 DEF Tree!removeChild, TreeP!removeChild, Tree!NULL, TreeP!NULL,
     Tree!emptyChild, TreeP!emptyChild, Tree!links, TreeP!links
<1>5. ASSUME NEW p, Tree!outChild(p)
      PROVE  TreeP!outChild(p)
  BY <1>4, <1>5 DEF Tree!outChild, TreeP!outChild, Tree!NULL, TreeP!NULL,
     Tree!outChild_First, TreeP!outChild_First, Tree!outChild_Last,
     TreeP!outChild_Last, Tree!outChild_Middle, TreeP!outChild_Middle, Tree!links,
     TreeP!links
<1>6. [Tree!Next]_Tree!vars => [TreeP!Next]_TreeP!vars
  BY <1>3, <1>4, <1>5 DEF Tree!Next, TreeP!Next, Tree!vars, TreeP!vars
<1>. QED  BY <1>1, <1>6, PTL DEF Tree!Spec, TreeP!Spec

(* So are those of Forest. *)
LEMMA ForestSpecs == TreeP!ImplementsForest => Tree!ImplementsForest
<1>1. TreeP!Abstract!Init => Tree!Abstract!Init
  BY TreeWalk DEF TreeP!Abstract!Init, Tree!Abstract!Init, Tree!NULL, TreeP!NULL,
     Tree!emptyChild, TreeP!emptyChild, Tree!Siblings, TreeP!Siblings
<1> DEFINE kidsP == [p \in TreePcb |-> IF TreeP!emptyChild(p) THEN <<>> ELSE TreeP!Siblings(p_child[p])]
           kids  == [p \in TreePcb |-> IF Tree!emptyChild(p) THEN <<>> ELSE Tree!Siblings(p_child[p])]
<1>2. kidsP = kids
  BY TreeWalk DEF Tree!NULL, TreeP!NULL, Tree!emptyChild, TreeP!emptyChild,
     Tree!Siblings, TreeP!Siblings
<1>3. kidsP' = kids'
  BY TreeWalk DEF Tree!NULL, TreeP!NULL, Tree!emptyChild, TreeP!emptyChild,
     Tree!Siblings, TreeP!Siblings
<1>4. [TreeP!Abstract!Next]_TreeP!Abstract!vars => [Tree!Abstract!Next]_Tree!Abstract!vars
  <2>1. ASSUME NEW p, TreeP!Abstract!TakeFirst(p)
        PROVE  Tree!Abstract!TakeFirst(p)
    BY <1>2, <1>3, <2>1, Zenon DEF TreeP!Abstract!TakeFirst,
       Tree!Abstract!TakeFirst, Tree!NULL, TreeP!NULL
  <2>2. ASSUME NEW p, TreeP!Abstract!TakeOut(p)
        PROVE  Tree!Abstract!TakeOut(p)
    BY <1>2, <1>3, <2>2, TreeOps, Zenon DEF TreeP!Abstract!TakeOut,
       Tree!Abstract!TakeOut, Tree!NULL, TreeP!NULL
  <2>3. ASSUME NEW p, NEW prnt, TreeP!Abstract!Insert(prnt, p)
        PROVE  Tree!Abstract!Insert(prnt, p)
    BY <1>2, <1>3, <2>3, TreeOps, Zenon DEF TreeP!Abstract!Insert,
       Tree!Abstract!Insert, TreeP!Abstract!Closed, Tree!Abstract!Closed, Tree!NULL,
       TreeP!NULL
  <2>4. TreeP!Abstract!vars' = TreeP!Abstract!vars => Tree!Abstract!vars' = Tree!Abstract!vars
    BY <1>2, <1>3, Zenon DEF TreeP!Abstract!vars, Tree!Abstract!vars
  <2>. QED  BY <2>1, <2>2, <2>3, <2>4 DEF TreeP!Abstract!Next, Tree!Abstract!Next
<1>. QED  BY <1>1, <1>4, PTL DEF TreeP!ImplementsForest, Tree!ImplementsForest,
             TreeP!Abstract!Spec, Tree!Abstract!Spec

LEMMA TreeTable == TreeP!Table
<1>1. TreeP!IsFiniteSet(TreePcb) <=> IsFiniteSet(TreePcb)
  BY Zenon DEF TreeP!IsFiniteSet, IsFiniteSet
<1>. QED  BY <1>1, TreePcbAssumption DEF TreeP!Table, TreeP!NULL, NULL

(***************************************************************************)
(* The links of pcb.c's tree agree with each other, and a pcb without a    *)
(* parent has no sibling links left.                                       *)
(***************************************************************************)
THEOREM Phase1SiblingsLinked == Phase1Spec => []SiblingsLinked
<1>1. TreeP!SiblingsLinked => SiblingsLinked
  BY DEF TreeP!SiblingsLinked, SiblingsLinked, Tree!SiblingsLinked, TreeP!NULL,
     Tree!NULL, TreeP!emptyChild, Tree!emptyChild
<1>2. TreeP!Spec => []TreeP!SiblingsLinked
  BY TreeTable, TreeP!SiblingsStayLinked
<1>. QED  BY <1>1, <1>2, TreeSpecs, Projections, PTL

(***************************************************************************)
(* insertChild, removeChild and outChild compute what Forest says of       *)
(* sequences of children.                                                  *)
(***************************************************************************)
THEOREM Phase1ImplementsForest == Phase1Spec => ImplementsForest
<1>1. TreeP!Spec => TreeP!ImplementsForest
  BY TreeTable, TreeP!LinksImplementForest
<1>. QED  BY <1>1, TreeSpecs, ForestSpecs, Projections, PTL DEF ImplementsForest

(* AslProofs has its own name for each operator of Asl. *)
AslP == INSTANCE AslProofs WITH Pcb <- AslPcb, result <- aslResult

LEMMA AslOps ==
  /\ \A S : AslP!Cardinality(S) = Asl!Cardinality(S)
  /\ \A s : AslP!Last(s) = Asl!Last(s)
  /\ \A s : AslP!ToSet(s) = Asl!ToSet(s)
  /\ \A S : AslP!Min(S) = Asl!Min(S)
<1>1. \A S : AslP!Cardinality(S) = Asl!Cardinality(S)
  BY Zenon DEF AslP!Cardinality, Asl!Cardinality, AslP!IsFiniteSet, Asl!IsFiniteSet
<1>2. \A s : AslP!Last(s) = Asl!Last(s)
  BY Zenon DEF AslP!Last, Asl!Last
<1>3. \A s : AslP!ToSet(s) = Asl!ToSet(s)
  BY Zenon DEF AslP!ToSet, Asl!ToSet
<1>5. \A S : AslP!Min(S) = Asl!Min(S)
  BY Zenon DEF AslP!Min, Asl!Min
<1>. QED  BY <1>1, <1>2, <1>3, <1>5

LEMMA AslQueueOps ==
  /\ AslP!mkEmptyProcQ = Asl!mkEmptyProcQ
  /\ \A q : AslP!emptyProcQ(q) = Asl!emptyProcQ(q)
  /\ \A q : AslP!headProcQ(q) = Asl!headProcQ(q)
  /\ \A q : AslP!removeProcQ(q) = Asl!removeProcQ(q)
  /\ \A q, p : AslP!insertProcQ(q, p) = Asl!insertProcQ(q, p)
  /\ \A q, p : AslP!outProcQ(q, p) = Asl!outProcQ(q, p)
<1>1. \A q, p : AslP!outProcQ(q, p) = Asl!outProcQ(q, p)
  <2>1. \A q, p : AslP!Without(q, p) = Asl!Without(q, p)
    BY Zenon DEF AslP!Without, Asl!Without, AslP!ToSet, Asl!ToSet, AslP!RemoveAt,
       Asl!RemoveAt
  <2>2. \A q : AslP!DropNewest(q) = Asl!DropNewest(q)
    BY Zenon DEF AslP!DropNewest, Asl!DropNewest, AslP!Front, Asl!Front,
       AslP!mkEmptyProcQ, Asl!mkEmptyProcQ, AslP!insertProcQ, Asl!insertProcQ,
       AslP!removeProcQ, Asl!removeProcQ, AslP!headProcQ, Asl!headProcQ
  <2>. QED  BY <2>1, <2>2, AslOps, Zenon DEF AslP!outProcQ, Asl!outProcQ,
               AslP!emptyProcQ, Asl!emptyProcQ
<1>. QED  BY <1>1, Zenon DEF AslP!mkEmptyProcQ, Asl!mkEmptyProcQ, AslP!emptyProcQ,
             Asl!emptyProcQ, AslP!insertProcQ, Asl!insertProcQ, AslP!removeProcQ,
             Asl!removeProcQ, AslP!headProcQ, Asl!headProcQ

LEMMA AslQueuesOps ==
  /\ AslP!Queues!mkEmptyProcQ = Asl!Queues!mkEmptyProcQ
  /\ \A q : AslP!Queues!emptyProcQ(q) = Asl!Queues!emptyProcQ(q)
  /\ \A q : AslP!Queues!headProcQ(q) = Asl!Queues!headProcQ(q)
  /\ \A q : AslP!Queues!removeProcQ(q) = Asl!Queues!removeProcQ(q)
  /\ \A q, p : AslP!Queues!insertProcQ(q, p) = Asl!Queues!insertProcQ(q, p)
  /\ \A q, p : AslP!Queues!outProcQ(q, p) = Asl!Queues!outProcQ(q, p)
  /\ \A S : AslP!Queues!Cardinality(S) = Asl!Queues!Cardinality(S)
  /\ \A s : AslP!Queues!ToSet(s) = Asl!Queues!ToSet(s)
<1>0. \A S : AslP!Queues!Cardinality(S) = Asl!Queues!Cardinality(S)
  BY Zenon DEF AslP!Queues!Cardinality, Asl!Queues!Cardinality,
     AslP!Queues!IsFiniteSet, Asl!Queues!IsFiniteSet
<1>2. \A s : AslP!Queues!ToSet(s) = Asl!Queues!ToSet(s)
  BY Zenon DEF AslP!Queues!ToSet, Asl!Queues!ToSet
<1>3. \A s : AslP!Queues!Last(s) = Asl!Queues!Last(s)
  BY Zenon DEF AslP!Queues!Last, Asl!Queues!Last
<1>1. \A q, p : AslP!Queues!outProcQ(q, p) = Asl!Queues!outProcQ(q, p)
  <2>1. \A q, p : AslP!Queues!Without(q, p) = Asl!Queues!Without(q, p)
    BY Zenon DEF AslP!Queues!Without, Asl!Queues!Without, AslP!Queues!ToSet,
       Asl!Queues!ToSet, AslP!Queues!RemoveAt, Asl!Queues!RemoveAt
  <2>2. \A q : AslP!Queues!DropNewest(q) = Asl!Queues!DropNewest(q)
    BY Zenon DEF AslP!Queues!DropNewest, Asl!Queues!DropNewest, AslP!Queues!Front,
       Asl!Queues!Front, AslP!Queues!mkEmptyProcQ, Asl!Queues!mkEmptyProcQ,
       AslP!Queues!insertProcQ, Asl!Queues!insertProcQ, AslP!Queues!removeProcQ,
       Asl!Queues!removeProcQ, AslP!Queues!headProcQ, Asl!Queues!headProcQ
  <2>. QED  BY <2>1, <2>2, <1>3, Zenon DEF AslP!Queues!outProcQ,
               Asl!Queues!outProcQ, AslP!Queues!emptyProcQ, Asl!Queues!emptyProcQ
<1>. QED  BY <1>0, <1>1, <1>2, Zenon DEF AslP!Queues!mkEmptyProcQ,
             Asl!Queues!mkEmptyProcQ, AslP!Queues!emptyProcQ, Asl!Queues!emptyProcQ,
             AslP!Queues!insertProcQ, Asl!Queues!insertProcQ,
             AslP!Queues!removeProcQ, Asl!Queues!removeProcQ, AslP!Queues!headProcQ,
             Asl!Queues!headProcQ

LEMMA AslWalk ==
  ASSUME NEW link, NEW x, NEW stop
  PROVE  AslP!Walk(link, x, stop) = Asl!Walk(link, x, stop)
<1> DEFINE loop(k) == CHOOSE at : at = [i \in 1 .. k |->
                        IF i = 1 THEN x
                        ELSE IF at[i-1] \in {0, stop} THEN 0
                        ELSE link[at[i-1]]]
           met(k) == {i \in 1 .. k : loop(k)[i] # 0}
           walk(k, m) == [i \in 1 .. m |-> loop(k)[i]]
           n == Asl!Cardinality(DOMAIN link)
           size == AslP!Cardinality(DOMAIN link)
<1>1. Asl!Walk(link, x, stop) = walk(n, Asl!Cardinality(met(n)))
  BY DEF Asl!Walk
<1>2. AslP!Walk(link, x, stop) = walk(size, AslP!Cardinality(met(size)))
  BY DEF AslP!Walk
<1>3. n = size
  BY AslOps
<1> HIDE DEF walk, met, n, size
<1>. QED  BY <1>1, <1>2, <1>3, AslOps

LEMMA AslLists ==
  /\ AslP!Semd = Asl!Semd /\ AslP!TableSize = Asl!TableSize /\ AslP!NULL = Asl!NULL
  /\ AslP!Add = Asl!Add
  /\ \A d : AslP!From(d) = Asl!From(d)
  /\ AslP!ASL = Asl!ASL /\ AslP!ASL' = Asl!ASL'
  /\ \A a : AslP!findSemd(a) = Asl!findSemd(a)
  /\ \A a : AslP!Before(a) = Asl!Before(a)
<1>1. AslP!NULL = Asl!NULL /\ AslP!TableSize = Asl!TableSize /\ AslP!Add = Asl!Add
  BY AslOps DEF AslP!TableSize, Asl!TableSize, AslP!NULL, Asl!NULL, AslP!Add,
     Asl!Add
<1>2. \A d : AslP!From(d) = Asl!From(d)
  BY <1>1, AslWalk, Zenon DEF AslP!From, Asl!From
<1>3. AslP!ASL = Asl!ASL
  BY <1>2, Zenon DEF AslP!ASL, Asl!ASL
<1>4. AslP!ASL' = Asl!ASL'
  BY <1>1, AslWalk, Zenon DEF AslP!ASL, Asl!ASL, AslP!From, Asl!From
<1>5. \A a : AslP!findSemd(a) = Asl!findSemd(a)
  BY <1>1, <1>3, AslOps, Zenon DEF AslP!findSemd, Asl!findSemd, AslP!SelectInSeq,
     Asl!SelectInSeq
<1>6. \A a : AslP!Before(a) = Asl!Before(a)
  BY <1>1, <1>3, AslOps, Zenon DEF AslP!Before, Asl!Before, AslP!SelectInSeq,
     Asl!SelectInSeq
<1>. QED  BY <1>1, <1>2, <1>3, <1>4, <1>5, <1>6, Zenon DEF AslP!Semd, Asl!Semd

(* The functions of asl.c are the same ones. *)
LEMMA AslSpecs == Asl!Spec => AslP!Spec
<1>1. Asl!Init => AslP!Init
  BY AslLists, AslQueueOps, Zenon DEF Asl!Init, AslP!Init
<1>2. ASSUME NEW d, Asl!freeSemd(d)
      PROVE  AslP!freeSemd(d)
  BY <1>2, AslLists, AslOps, Zenon DEF Asl!freeSemd, AslP!freeSemd
<1>3. ASSUME NEW d, NEW q, Asl!ReleaseIfEmpty(d, q)
      PROVE  AslP!ReleaseIfEmpty(d, q)
  BY <1>2, <1>3, AslQueueOps, Zenon DEF Asl!ReleaseIfEmpty, AslP!ReleaseIfEmpty,
     Asl!list, AslP!list
<1>4. ASSUME NEW a, NEW p, Asl!allocFree(a, p)
      PROVE  AslP!allocFree(a, p)
  BY <1>4, AslLists, AslQueueOps, Zenon DEF Asl!allocFree, AslP!allocFree
<1>5. ASSUME NEW a, NEW p, Asl!insertBlocked(a, p)
      PROVE  AslP!insertBlocked(a, p)
  BY <1>4, <1>5, AslLists, AslQueueOps, AslOps, Zenon DEF Asl!insertBlocked,
     AslP!insertBlocked, Asl!list, AslP!list
<1>6. ASSUME NEW a, Asl!removeBlocked(a)
      PROVE  AslP!removeBlocked(a)
  BY <1>3, <1>6, AslLists, AslQueueOps, Zenon DEF Asl!removeBlocked,
     AslP!removeBlocked, Asl!list, AslP!list
<1>7. ASSUME NEW p, Asl!outBlocked(p)
      PROVE  AslP!outBlocked(p)
  BY <1>3, <1>7, AslLists, AslQueueOps, AslOps, Zenon DEF Asl!outBlocked,
     AslP!outBlocked, Asl!list, AslP!list
<1>8. ASSUME NEW a, Asl!headBlocked(a)
      PROVE  AslP!headBlocked(a)
  BY <1>8, AslLists, AslQueueOps, Zenon DEF Asl!headBlocked, AslP!headBlocked,
     Asl!list, AslP!list
<1>9. ASSUME NEW p, Asl!Reset(p)
      PROVE  AslP!Reset(p)
  BY <1>9, AslLists, AslOps, Zenon DEF Asl!Reset, AslP!Reset, Asl!list, AslP!list
<1>10. [Asl!Next]_Asl!vars => [AslP!Next]_AslP!vars
  BY <1>5, <1>6, <1>7, <1>8, <1>9, AslLists, Zenon DEF Asl!Next, AslP!Next,
     Asl!vars, AslP!vars
<1>. QED  BY <1>1, <1>10, PTL DEF Asl!Spec, AslP!Spec

(* So are those of BlockedQ. *)
LEMMA QueuesSpecs == AslP!ImplementsBlockedQ => Asl!ImplementsBlockedQ
<1> DEFINE waiting(on, adds, none, adr, qs) ==
             [a \in adds |-> LET active == {d \in on : adr[d] = a} IN
                             IF active = {} THEN none ELSE qs[CHOOSE d \in active : TRUE]]
<1>1. /\ AslP!ToSet(AslP!ASL) = Asl!ToSet(Asl!ASL)
      /\ AslP!ToSet(AslP!ASL') = Asl!ToSet(Asl!ASL')
      /\ AslP!Add = Asl!Add /\ AslP!mkEmptyProcQ = Asl!mkEmptyProcQ
  BY AslLists, AslOps, AslQueueOps, Zenon
<1>2. /\ AslP!BlockedOn = waiting(AslP!ToSet(AslP!ASL), AslP!Add, AslP!mkEmptyProcQ,
                                s_semAdd, s_procQ)
      /\ AslP!BlockedOn' = waiting(AslP!ToSet(AslP!ASL'), AslP!Add,
                                 AslP!mkEmptyProcQ, s_semAdd', s_procQ')
  BY DEF AslP!BlockedOn
<1>3. /\ Asl!BlockedOn = waiting(Asl!ToSet(Asl!ASL), Asl!Add, Asl!mkEmptyProcQ,
                                s_semAdd, s_procQ)
      /\ Asl!BlockedOn' = waiting(Asl!ToSet(Asl!ASL'), Asl!Add, Asl!mkEmptyProcQ,
                                 s_semAdd', s_procQ')
  BY DEF Asl!BlockedOn
<1> HIDE DEF waiting
<1>4. AslP!BlockedOn = Asl!BlockedOn
  BY <1>1, <1>2, <1>3, Zenon
<1>5. AslP!BlockedOn' = Asl!BlockedOn'
  BY <1>1, <1>2, <1>3, Zenon
<1>6. AslP!Queues!Init => Asl!Queues!Init
  BY <1>4, AslLists, AslQueuesOps, Zenon DEF AslP!Queues!Init, Asl!Queues!Init
<1>7. \A p : AslP!Queues!Queued(p) <=> Asl!Queues!Queued(p)
  BY <1>4, AslLists, AslQueuesOps, Zenon DEF AslP!Queues!Queued, Asl!Queues!Queued
<1>8. \A a : AslP!Queues!NoRoom(a) <=> Asl!Queues!NoRoom(a)
  BY <1>4, AslLists, AslQueuesOps, Zenon DEF AslP!Queues!NoRoom, Asl!Queues!NoRoom
<1>9. ASSUME NEW a, NEW p, AslP!Queues!Block(a, p)
      PROVE  Asl!Queues!Block(a, p)
  BY <1>4, <1>5, <1>7, <1>8, <1>9, AslQueuesOps, Zenon DEF AslP!Queues!Block,
     Asl!Queues!Block
<1>10. ASSUME NEW a, AslP!Queues!Wake(a)
      PROVE  Asl!Queues!Wake(a)
  BY <1>4, <1>5, <1>10, AslLists, AslQueuesOps, Zenon DEF AslP!Queues!Wake,
     Asl!Queues!Wake
<1>11. ASSUME NEW a, AslP!Queues!Oldest(a)
      PROVE  Asl!Queues!Oldest(a)
  BY <1>4, <1>5, <1>11, AslLists, AslQueuesOps, Zenon DEF AslP!Queues!Oldest,
     Asl!Queues!Oldest
<1>12. ASSUME NEW p, AslP!Queues!Withdraw(p)
      PROVE  Asl!Queues!Withdraw(p)
  BY <1>4, <1>5, <1>7, <1>12, AslLists, AslQueuesOps,
     Zenon DEF AslP!Queues!Withdraw, Asl!Queues!Withdraw
<1>13. ASSUME NEW p, AslP!Queues!Reset(p)
      PROVE  Asl!Queues!Reset(p)
  BY <1>4, <1>5, <1>7, <1>13, AslLists, Zenon DEF AslP!Queues!Reset,
     Asl!Queues!Reset
<1>14. [AslP!Queues!Next]_AslP!Queues!vars => [Asl!Queues!Next]_Asl!Queues!vars
  <2>1. UNCHANGED AslP!Queues!vars => UNCHANGED Asl!Queues!vars
    BY <1>4, <1>5, Zenon DEF AslP!Queues!vars, Asl!Queues!vars
  <2>. QED  BY <2>1, <1>9, <1>10, <1>11, <1>12, <1>13, AslLists,
               Zenon DEF AslP!Queues!Next, Asl!Queues!Next
<1>. QED  BY <1>6, <1>14, PTL DEF AslP!ImplementsBlockedQ, Asl!ImplementsBlockedQ,
             AslP!Queues!Spec, Asl!Queues!Spec

LEMMA AslTable == AslP!Table
<1>1. AslP!IsFiniteSet(AslPcb) <=> IsFiniteSet(AslPcb)
  BY Zenon DEF AslP!IsFiniteSet, IsFiniteSet
<1>. QED  BY <1>1, AslPcbAssumption DEF AslP!Table, AslP!NULL, NULL

(***************************************************************************)
(* The ASL is sorted, which findSemd relies on, and no descriptor gets     *)
(* lost: each is on one of the two lists, those in use with a process      *)
(* waiting.                                                                *)
(***************************************************************************)
THEOREM Phase1AslSorted == Phase1Spec => []AslSorted
<1>1. AslP!AslSorted => AslSorted
  BY AslLists, AslOps, AslQueueOps, Zenon DEF AslP!AslSorted, AslSorted,
     Asl!AslSorted
<1>2. AslP!Spec => []AslP!AslSorted
  BY AslTable, AslP!AslStaysSorted
<1>. QED  BY <1>1, <1>2, AslSpecs, Projections, PTL

(***************************************************************************)
(* The functions of asl.c compute what BlockedQ says, returned value       *)
(* included.                                                               *)
(***************************************************************************)
THEOREM Phase1ImplementsBlockedQ == Phase1Spec => ImplementsBlockedQ
<1>1. AslP!Spec => AslP!ImplementsBlockedQ
  BY AslTable, AslP!AslImplementsQueues
<1>. QED  BY <1>1, AslSpecs, QueuesSpecs, Projections, PTL DEF ImplementsBlockedQ
==============================================================================
