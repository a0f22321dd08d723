------------------------------ MODULE AslProofs ------------------------------
(***************************************************************************)
(* The descriptors and pointers of asl.c implement BlockedQ, for any       *)
(* finite table and any range of addresses.  The proof says where in the   *)
(* list findSemd, allocFree and freeSemd stop, which sequences the links   *)
(* form afterwards, and what queues these stand for.                       *)
(***************************************************************************)
EXTENDS Asl, ProcQProofs

SemdOrNull == Semd \cup {NULL}

Table == IsFiniteSet(Pcb) /\ Pcb # {} /\ NULL \notin Pcb /\ MaxAdd \in Nat

LEMMA TableFacts ==
  ASSUME Table
  PROVE  /\ TableSize \in Nat \ {0} /\ 1 \in Semd /\ 0 \notin Semd
         /\ IsFiniteSet(Semd) /\ Cardinality(Semd) = TableSize
<1>1. TableSize \in Nat \ {0}
  BY FS_CardinalityType, FS_EmptySet DEF Table, TableSize
<1> HIDE DEF TableSize
<1>2. IsFiniteSet(1 .. TableSize) /\ Cardinality(1 .. TableSize) = TableSize
  BY <1>1, FS_Interval
<1>. QED  BY <1>1, <1>2 DEF Semd

(***************************************************************************)
(* The sequence with d put in at place k.                                  *)
(***************************************************************************)
Inserted(s, k, d) ==
  [i \in 1 .. Len(s) + 1 |-> IF i < k THEN s[i] ELSE IF i = k THEN d ELSE s[i-1]]

LEMMA InsertedAt ==
  ASSUME NEW S, NEW s \in Seq(S), NEW k \in 1 .. Len(s) + 1, NEW d \in S
  PROVE  /\ Inserted(s, k, d) \in Seq(S)
         /\ Len(Inserted(s, k, d)) = Len(s) + 1
         /\ \A i \in 1 .. Len(s) + 1 :
              Inserted(s, k, d)[i] = IF i < k THEN s[i] ELSE IF i = k THEN d ELSE s[i-1]
         /\ ToSet(Inserted(s, k, d)) = ToSet(s) \cup {d}
<1> DEFINE n == Len(s)  t == Inserted(s, k, d)
<1>1. n \in Nat /\ \A i \in 1 .. n : s[i] \in S
  OBVIOUS
<1>2. /\ \A i \in 1 .. n + 1 : t[i] = IF i < k THEN s[i] ELSE IF i = k THEN d ELSE s[i-1]
      /\ DOMAIN t = 1 .. n + 1 /\ t = [i \in 1 .. n + 1 |-> t[i]]
  BY DEF Inserted
<1> HIDE DEF n, t
<1>3. k \in 1 .. n + 1
  BY DEF n
<1>4. \A i \in 1 .. n + 1 : /\ i < k => i \in 1 .. n
                            /\ ~(i < k) /\ i # k => i - 1 \in 1 .. n
  BY <1>1, <1>3
<1>5. \A i \in 1 .. n + 1 : t[i] \in S
  BY <1>1, <1>2, <1>4
<1>6. t \in [1 .. n + 1 -> S]
  BY <1>2, <1>5
<1>7. t \in Seq(S) /\ Len(t) = n + 1
  BY <1>1, <1>6
<1>8. /\ \A x : x \in ToSet(t) <=> \E i \in 1 .. n + 1 : t[i] = x
      /\ \A x : x \in ToSet(s) <=> \E i \in 1 .. n : s[i] = x
  BY <1>7, SeqFacts DEF n
<1>9. ToSet(t) \subseteq ToSet(s) \cup {d}
  <2>1. \A i \in 1 .. n + 1 : t[i] = d \/ \E j \in 1 .. n : s[j] = t[i]
    BY <1>2, <1>4
  <2>. QED  BY <1>8, <2>1
<1>10. d \in ToSet(t)
  BY <1>2, <1>3, <1>8
<1>11. ASSUME NEW j \in 1 .. n
       PROVE  s[j] \in ToSet(t)
  <2>1. CASE j < k
    <3>1. j \in 1 .. n + 1 /\ t[j] = s[j]
      BY <1>1, <1>2, <2>1
    <3>. QED  BY <1>8, <3>1
  <2>2. CASE ~(j < k)
    <3>1. j + 1 \in 1 .. n + 1 /\ ~(j + 1 < k) /\ j + 1 # k /\ (j + 1) - 1 = j
      BY <1>1, <1>3, <2>2
    <3>2. t[j+1] = s[j]
      BY <1>2, <3>1
    <3>. QED  BY <1>8, <3>1, <3>2
  <2>. QED  BY <2>1, <2>2
<1>12. ToSet(t) = ToSet(s) \cup {d}
  BY <1>8, <1>9, <1>10, <1>11
<1>. QED  BY <1>2, <1>7, <1>12 DEF n, t

------------------------------------------------------------------------------
(***************************************************************************)
(* The sequence s is threaded through nx as a list from h that ends.       *)
(***************************************************************************)
IsList(h, s, nx) ==
  /\ s \in Seq(Semd)
  /\ \A i, j \in 1 .. Len(s) : s[i] = s[j] => i = j
  /\ h = IF s = <<>> THEN NULL ELSE s[1]
  /\ \A i \in 1 .. Len(s) : nx[s[i]] = IF i = Len(s) THEN NULL ELSE s[i+1]

LEMMA ListFound ==
  ASSUME Table, NEW nx \in [Semd -> SemdOrNull], NEW h, NEW s, IsList(h, s, nx)
  PROVE  Walk(nx, h, NULL) = s
<1> DEFINE n == Len(s)
<1>1. /\ s \in Seq(Semd) /\ n \in Nat /\ DOMAIN nx = Semd
      /\ \A i, j \in 1 .. n : s[i] = s[j] => i = j
      /\ \A i \in 1 .. n : s[i] \in Semd
      /\ s = <<>> <=> n = 0
      /\ h = IF s = <<>> THEN NULL ELSE s[1]
      /\ \A i \in 1 .. n : nx[s[i]] = IF i = n THEN NULL ELSE s[i+1]
  BY DEF IsList
<1> HIDE DEF n
<1>2. IsFiniteSet(DOMAIN nx) /\ 0 \notin DOMAIN nx /\ NULL = 0
  BY <1>1, TableFacts DEF NULL
<1>3. \A i \in 1 .. n - 1 : s[i] # NULL /\ nx[s[i]] = s[i+1]
  <2>1. \A i \in 1 .. n - 1 : i \in 1 .. n /\ i # n
    BY <1>1
  <2>. QED  BY <1>1, <1>2, <2>1
<1>4. s # <<>> => nx[s[n]] = NULL
  <2>1. n # 0 => n \in 1 .. n
    BY <1>1
  <2>. QED  BY <1>1, <2>1
<1>5. Threaded(nx, h, NULL, s)
  BY <1>1, <1>2, <1>3, <1>4 DEF n, Threaded
<1>. QED  BY <1>2, <1>5, WalkLemma

LEMMA ListFrame ==
  ASSUME NEW h, NEW s, NEW nx, NEW nx2, IsList(h, s, nx),
         \A x \in ToSet(s) : nx2[x] = nx[x]
  PROVE  IsList(h, s, nx2)
<1>1. s \in Seq(Semd) /\ \A i \in 1 .. Len(s) : s[i] \in ToSet(s)
  BY DEF IsList, ToSet
<1>. QED  BY <1>1 DEF IsList

(***************************************************************************)
(* d goes in at place k of a list, behind the entry at k - 1.              *)
(***************************************************************************)
PutIn(h, s, nx, k, d, h2, nx2) ==
  /\ IsList(h, s, nx)
  /\ k \in 1 .. Len(s) + 1 /\ d \in Semd /\ d \notin ToSet(s)
  /\ h2 = IF k = 1 THEN d ELSE h
  /\ nx2[d] = IF k = 1 THEN h ELSE nx[s[k-1]]
  /\ k # 1 => nx2[s[k-1]] = d
  /\ \A x \in ToSet(s) : (k # 1 => x # s[k-1]) => nx2[x] = nx[x]

LEMMA ListInsert ==
  ASSUME Table, NEW h, NEW s, NEW nx, NEW k, NEW d, NEW h2, NEW nx2,
         PutIn(h, s, nx, k, d, h2, nx2)
  PROVE  IsList(h2, Inserted(s, k, d), nx2)
<1> DEFINE n == Len(s)  t == Inserted(s, k, d)
<1>1. /\ s \in Seq(Semd) /\ n \in Nat
      /\ \A i, j \in 1 .. n : s[i] = s[j] => i = j
      /\ h = IF s = <<>> THEN NULL ELSE s[1]
      /\ \A i \in 1 .. n : nx[s[i]] = IF i = n THEN NULL ELSE s[i+1]
      /\ k \in 1 .. n + 1 /\ d \in Semd /\ d \notin ToSet(s)
      /\ h2 = IF k = 1 THEN d ELSE h
      /\ nx2[d] = IF k = 1 THEN h ELSE nx[s[k-1]]
      /\ k # 1 => nx2[s[k-1]] = d
      /\ \A x \in ToSet(s) : (k # 1 => x # s[k-1]) => nx2[x] = nx[x]
      /\ s = <<>> <=> n = 0
  BY DEF PutIn, IsList
<1>2. \A i \in 1 .. n : s[i] \in ToSet(s) /\ s[i] # d
  <2>1. \A i \in 1 .. n : s[i] \in ToSet(s)
    BY <1>1, SeqFacts
  <2>. QED  BY <1>1, <2>1
<1>3. /\ t \in Seq(Semd) /\ Len(t) = n + 1
      /\ \A i \in 1 .. n + 1 : t[i] = IF i < k THEN s[i] ELSE IF i = k THEN d ELSE s[i-1]
  BY <1>1, InsertedAt
<1> HIDE DEF n, t
<1>4. \A i \in 1 .. n + 1 : /\ i < k => i \in 1 .. n
                            /\ ~(i < k) /\ i # k => i - 1 \in 1 .. n
  BY <1>1
<1>5. \A i, j \in 1 .. n + 1 : t[i] = t[j] => i = j
  <2> SUFFICES ASSUME NEW i \in 1 .. n + 1, NEW j \in 1 .. n + 1, t[i] = t[j], i < j
               PROVE  FALSE
    OBVIOUS
  <2>1. CASE j < k
    <3>1. i < k /\ i # j
      BY <1>1, <2>1
    <3>2. t[i] = s[i] /\ t[j] = s[j] /\ i \in 1 .. n /\ j \in 1 .. n
      BY <1>3, <1>4, <2>1, <3>1
    <3>3. s[i] = s[j] => i = j
      BY <1>1, <3>2
    <3>. QED  BY <3>1, <3>2, <3>3
  <2>2. CASE j = k
    BY <1>2, <1>3, <1>4, <2>2
  <2>3. CASE k < j
    <3>1. ~(j < k) /\ j # k /\ t[j] = s[j-1] /\ j - 1 \in 1 .. n
      BY <1>1, <1>3, <1>4, <2>3
    <3>2. CASE i < k
      <4>1. s[i] = s[j-1] /\ i # j - 1
        BY <1>1, <1>3, <2>3, <3>1, <3>2
      <4>. QED  BY <1>1, <1>4, <3>1, <3>2, <4>1
    <3>3. CASE i = k
      BY <1>2, <1>3, <3>1, <3>3
    <3>4. CASE k < i
      <4>1. ~(i < k) /\ i # k /\ t[i] = s[i-1] /\ i - 1 \in 1 .. n /\ i - 1 # j - 1
        BY <1>1, <1>3, <1>4, <3>4
      <4>. QED  BY <1>1, <3>1, <4>1
    <3>. QED  BY <1>1, <3>2, <3>3, <3>4
  <2>. QED  BY <1>1, <2>1, <2>2, <2>3
<1>6. h2 = IF t = <<>> THEN NULL ELSE t[1]
  <2>1. t # <<>> /\ 1 \in 1 .. n + 1
    BY <1>1, <1>3
  <2>2. CASE k = 1
    BY <1>1, <1>3, <2>1, <2>2
  <2>3. CASE k # 1
    <3>1. 1 < k /\ n # 0
      BY <1>1, <2>3
    <3>. QED  BY <1>1, <1>3, <2>1, <2>3, <3>1
  <2>. QED  BY <2>2, <2>3
<1>7. ASSUME NEW i \in 1 .. n + 1
      PROVE  nx2[t[i]] = IF i = n + 1 THEN NULL ELSE t[i+1]
  <2>1. CASE i < k - 1
    <3>1. /\ i \in 1 .. n /\ i < k /\ i + 1 \in 1 .. n + 1 /\ i + 1 < k /\ i # n /\ i # n + 1
          /\ k # 1 /\ k - 1 \in 1 .. n /\ i # k - 1
      BY <1>1, <2>1
    <3>2. s[i] # s[k-1]
      BY <1>1, <3>1
    <3>3. nx2[s[i]] = nx[s[i]]
      BY <1>1, <1>2, <3>1, <3>2
    <3>. QED  BY <1>1, <1>3, <3>1, <3>3
  <2>2. CASE i = k - 1
    <3>1. i < k /\ i + 1 = k /\ k # 1 /\ i # n + 1 /\ k \in 1 .. n + 1 /\ ~(k < k)
      BY <1>1, <2>2
    <3>. QED  BY <1>1, <1>3, <2>2, <3>1
  <2>3. CASE i = k
    <3>1. t[i] = d
      BY <1>1, <1>3, <2>3
    <3>2. CASE k = n + 1
      <4>1. k # 1 => k - 1 = n /\ n \in 1 .. n
        BY <1>1, <3>2
      <4>2. k = 1 => n = 0
        BY <1>1, <3>2
      <4>. QED  BY <1>1, <2>3, <3>1, <3>2, <4>1, <4>2
    <3>3. CASE k # n + 1
      <4>1. /\ i + 1 \in 1 .. n + 1 /\ ~(i + 1 < k) /\ i + 1 # k /\ (i + 1) - 1 = k
            /\ k \in 1 .. n /\ n # 0
            /\ k # 1 => k - 1 \in 1 .. n /\ k - 1 # n /\ (k - 1) + 1 = k
        BY <1>1, <2>3, <3>3
      <4>2. t[i+1] = s[k]
        BY <1>3, <4>1
      <4>. QED  BY <1>1, <2>3, <3>1, <3>3, <4>1, <4>2
    <3>. QED  BY <3>2, <3>3
  <2>4. CASE k < i
    <3>1. /\ ~(i < k) /\ i # k /\ i - 1 \in 1 .. n
          /\ i # n + 1 => i + 1 \in 1 .. n + 1 /\ ~(i + 1 < k) /\ i + 1 # k
          /\ (i + 1) - 1 = i /\ (i - 1) + 1 = i /\ (i - 1 = n <=> i = n + 1)
          /\ k # 1 => k - 1 \in 1 .. n /\ k - 1 # i - 1
      <4>1. n \in Nat /\ k \in 1 .. n + 1
        BY <1>1
      <4>2. ~(i < k) /\ i # k /\ i - 1 \in 1 .. n
        BY <2>4, <4>1
      <4>3. i # n + 1 => i + 1 \in 1 .. n + 1 /\ ~(i + 1 < k) /\ i + 1 # k
        BY <2>4, <4>1
      <4>4. (i + 1) - 1 = i /\ (i - 1) + 1 = i /\ (i - 1 = n <=> i = n + 1)
        BY <4>1
      <4>5. k # 1 => k - 1 \in 1 .. n /\ k - 1 # i - 1
        BY <2>4, <4>1
      <4>. QED  BY <4>2, <4>3, <4>4, <4>5
    <3>2. t[i] = s[i-1] /\ (i # n + 1 => t[i+1] = s[i])
      BY <1>3, <3>1
    <3>3. k # 1 => s[i-1] # s[k-1]
      BY <1>1, <3>1
    <3>4. nx2[s[i-1]] = nx[s[i-1]]
      BY <1>1, <1>2, <3>1, <3>3
    <3>5. nx[s[i-1]] = IF i - 1 = n THEN NULL ELSE s[(i-1)+1]
      BY <1>1, <3>1
    <3>. QED  BY <3>1, <3>2, <3>4, <3>5
  <2>. QED  BY <1>1, <2>1, <2>2, <2>3, <2>4
<1>. QED  BY <1>3, <1>5, <1>6, <1>7 DEF IsList, t

(***************************************************************************)
(* The entry at place k goes out of a list.                                *)
(***************************************************************************)
TakenOut(h, s, nx, k, h2, nx2) ==
  /\ IsList(h, s, nx)
  /\ k \in 1 .. Len(s)
  /\ h2 = IF k = 1 THEN nx[s[1]] ELSE h
  /\ k # 1 => nx2[s[k-1]] = nx[s[k]]
  /\ \A x \in ToSet(s) : x # s[k] /\ (k # 1 => x # s[k-1]) => nx2[x] = nx[x]

LEMMA ListDelete ==
  ASSUME Table, NEW h, NEW s, NEW nx, NEW k, NEW h2, NEW nx2,
         TakenOut(h, s, nx, k, h2, nx2)
  PROVE  IsList(h2, Without(s, s[k]), nx2)
<1> DEFINE n == Len(s)  w == Without(s, s[k])
<1>1. /\ s \in Seq(Semd) /\ n \in Nat
      /\ \A i, j \in 1 .. n : s[i] = s[j] => i = j
      /\ h = IF s = <<>> THEN NULL ELSE s[1]
      /\ \A i \in 1 .. n : nx[s[i]] = IF i = n THEN NULL ELSE s[i+1]
      /\ k \in 1 .. n
      /\ h2 = IF k = 1 THEN nx[s[1]] ELSE h
      /\ k # 1 => nx2[s[k-1]] = nx[s[k]]
      /\ \A x \in ToSet(s) : x # s[k] /\ (k # 1 => x # s[k-1]) => nx2[x] = nx[x]
      /\ s = <<>> <=> n = 0
  BY DEF TakenOut, IsList
<1>2. \A i \in 1 .. n : s[i] \in ToSet(s)
  BY <1>1, SeqFacts
<1>3. /\ w \in Seq(Semd) /\ Len(w) = n - 1
      /\ \A i \in 1 .. n - 1 : w[i] = IF i < k THEN s[i] ELSE s[i+1]
      /\ IsInjective(w)
  <2>1. IsInjective(s)
    BY <1>1, SeqFacts
  <2>. QED  BY <1>1, <2>1, WithoutAt, WithoutLemma
<1>4. \A i, j \in 1 .. Len(w) : w[i] = w[j] => i = j
  BY <1>3, SeqFacts
<1> HIDE DEF n, w
<1>5. h2 = IF w = <<>> THEN NULL ELSE w[1]
  <2>1. w = <<>> <=> n = 1
    <3>1. w = <<>> <=> Len(w) = 0
      <4>1. w \in Seq(Semd)
        BY <1>3
      <4>. QED  BY <4>1
    <3>. QED  BY <1>1, <1>3, <3>1
  <2>2. CASE n = 1
    <3>1. k = 1 /\ 1 \in 1 .. n
      BY <1>1, <2>2
    <3>. QED  BY <1>1, <2>1, <2>2, <3>1
  <2>3. CASE n # 1
    <3>1. 1 \in 1 .. n - 1 /\ 1 \in 1 .. n /\ (k # 1 => 1 < k) /\ n # 0
      BY <1>1, <2>3
    <3>2. w[1] = IF k = 1 THEN s[2] ELSE s[1]
      BY <1>3, <3>1
    <3>. QED  BY <1>1, <2>1, <2>3, <3>1, <3>2
  <2>. QED  BY <2>2, <2>3
<1>6. ASSUME NEW i \in 1 .. n - 1
      PROVE  nx2[w[i]] = IF i = n - 1 THEN NULL ELSE w[i+1]
  <2>1. CASE i < k - 1
    <3>1. /\ i \in 1 .. n /\ i < k /\ i + 1 \in 1 .. n - 1 /\ i + 1 < k
          /\ i # n /\ i # n - 1 /\ i # k /\ k # 1 /\ k - 1 \in 1 .. n /\ i # k - 1
      <4>1. n \in Nat /\ k \in 1 .. n
        BY <1>1
      <4>2. i \in 1 .. n /\ i < k /\ i + 1 \in 1 .. n - 1 /\ i + 1 < k
        BY <2>1, <4>1
      <4>3. i # n /\ i # n - 1 /\ i # k /\ k # 1 /\ k - 1 \in 1 .. n /\ i # k - 1
        BY <2>1, <4>1
      <4>. QED  BY <4>2, <4>3
    <3>2. s[i] # s[k] /\ s[i] # s[k-1]
      BY <1>1, <3>1
    <3>3. nx2[s[i]] = nx[s[i]]
      BY <1>1, <1>2, <3>1, <3>2
    <3>. QED  BY <1>1, <1>3, <3>1, <3>3
  <2>2. CASE i = k - 1
    <3>1. /\ i < k /\ k # 1 /\ i + 1 = k /\ (i = n - 1 <=> k = n) /\ ~(k < k)
          /\ k # n => k \in 1 .. n - 1
      BY <1>1, <2>2
    <3>2. w[i] = s[k-1] /\ (k # n => w[k] = s[k+1])
      BY <1>3, <2>2, <3>1
    <3>. QED  BY <1>1, <3>1, <3>2
  <2>3. CASE i > k - 1
    <3>1. /\ ~(i < k) /\ i + 1 \in 1 .. n /\ i + 1 # k /\ (i + 1 = n <=> i = n - 1)
          /\ i # n - 1 => i + 1 \in 1 .. n - 1 /\ ~(i + 1 < k)
          /\ k # 1 => k - 1 \in 1 .. n /\ k - 1 # i + 1
      BY <1>1, <2>3
    <3>2. w[i] = s[i+1] /\ (i # n - 1 => w[i+1] = s[(i+1)+1])
      BY <1>3, <3>1
    <3>3. s[i+1] # s[k] /\ (k # 1 => s[i+1] # s[k-1])
      BY <1>1, <3>1
    <3>4. nx2[s[i+1]] = nx[s[i+1]]
      BY <1>1, <1>2, <3>1, <3>3
    <3>5. nx[s[i+1]] = IF i + 1 = n THEN NULL ELSE s[(i+1)+1]
      BY <1>1, <3>1
    <3>. QED  BY <3>1, <3>2, <3>4, <3>5
  <2>. QED  BY <1>1, <2>1, <2>2, <2>3
<1>. QED  BY <1>3, <1>4, <1>5, <1>6 DEF IsList, w

------------------------------------------------------------------------------
(***************************************************************************)
(* The inductive invariant: the links form the ASL and the list of free    *)
(* descriptors, which share the table between them; the addresses on the   *)
(* ASL ascend; and each queue there holds pcbs that say they are in it, so *)
(* no two queues have a pcb in common.                                     *)
(***************************************************************************)
Free == From(semdFree_h)

TypesOK ==
  /\ semd_h \in SemdOrNull /\ semdFree_h \in SemdOrNull
  /\ s_next \in [Semd -> SemdOrNull] /\ s_semAdd \in [Semd -> 0 .. MaxAdd]
  /\ s_procQ \in [Semd -> Seq(Pcb)]  /\ p_semAdd \in [Pcb -> 0 .. MaxAdd]

Lists(A, F, h, f, nx) ==
  /\ IsList(h, A, nx) /\ IsList(f, F, nx)
  /\ ToSet(A) \cap ToSet(F) = {} /\ ToSet(A) \cup ToSet(F) = Semd

Ascending(A, add) ==
  \A i, j \in 1 .. Len(A) : i < j => add[A[i]] < add[A[j]]

Waiting(A, add, procQ, semAdd) ==
  \A d \in ToSet(A) :
    /\ add[d] \in Add /\ procQ[d] # <<>> /\ IsInjective(procQ[d])
    /\ \A p \in ToSet(procQ[d]) : semAdd[p] = add[d]

AslInv ==
  /\ TypesOK
  /\ Lists(ASL, Free, semd_h, semdFree_h, s_next)
  /\ Ascending(ASL, s_semAdd)
  /\ Waiting(ASL, s_semAdd, s_procQ, p_semAdd)

\* What a step must show, by the sequences its links form.
LEMMA ListsStep ==
  ASSUME Table, TypesOK', NEW A, NEW F,
         Lists(A, F, semd_h', semdFree_h', s_next'),
         Ascending(A, s_semAdd'), Waiting(A, s_semAdd', s_procQ', p_semAdd')
  PROVE  AslInv' /\ ASL' = A /\ Free' = F
<1>1. s_next' \in [Semd -> SemdOrNull]
  BY DEF TypesOK
<1>2. IsList(semd_h', A, s_next') /\ IsList(semdFree_h', F, s_next')
  BY DEF Lists
<1>3. Walk(s_next', semd_h', NULL) = A /\ Walk(s_next', semdFree_h', NULL) = F
  BY <1>1, <1>2, ListFound
<1>4. ASL' = A /\ Free' = F
  BY <1>3 DEF ASL, Free, From
<1>. QED  BY <1>4 DEF AslInv

(***************************************************************************)
(* The ASL by positions.                                                   *)
(***************************************************************************)
LEMMA AslFacts ==
  ASSUME Table, AslInv, NEW A, A = ASL
  PROVE  /\ A \in Seq(Semd) /\ Len(A) \in Nat /\ IsInjective(A)
         /\ A = <<>> <=> Len(A) = 0
         /\ A = <<>> <=> semd_h = NULL
         /\ A # <<>> => semd_h = A[1]
         /\ \A i, j \in 1 .. Len(A) : A[i] = A[j] => i = j
         /\ \A i \in 1 .. Len(A) : A[i] \in Semd /\ A[i] # NULL /\ A[i] \in ToSet(A)
         /\ \A i \in 1 .. Len(A) : s_next[A[i]] = IF i = Len(A) THEN NULL ELSE A[i+1]
         /\ \A d \in ToSet(A) : \E i \in 1 .. Len(A) : A[i] = d
         /\ ToSet(A) \subseteq Semd
         /\ \A i, j \in 1 .. Len(A) : i < j => s_semAdd[A[i]] < s_semAdd[A[j]]
         /\ \A i \in 1 .. Len(A) : s_semAdd[A[i]] \in Add
<1>1. IsList(semd_h, A, s_next)
  BY DEF AslInv, Lists
<1>2. /\ A \in Seq(Semd) /\ Len(A) \in Nat
      /\ \A i, j \in 1 .. Len(A) : A[i] = A[j] => i = j
      /\ semd_h = IF A = <<>> THEN NULL ELSE A[1]
      /\ \A i \in 1 .. Len(A) : s_next[A[i]] = IF i = Len(A) THEN NULL ELSE A[i+1]
  BY <1>1 DEF IsList
<1>3. /\ IsInjective(A) /\ ToSet(A) \subseteq Semd
      /\ \A x : x \in ToSet(A) <=> \E i \in 1 .. Len(A) : A[i] = x
  BY <1>2, SeqFacts
<1>4. \A i \in 1 .. Len(A) : A[i] \in Semd /\ A[i] # NULL /\ A[i] \in ToSet(A)
  BY <1>2, <1>3, TableFacts DEF NULL
<1>5. (A = <<>> <=> Len(A) = 0) /\ (A # <<>> => 1 \in 1 .. Len(A))
  BY <1>2
<1>6. (A = <<>> <=> semd_h = NULL) /\ (A # <<>> => semd_h = A[1])
  BY <1>2, <1>4, <1>5
<1>7. /\ \A i, j \in 1 .. Len(A) : i < j => s_semAdd[A[i]] < s_semAdd[A[j]]
      /\ \A i \in 1 .. Len(A) : s_semAdd[A[i]] \in Add
  BY <1>4 DEF AslInv, Ascending, Waiting
<1>. QED  BY <1>2, <1>3, <1>4, <1>5, <1>6, <1>7

(***************************************************************************)
(* The smallest position that passes a test, where SelectInSeq stops.      *)
(***************************************************************************)
LEMMA FirstLemma ==
  ASSUME NEW I \in SUBSET Nat, I # {}
  PROVE  Min(I) \in I /\ \A j \in I : Min(I) <= j
BY LeastLemma, Zenon DEF Min

(***************************************************************************)
(* findSemd finds the descriptor of a, although it stops at the first      *)
(* higher address.                                                         *)
(***************************************************************************)
LEMMA FindFacts ==
  ASSUME Table, AslInv, NEW a \in 0 .. MaxAdd
  PROVE  \/ /\ findSemd(a) = NULL
            /\ \A d \in ToSet(ASL) : s_semAdd[d] # a
         \/ /\ findSemd(a) # NULL /\ findSemd(a) \in ToSet(ASL) /\ a \in Add
            /\ findSemd(a) \in Semd
            /\ s_semAdd[findSemd(a)] = a
            /\ \A d \in ToSet(ASL) : s_semAdd[d] = a => d = findSemd(a)
<1> DEFINE A == ASL  n == Len(A)
           I == {i \in 1 .. n : s_semAdd[A[i]] >= a \/ s_next[A[i]] = NULL}
           m == Min(I)
<1>1. /\ A \in Seq(Semd) /\ n \in Nat
      /\ A = <<>> <=> n = 0
      /\ A = <<>> <=> semd_h = NULL
      /\ \A i, j \in 1 .. n : A[i] = A[j] => i = j
      /\ \A i \in 1 .. n : A[i] \in Semd /\ A[i] # NULL /\ A[i] \in ToSet(A)
      /\ \A i \in 1 .. n : s_next[A[i]] = IF i = n THEN NULL ELSE A[i+1]
      /\ \A d \in ToSet(A) : \E i \in 1 .. n : A[i] = d
      /\ \A i, j \in 1 .. n : i < j => s_semAdd[A[i]] < s_semAdd[A[j]]
      /\ \A i \in 1 .. n : s_semAdd[A[i]] \in Add
  BY AslFacts
<1>2. findSemd(a) =
        IF semd_h = NULL THEN NULL
        ELSE IF s_semAdd[A[IF I # {} THEN m ELSE 0]] = a
             THEN A[IF I # {} THEN m ELSE 0] ELSE NULL
  BY DEF findSemd, SelectInSeq
<1> HIDE DEF A, n
<1>3. CASE A = <<>>
  BY <1>1, <1>2, <1>3 DEF A
<1>4. CASE A # <<>>
  <2>1. n \in I
    BY <1>1, <1>4
  <2>2. m \in I /\ \A j \in I : m <= j
    <3>1. I \subseteq 1 .. n
      OBVIOUS
    <3> HIDE DEF I
    <3>2. I \in SUBSET Nat /\ I # {}
      BY <1>1, <2>1, <3>1
    <3>. QED  BY <3>2, FirstLemma
  <2> HIDE DEF m
  <2>3. \A k \in 1 .. n : s_semAdd[A[k]] = a => k = m
    <3> SUFFICES ASSUME NEW k \in 1 .. n, s_semAdd[A[k]] = a, k # m
                 PROVE  FALSE
      OBVIOUS
    <3>0. a \in Nat /\ n \in Nat
      BY <1>1 DEF Table
    <3>1. k \in I
      BY <3>0
    <3>2. m \in 1 .. n /\ m < k
      BY <2>2, <3>0, <3>1
    <3>3. s_semAdd[A[m]] < a /\ s_semAdd[A[m]] \in Add
      BY <1>1, <3>2
    <3>4. s_next[A[m]] = NULL
      BY <2>2, <3>0, <3>3 DEF Add, Table
    <3>5. m # n /\ m + 1 \in 1 .. n
      BY <3>0, <3>2
    <3>. QED  BY <1>1, <3>2, <3>4, <3>5
  <2>4. findSemd(a) = IF s_semAdd[A[m]] = a THEN A[m] ELSE NULL
    BY <1>1, <1>2, <1>4, <2>1
  <2>5. m \in 1 .. n
    BY <2>2
  <2>6. CASE s_semAdd[A[m]] = a
    <3>1. \A d \in ToSet(A) : s_semAdd[d] = a => d = A[m]
      BY <1>1, <2>3
    <3>. QED  BY <1>1, <2>4, <2>5, <2>6, <3>1 DEF A
  <2>7. CASE s_semAdd[A[m]] # a
    <3>1. \A d \in ToSet(A) : s_semAdd[d] # a
      BY <1>1, <2>3, <2>7
    <3>. QED  BY <2>4, <2>7, <3>1 DEF A
  <2>. QED  BY <2>6, <2>7
<1>. QED  BY <1>3, <1>4

(***************************************************************************)
(* allocFree puts the descriptor where the address belongs.                *)
(***************************************************************************)
IsPlace(k, A, add, a) ==
  /\ k \in 1 .. Len(A) + 1
  /\ \A i \in 1 .. Len(A) : IF i < k THEN add[A[i]] < a ELSE a < add[A[i]]

LEMMA PlaceFacts ==
  ASSUME Table, AslInv, NEW a \in Add, \A d \in ToSet(ASL) : s_semAdd[d] # a
  PROVE  \E k : /\ IsPlace(k, ASL, s_semAdd, a)
                /\ semd_h = NULL \/ a < s_semAdd[semd_h] <=> k = 1
                /\ k # 1 => Before(a) = ASL[k-1]
<1> DEFINE A == ASL  n == Len(A)  t == Tail(A)
           I == {i \in 1 .. Len(t) : s_semAdd[t[i]] >= a}
           m == Min(I)
<1>1. /\ A \in Seq(Semd) /\ n \in Nat
      /\ A = <<>> <=> n = 0
      /\ A = <<>> <=> semd_h = NULL
      /\ A # <<>> => semd_h = A[1]
      /\ \A i \in 1 .. n : A[i] \in ToSet(A)
      /\ \A i, j \in 1 .. n : i < j => s_semAdd[A[i]] < s_semAdd[A[j]]
      /\ \A i \in 1 .. n : s_semAdd[A[i]] \in Add
  BY AslFacts
<1>2. A # <<>> => Len(t) = n - 1 /\ \A i \in 1 .. n - 1 : t[i] = A[i+1]
  BY <1>1
<1>3. Before(a) = LET higher == IF I # {} THEN m ELSE 0
                  IN  IF higher = 0 THEN A[n] ELSE A[higher]
  BY DEF Before, SelectInSeq, Last
<1>4. a \in Nat /\ \A i \in 1 .. n : s_semAdd[A[i]] \in Nat /\ s_semAdd[A[i]] # a
  BY <1>1 DEF Add, Table
<1> HIDE DEF A, n, t
<1>5. CASE semd_h = NULL \/ a < s_semAdd[semd_h]
  <2>1. \A i \in 1 .. n : 1 \in 1 .. n /\ (i = 1 \/ 1 < i)
    BY <1>1
  <2>2. \A i \in 1 .. n : ~(i < 1) /\ a < s_semAdd[A[i]]
    BY <1>1, <1>4, <1>5, <2>1
  <2>3. 1 \in 1 .. n + 1
    BY <1>1
  <2>. QED  BY <1>5, <2>2, <2>3 DEF A, n, IsPlace
<1>6. CASE ~(semd_h = NULL \/ a < s_semAdd[semd_h])
  <2>1. A # <<>> /\ n \in Nat /\ n # 0 /\ 1 \in 1 .. n /\ s_semAdd[A[1]] < a
    <3>1. A # <<>> /\ n \in Nat /\ n # 0 /\ 1 \in 1 .. n
      BY <1>1, <1>6
    <3>. QED  BY <1>1, <1>4, <1>6, <3>1
  <2>2. Len(t) = n - 1 /\ \A i \in 1 .. n - 1 : t[i] = A[i+1]
    BY <1>2, <2>1
  <2>3. ASSUME NEW k \in 2 .. n + 1, Before(a) = A[k-1],
               \A i \in 2 .. k - 1 : s_semAdd[A[i]] < a,
               k # n + 1 => ~(s_semAdd[A[k]] < a)
        PROVE  \E j : /\ IsPlace(j, ASL, s_semAdd, a)
                      /\ semd_h = NULL \/ a < s_semAdd[semd_h] <=> j = 1
                      /\ j # 1 => Before(a) = ASL[j-1]
    <3>1. ASSUME NEW i \in 1 .. n
          PROVE  IF i < k THEN s_semAdd[A[i]] < a ELSE a < s_semAdd[A[i]]
      <4>1. CASE i < k
        <5>1. i = 1 \/ i \in 2 .. k - 1
          BY <4>1
        <5>. QED  BY <2>1, <2>3, <4>1, <5>1
      <4>2. CASE ~(i < k)
        <5>1. k \in 1 .. n /\ k # n + 1 /\ (i = k \/ k < i)
          BY <2>1, <4>2
        <5>2. a < s_semAdd[A[k]]
          BY <1>4, <2>3, <5>1
        <5>3. k < i => s_semAdd[A[k]] < s_semAdd[A[i]]
          BY <1>1, <5>1
        <5>. QED  BY <1>4, <4>2, <5>1, <5>2, <5>3
      <4>. QED  BY <4>1, <4>2
    <3>2. k \in 1 .. n + 1 /\ k # 1
      BY <2>1
    <3>. QED  BY <1>6, <2>3, <3>1, <3>2 DEF A, n, IsPlace
  <2>4. CASE I = {}
    <3>1. n + 1 \in 2 .. n + 1 /\ (n + 1) - 1 = n
      BY <2>1
    <3>2. Before(a) = A[n]
      BY <1>3, <2>4
    <3>3. ASSUME NEW i \in 2 .. (n + 1) - 1
          PROVE  s_semAdd[A[i]] < a
      <4>1. i \in 1 .. n /\ i - 1 \in 1 .. n - 1 /\ (i - 1) + 1 = i
        BY <2>1
      <4>2. ~(s_semAdd[t[i-1]] >= a)
        BY <2>2, <2>4, <4>1
      <4>. QED  BY <1>4, <2>2, <4>1, <4>2
    <3>. QED  BY <2>3, <3>1, <3>2, <3>3
  <2>5. CASE I # {}
    <3>1. m \in I /\ \A j \in I : m <= j
      <4>1. I \in SUBSET Nat
        BY <2>1, <2>2
      <4> HIDE DEF I
      <4>. QED  BY <2>5, <4>1, FirstLemma
    <3> HIDE DEF m
    <3>2. m \in 1 .. n - 1 /\ s_semAdd[t[m]] >= a
      BY <2>2, <3>1
    <3>3. m + 1 \in 2 .. n + 1 /\ (m + 1) - 1 = m /\ m # 0 /\ m + 1 \in 1 .. n
      BY <2>1, <3>2
    <3>4. Before(a) = A[m]
      BY <1>3, <2>5, <3>3
    <3>5. ASSUME NEW i \in 2 .. (m + 1) - 1
          PROVE  s_semAdd[A[i]] < a
      <4>1. i \in 1 .. n /\ i - 1 \in 1 .. n - 1 /\ (i - 1) + 1 = i /\ ~(m <= i - 1)
        BY <2>1, <3>2
      <4>2. ~(s_semAdd[t[i-1]] >= a)
        BY <2>2, <3>1, <4>1
      <4>. QED  BY <1>4, <2>2, <4>1, <4>2
    <3>6. ~(s_semAdd[A[m+1]] < a)
      BY <1>4, <2>2, <3>2, <3>3
    <3>. QED  BY <2>3, <3>3, <3>4, <3>5, <3>6
  <2>. QED  BY <2>4, <2>5
<1>. QED  BY <1>5, <1>6

(***************************************************************************)
(* The addresses still ascend with one more, at its place, and one less.   *)
(***************************************************************************)
LEMMA AscendingInserted ==
  ASSUME NEW A \in Seq(Semd), NEW add \in [Semd -> Int], NEW a \in Int, NEW k,
         NEW d \in Semd, d \notin ToSet(A), Ascending(A, add), IsPlace(k, A, add, a)
  PROVE  Ascending(Inserted(A, k, d), [add EXCEPT ![d] = a])
<1> DEFINE n == Len(A)  B == Inserted(A, k, d)  add2 == [add EXCEPT ![d] = a]
<1>1. /\ n \in Nat /\ k \in 1 .. n + 1
      /\ \A i \in 1 .. n : A[i] \in Semd /\ A[i] # d
      /\ \A i \in 1 .. n : IF i < k THEN add[A[i]] < a ELSE a < add[A[i]]
      /\ \A i, j \in 1 .. n : i < j => add[A[i]] < add[A[j]]
  <2>1. \A i \in 1 .. n : A[i] \in ToSet(A)
    BY SeqFacts
  <2>. QED  BY <2>1 DEF IsPlace, Ascending
<1>2. /\ Len(B) = n + 1
      /\ \A i \in 1 .. n + 1 : B[i] = IF i < k THEN A[i] ELSE IF i = k THEN d ELSE A[i-1]
  BY <1>1, InsertedAt
<1>3. add2[d] = a /\ \A x \in Semd : x # d => add2[x] = add[x]
  OBVIOUS
<1> HIDE DEF n, B, add2
<1>4. ASSUME NEW i \in 1 .. n + 1, NEW j \in 1 .. n + 1, i < j
      PROVE  add2[B[i]] < add2[B[j]]
  <2>1. CASE j < k
    <3>1. i < k /\ i \in 1 .. n /\ j \in 1 .. n
      BY <1>1, <1>4, <2>1
    <3>. QED  BY <1>1, <1>2, <1>3, <1>4, <2>1, <3>1
  <2>2. CASE j = k
    <3>1. i < k /\ i \in 1 .. n /\ ~(j < k)
      BY <1>1, <1>4, <2>2
    <3>. QED  BY <1>1, <1>2, <1>3, <2>2, <3>1
  <2>3. CASE k < j
    <3>1. ~(j < k) /\ j # k /\ j - 1 \in 1 .. n /\ ~(j - 1 < k)
      BY <1>1, <2>3
    <3>2. B[j] = A[j-1] /\ add2[B[j]] = add[A[j-1]] /\ a < add[A[j-1]]
      BY <1>1, <1>2, <1>3, <3>1
    <3>3. CASE i < k
      <4>1. i \in 1 .. n /\ i < j - 1
        BY <1>1, <2>3, <3>3
      <4>2. B[i] = A[i] /\ add2[B[i]] = add[A[i]]
        BY <1>1, <1>2, <1>3, <3>3, <4>1
      <4>. QED  BY <1>1, <3>1, <3>2, <4>1, <4>2
    <3>4. CASE i = k
      <4>1. B[i] = d
        BY <1>1, <1>2, <3>4
      <4>. QED  BY <1>3, <3>2, <4>1
    <3>5. CASE k < i
      <4>1. ~(i < k) /\ i # k /\ i - 1 \in 1 .. n /\ i - 1 < j - 1
        BY <1>1, <1>4, <3>5
      <4>2. B[i] = A[i-1] /\ add2[B[i]] = add[A[i-1]]
        BY <1>1, <1>2, <1>3, <4>1
      <4>. QED  BY <1>1, <3>1, <3>2, <4>1, <4>2
    <3>. QED  BY <1>1, <3>3, <3>4, <3>5
  <2>. QED  BY <1>1, <2>1, <2>2, <2>3
<1>. QED  BY <1>2, <1>4 DEF Ascending, B, add2

LEMMA AscendingWithout ==
  ASSUME NEW A \in Seq(Semd), IsInjective(A), NEW add, Ascending(A, add),
         NEW k \in 1 .. Len(A)
  PROVE  Ascending(Without(A, A[k]), add)
<1> DEFINE n == Len(A)  w == Without(A, A[k])
<1>1. /\ Len(w) = n - 1 /\ n \in Nat
      /\ \A i \in 1 .. n - 1 : w[i] = IF i < k THEN A[i] ELSE A[i+1]
      /\ \A i, j \in 1 .. n : i < j => add[A[i]] < add[A[j]]
  <2>1. \A i, j \in 1 .. n : i < j => add[A[i]] < add[A[j]]
    BY DEF Ascending
  <2>2. /\ Len(w) = n - 1
        /\ \A i \in 1 .. n - 1 : w[i] = IF i < k THEN A[i] ELSE A[i+1]
    BY WithoutAt
  <2>3. n \in Nat
    OBVIOUS
  <2>. QED  BY <2>1, <2>2, <2>3
<1>2. k \in 1 .. n
  OBVIOUS
<1> HIDE DEF n, w
<1>3. ASSUME NEW i \in 1 .. n - 1, NEW j \in 1 .. n - 1, i < j
      PROVE  add[w[i]] < add[w[j]]
  <2>1. /\ i \in 1 .. n /\ j \in 1 .. n /\ i + 1 \in 1 .. n /\ j + 1 \in 1 .. n
        /\ i < j + 1 /\ i + 1 < j + 1 /\ (j < k => i < k)
    BY <1>1, <1>2, <1>3
  <2>. QED  BY <1>1, <1>3, <2>1
<1>. QED  BY <1>1, <1>3 DEF Ascending, w

------------------------------------------------------------------------------
(***************************************************************************)
(* freeSemd moves the descriptor from its place on the ASL to the head of  *)
(* the free list.                                                          *)
(***************************************************************************)
LEMMA ReleaseLists ==
  ASSUME Table, AslInv, NEW d \in ToSet(ASL), freeSemd(d)
  PROVE  /\ semd_h' \in SemdOrNull /\ semdFree_h' \in SemdOrNull
         /\ s_next' \in [Semd -> SemdOrNull] /\ s_semAdd' = s_semAdd
         /\ Lists(Without(ASL, d), Inserted(Free, 1, d), semd_h', semdFree_h', s_next')
<1> DEFINE A == ASL  n == Len(A)  F == Free
           before == CHOOSE i \in ToSet(A) : s_next[i] = d
<1>1. /\ A \in Seq(Semd) /\ n \in Nat /\ IsInjective(A)
      /\ A # <<>> => semd_h = A[1]
      /\ \A i, j \in 1 .. n : A[i] = A[j] => i = j
      /\ \A i \in 1 .. n : A[i] \in Semd /\ A[i] # NULL /\ A[i] \in ToSet(A)
      /\ \A i \in 1 .. n : s_next[A[i]] = IF i = n THEN NULL ELSE A[i+1]
      /\ \A x \in ToSet(A) : \E i \in 1 .. n : A[i] = x
      /\ A = <<>> <=> n = 0
      /\ ToSet(A) \subseteq Semd
  BY AslFacts
<1>2. /\ IsList(semd_h, A, s_next) /\ IsList(semdFree_h, F, s_next)
      /\ ToSet(A) \cap ToSet(F) = {} /\ ToSet(A) \cup ToSet(F) = Semd
  BY DEF AslInv, Lists
<1>3. semd_h \in SemdOrNull /\ semdFree_h \in SemdOrNull /\ s_next \in [Semd -> SemdOrNull]
  BY DEF AslInv, TypesOK
<1>4. /\ semdFree_h' = d /\ s_semAdd' = s_semAdd
      /\ IF semd_h = d
           THEN semd_h' = s_next[d] /\ s_next' = [s_next EXCEPT ![d] = semdFree_h]
           ELSE /\ s_next' = [s_next EXCEPT ![before] = s_next[d], ![d] = semdFree_h]
                /\ semd_h' = semd_h
  BY DEF freeSemd
<1>5. d \in ToSet(A)
  OBVIOUS
<1> HIDE DEF A, n, F
<1>6. PICK k \in 1 .. n : A[k] = d
  BY <1>1, <1>5
<1>7. (semd_h = d <=> k = 1) /\ d \in Semd /\ d # NULL
  <2>1. A # <<>> /\ 1 \in 1 .. n
    BY <1>1, <1>6
  <2>. QED  BY <1>1, <1>6, <2>1
<1>8. k # 1 => /\ before = A[k-1] /\ A[k-1] # d /\ A[k-1] \in Semd
               /\ A[k-1] \in ToSet(A) /\ k - 1 \in 1 .. n
  <2> HAVE k # 1
  <2>1. k - 1 \in 1 .. n /\ k - 1 # n /\ (k - 1) + 1 = k /\ k - 1 # k
    BY <1>1
  <2>2. A[k-1] \in ToSet(A) /\ s_next[A[k-1]] = d
    BY <1>1, <1>6, <2>1
  <2>3. ASSUME NEW x \in ToSet(A), s_next[x] = d
        PROVE  x = A[k-1]
    <3>1. PICK i \in 1 .. n : A[i] = x
      BY <1>1
    <3>2. i # n /\ A[i+1] = d
      BY <1>1, <1>7, <2>3, <3>1
    <3>3. i + 1 \in 1 .. n
      BY <1>1, <3>2
    <3>4. i + 1 = k
      BY <1>1, <1>6, <3>2, <3>3
    <3>5. i = k - 1
      BY <1>1, <3>4
    <3>. QED  BY <3>1, <3>5
  <2>4. before = A[k-1]
    BY <2>2, <2>3
  <2>. QED  BY <1>1, <1>6, <2>1, <2>4
<1>9. /\ semd_h' = IF k = 1 THEN s_next[d] ELSE semd_h
      /\ s_next'[d] = semdFree_h
      /\ k # 1 => s_next'[A[k-1]] = s_next[d]
      /\ \A x \in Semd : x # d /\ (k # 1 => x # A[k-1]) => s_next'[x] = s_next[x]
      /\ s_next' \in [Semd -> SemdOrNull]
  <2> HIDE DEF before
  <2>1. CASE k = 1
    BY <1>3, <1>4, <1>7, <2>1
  <2>2. CASE k # 1
    BY <1>3, <1>4, <1>7, <1>8, <2>2
  <2>. QED  BY <2>1, <2>2
<1>10. semd_h' \in SemdOrNull /\ semdFree_h' \in SemdOrNull
  BY <1>3, <1>4, <1>7, <1>9 DEF SemdOrNull
<1>11. IsList(semd_h', Without(A, d), s_next')
  <2>1. TakenOut(semd_h, A, s_next, k, semd_h', s_next')
    <3>1. n = Len(A)
      BY DEF n
    <3>2. k = 1 => s_next[d] = s_next[A[1]]
      BY <1>6
    <3>. QED  BY <1>1, <1>2, <1>6, <1>9, <3>1, <3>2 DEF TakenOut
  <2>2. IsList(semd_h', Without(A, A[k]), s_next')
    BY <2>1, ListDelete
  <2>. QED  BY <1>6, <2>2
<1>12. F \in Seq(Semd) /\ Len(F) \in Nat /\ ToSet(F) \subseteq Semd /\ d \notin ToSet(F)
  BY <1>2, <1>5, SeqFacts DEF IsList
<1>13. IsList(semdFree_h', Inserted(F, 1, d), s_next')
  <2>1. \A x \in ToSet(F) : s_next'[x] = s_next[x]
    BY <1>2, <1>8, <1>9, <1>12
  <2>2. PutIn(semdFree_h, F, s_next, 1, d, semdFree_h', s_next')
    <3>1. 1 \in 1 .. Len(F) + 1
      BY <1>12
    <3>. QED  BY <1>2, <1>4, <1>7, <1>9, <1>12, <2>1, <3>1 DEF PutIn
  <2>. QED  BY <2>2, ListInsert
<1>14. /\ ToSet(Without(A, d)) = ToSet(A) \ {d}
       /\ ToSet(Inserted(F, 1, d)) = ToSet(F) \cup {d}
  <2>1. 1 \in 1 .. Len(F) + 1
    BY <1>12
  <2>2. ToSet(Without(A, d)) = ToSet(A) \ {d}
    BY <1>1, WithoutLemma
  <2>3. ToSet(Inserted(F, 1, d)) = ToSet(F) \cup {d}
    BY <1>7, <1>12, <2>1, InsertedAt
  <2>. QED  BY <2>2, <2>3
<1>15. Lists(Without(A, d), Inserted(F, 1, d), semd_h', semdFree_h', s_next')
  BY <1>2, <1>5, <1>11, <1>13, <1>14 DEF Lists
<1>. QED  BY <1>4, <1>9, <1>10, <1>15 DEF A, F

(***************************************************************************)
(* allocFree moves the first free descriptor to its place on the ASL.      *)
(***************************************************************************)
LEMMA AllocLists ==
  ASSUME Table, AslInv, NEW a \in Add, \A d \in ToSet(ASL) : s_semAdd[d] # a,
         semdFree_h # NULL, NEW p, allocFree(a, p)
  PROVE  /\ semd_h' \in SemdOrNull /\ semdFree_h' \in SemdOrNull
         /\ s_next' \in [Semd -> SemdOrNull]
         /\ semdFree_h \in ToSet(Free) /\ semdFree_h \in Semd
         /\ semdFree_h \notin ToSet(ASL)
         /\ \E k : /\ IsPlace(k, ASL, s_semAdd, a)
                   /\ Lists(Inserted(ASL, k, semdFree_h), Without(Free, semdFree_h),
                            semd_h', semdFree_h', s_next')
<1> DEFINE A == ASL  n == Len(A)  F == Free  d == semdFree_h
           next == [s_next EXCEPT ![d] = NULL]
<1>1. /\ A \in Seq(Semd) /\ n \in Nat
      /\ A = <<>> <=> n = 0
      /\ A = <<>> <=> semd_h = NULL
      /\ A # <<>> => semd_h = A[1]
      /\ \A i \in 1 .. n : A[i] \in Semd /\ A[i] \in ToSet(A)
      /\ ToSet(A) \subseteq Semd
  BY AslFacts
<1>2. /\ IsList(semd_h, A, s_next) /\ IsList(d, F, s_next)
      /\ ToSet(A) \cap ToSet(F) = {} /\ ToSet(A) \cup ToSet(F) = Semd
  BY DEF AslInv, Lists
<1>3. semd_h \in SemdOrNull /\ s_next \in [Semd -> SemdOrNull]
  BY DEF AslInv, TypesOK
<1>4. PICK k : /\ IsPlace(k, A, s_semAdd, a)
               /\ semd_h = NULL \/ a < s_semAdd[semd_h] <=> k = 1
               /\ k # 1 => Before(a) = A[k-1]
  BY PlaceFacts
<1>5. /\ semdFree_h' = s_next[d]
      /\ IF k = 1
           THEN /\ s_next' = [next EXCEPT ![d] = semd_h]
                /\ semd_h' = d
           ELSE /\ s_next' = [next EXCEPT ![d] = s_next[A[k-1]], ![A[k-1]] = d]
                /\ semd_h' = semd_h
  BY <1>4 DEF allocFree
<1>6. F # <<>> /\ d = F[1] /\ F \in Seq(Semd) /\ Len(F) \in Nat /\ IsInjective(F)
  BY <1>2, SeqFacts DEF IsList
<1> HIDE DEF A, n, F, next
<1>7. 1 \in 1 .. Len(F) /\ d \in ToSet(F) /\ d \in Semd /\ d \notin ToSet(A)
  <2>1. 1 \in 1 .. Len(F)
    BY <1>6
  <2>2. d \in ToSet(F)
    BY <1>6, <2>1, SeqFacts
  <2>. QED  BY <1>2, <2>1, <2>2
<1>8. k \in 1 .. n + 1 /\ (k # 1 => k - 1 \in 1 .. n)
  BY <1>1, <1>4 DEF IsPlace, n
<1>9. k # 1 => A[k-1] \in Semd /\ A[k-1] \in ToSet(A) /\ A[k-1] # d
  BY <1>1, <1>7, <1>8
<1>10. /\ semd_h' = IF k = 1 THEN d ELSE semd_h
       /\ s_next'[d] = IF k = 1 THEN semd_h ELSE s_next[A[k-1]]
       /\ k # 1 => s_next'[A[k-1]] = d
       /\ \A x \in Semd : x # d /\ (k # 1 => x # A[k-1]) => s_next'[x] = s_next[x]
       /\ s_next' \in [Semd -> SemdOrNull]
  <2>1. CASE k = 1
    BY <1>3, <1>5, <1>7, <2>1 DEF next, SemdOrNull
  <2>2. CASE k # 1
    <3>1. s_next[A[k-1]] \in SemdOrNull /\ d \in SemdOrNull /\ NULL \in SemdOrNull
      BY <1>3, <1>7, <1>9, <2>2 DEF SemdOrNull
    <3>. QED  BY <1>3, <1>5, <1>7, <1>9, <2>2, <3>1 DEF next
  <2>. QED  BY <2>1, <2>2
<1>11. semd_h' \in SemdOrNull /\ semdFree_h' \in SemdOrNull
  BY <1>3, <1>5, <1>7, <1>10 DEF SemdOrNull
<1>12. IsList(semd_h', Inserted(A, k, d), s_next')
  <2>1. PutIn(semd_h, A, s_next, k, d, semd_h', s_next')
    <3>1. \A x \in ToSet(A) : (k # 1 => x # A[k-1]) => s_next'[x] = s_next[x]
      BY <1>1, <1>7, <1>10
    <3>. QED  BY <1>2, <1>7, <1>8, <1>10, <3>1 DEF PutIn, n
  <2>. QED  BY <2>1, ListInsert
<1>13. IsList(semdFree_h', Without(F, d), s_next')
  <2>1. \A x \in ToSet(F) : x # d => s_next'[x] = s_next[x]
    <3>1. ToSet(F) \subseteq Semd
      BY <1>2
    <3>. QED  BY <1>2, <1>9, <1>10, <3>1
  <2>2. TakenOut(d, F, s_next, 1, semdFree_h', s_next')
    BY <1>2, <1>5, <1>6, <1>7, <2>1 DEF TakenOut
  <2>. QED  BY <1>6, <2>2, ListDelete
<1>14. /\ ToSet(Inserted(A, k, d)) = ToSet(A) \cup {d}
       /\ ToSet(Without(F, d)) = ToSet(F) \ {d}
  <2>1. ToSet(Inserted(A, k, d)) = ToSet(A) \cup {d}
    BY <1>1, <1>7, <1>8, InsertedAt DEF n
  <2>2. ToSet(Without(F, d)) = ToSet(F) \ {d}
    BY <1>6, WithoutLemma
  <2>. QED  BY <2>1, <2>2
<1>15. Lists(Inserted(A, k, d), Without(F, d), semd_h', semdFree_h', s_next')
  BY <1>2, <1>7, <1>12, <1>13, <1>14 DEF Lists
<1>. QED  BY <1>4, <1>7, <1>10, <1>11, <1>15 DEF A, F

------------------------------------------------------------------------------
(***************************************************************************)
(* The queues a list of descriptors stands for, each by its address.       *)
(***************************************************************************)
QueuesOf(A, add, procQ) ==
  LET on == ToSet(A) IN
  [a \in Add |-> LET active == {d \in on : add[d] = a} IN
                IF active = {} THEN mkEmptyProcQ
                ELSE procQ[CHOOSE d \in active : TRUE]]

OneEach(A, add) == \A d, e \in ToSet(A) : add[d] = add[e] => d = e

LEMMA BlockedOnNow ==
  /\ BlockedOn = QueuesOf(ASL, s_semAdd, s_procQ)
  /\ BlockedOn' = QueuesOf(ASL', s_semAdd', s_procQ')
BY DEF BlockedOn, QueuesOf

LEMMA QueueAt ==
  ASSUME NEW A, NEW add, NEW procQ, OneEach(A, add), NEW a \in Add
  PROVE  /\ \A d \in ToSet(A) : add[d] = a => QueuesOf(A, add, procQ)[a] = procQ[d]
         /\ (\A d \in ToSet(A) : add[d] # a) => QueuesOf(A, add, procQ)[a] = <<>>
<1> DEFINE active == {d \in ToSet(A) : add[d] = a}
<1>1. QueuesOf(A, add, procQ)[a] = IF active = {} THEN <<>>
                                   ELSE procQ[CHOOSE d \in active : TRUE]
  BY DEF QueuesOf, mkEmptyProcQ
<1>2. ASSUME NEW d \in ToSet(A), add[d] = a
      PROVE  (CHOOSE e \in active : TRUE) = d /\ active # {}
  <2>1. d \in active /\ \A e \in active : e = d
    BY <1>2 DEF OneEach
  <2> HIDE DEF active
  <2>. QED  BY <2>1
<1>. QED  BY <1>1, <1>2

LEMMA AscendingIsOneEach ==
  ASSUME NEW A \in Seq(Semd), NEW add, \A d \in Semd : add[d] \in Int, Ascending(A, add)
  PROVE  OneEach(A, add)
<1> SUFFICES ASSUME NEW d \in ToSet(A), NEW e \in ToSet(A), add[d] = add[e]
             PROVE  d = e
  BY DEF OneEach
<1>1. PICK i \in 1 .. Len(A) : A[i] = d
  BY SeqFacts
<1>2. PICK j \in 1 .. Len(A) : A[j] = e
  BY SeqFacts
<1>3. add[d] \in Int /\ add[e] \in Int
  BY <1>1, <1>2
<1>4. ~(i < j) /\ ~(j < i)
  BY <1>1, <1>2, <1>3 DEF Ascending
<1>5. i \in Int /\ j \in Int
  OBVIOUS
<1>6. i = j
  BY <1>4, <1>5
<1>. QED  BY <1>1, <1>2, <1>6

(***************************************************************************)
(* From the first state to the second the queue of a, and no other,        *)
(* becomes q.                                                              *)
(***************************************************************************)
OneChanged(a, q, A, add, procQ, A2, add2, procQ2) ==
  /\ OneEach(A, add) /\ OneEach(A2, add2)
  /\ \A d \in ToSet(A) : add[d] # a =>
       d \in ToSet(A2) /\ add2[d] = add[d] /\ procQ2[d] = procQ[d]
  /\ \A d \in ToSet(A2) : add2[d] # a => d \in ToSet(A) /\ add2[d] = add[d]
  /\ \/ \E d \in ToSet(A2) : add2[d] = a /\ procQ2[d] = q
     \/ q = <<>> /\ \A d \in ToSet(A2) : add2[d] # a

LEMMA QueuesChanged ==
  ASSUME NEW a \in Add, NEW q, NEW A, NEW add, NEW procQ, NEW A2, NEW add2, NEW procQ2,
         OneChanged(a, q, A, add, procQ, A2, add2, procQ2)
  PROVE  QueuesOf(A2, add2, procQ2) = [QueuesOf(A, add, procQ) EXCEPT ![a] = q]
<1> DEFINE B == QueuesOf(A, add, procQ)  B2 == QueuesOf(A2, add2, procQ2)
<1>1. /\ OneEach(A, add) /\ OneEach(A2, add2)
      /\ \A d \in ToSet(A) : add[d] # a =>
           d \in ToSet(A2) /\ add2[d] = add[d] /\ procQ2[d] = procQ[d]
      /\ \A d \in ToSet(A2) : add2[d] # a => d \in ToSet(A) /\ add2[d] = add[d]
      /\ \/ \E d \in ToSet(A2) : add2[d] = a /\ procQ2[d] = q
         \/ q = <<>> /\ \A d \in ToSet(A2) : add2[d] # a
  BY DEF OneChanged
<1>2. B = [b \in Add |-> B[b]] /\ B2 = [b \in Add |-> B2[b]]
  BY DEF QueuesOf
<1>3. \A b \in Add : /\ \A d \in ToSet(A) : add[d] = b => B[b] = procQ[d]
                     /\ (\A d \in ToSet(A) : add[d] # b) => B[b] = <<>>
  BY <1>1, QueueAt
<1>4. \A b \in Add : /\ \A d \in ToSet(A2) : add2[d] = b => B2[b] = procQ2[d]
                     /\ (\A d \in ToSet(A2) : add2[d] # b) => B2[b] = <<>>
  BY <1>1, QueueAt
<1> HIDE DEF B, B2
<1>5. B2[a] = q
  BY <1>1, <1>4
<1>6. ASSUME NEW b \in Add, b # a
      PROVE  B2[b] = B[b]
  <2>1. CASE \E d \in ToSet(A) : add[d] = b
    BY <1>1, <1>3, <1>4, <1>6, <2>1
  <2>2. CASE \A d \in ToSet(A) : add[d] # b
    <3>1. \A d \in ToSet(A2) : add2[d] # b
      BY <1>1, <1>6, <2>2
    <3>. QED  BY <1>3, <1>4, <2>2, <3>1
  <2>. QED  BY <2>1, <2>2
<1>. QED  BY <1>2, <1>5, <1>6 DEF B, B2

------------------------------------------------------------------------------
(***************************************************************************)
(* What the queues on the ASL hold, by the descriptors.                    *)
(***************************************************************************)
LEMMA AslQueues ==
  ASSUME Table, AslInv
  PROVE  /\ OneEach(ASL, s_semAdd)
         /\ ToSet(ASL) \subseteq Semd
         /\ \A d \in ToSet(ASL) :
              /\ s_semAdd[d] \in Add /\ BlockedOn[s_semAdd[d]] = s_procQ[d]
              /\ s_procQ[d] \in Seq(Pcb) /\ s_procQ[d] # <<>> /\ IsInjective(s_procQ[d])
              /\ \A p \in ToSet(s_procQ[d]) : p_semAdd[p] = s_semAdd[d]
         /\ \A a \in Add : (\A d \in ToSet(ASL) : s_semAdd[d] # a) => BlockedOn[a] = <<>>
<1>1. ASL \in Seq(Semd) /\ ToSet(ASL) \subseteq Semd
  BY AslFacts
<1>2. \A d \in Semd : s_semAdd[d] \in Int /\ s_procQ[d] \in Seq(Pcb)
  BY DEF AslInv, TypesOK, Table
<1>3. OneEach(ASL, s_semAdd)
  BY <1>1, <1>2, AscendingIsOneEach DEF AslInv
<1>4. \A d \in ToSet(ASL) : /\ s_semAdd[d] \in Add
                            /\ s_procQ[d] # <<>> /\ IsInjective(s_procQ[d])
                            /\ \A p \in ToSet(s_procQ[d]) : p_semAdd[p] = s_semAdd[d]
  BY DEF AslInv, Waiting
<1>5. \A a \in Add : /\ \A d \in ToSet(ASL) : s_semAdd[d] = a => BlockedOn[a] = s_procQ[d]
                     /\ (\A d \in ToSet(ASL) : s_semAdd[d] # a) => BlockedOn[a] = <<>>
  BY <1>3, QueueAt, BlockedOnNow
<1>. QED  BY <1>1, <1>2, <1>3, <1>4, <1>5

(***************************************************************************)
(* A descriptor on the ASL gets a queue that is part of the one it had,    *)
(* and leaves if that is empty.                                            *)
(***************************************************************************)
LEMMA ReleaseStep ==
  ASSUME Table, AslInv, NEW d \in ToSet(ASL), NEW q \in Seq(Pcb), IsInjective(q),
         ToSet(q) \subseteq ToSet(s_procQ[d]), ReleaseIfEmpty(d, q),
         p_semAdd' = p_semAdd
  PROVE  AslInv' /\ BlockedOn' = [BlockedOn EXCEPT ![s_semAdd[d]] = q]
<1> DEFINE A == ASL  A2 == IF q = <<>> THEN Without(A, d) ELSE A
           F2 == IF q = <<>> THEN Inserted(Free, 1, d) ELSE Free
<1>1. /\ d \in Semd /\ OneEach(A, s_semAdd)
      /\ \A e \in ToSet(A) : /\ e \in Semd /\ s_semAdd[e] \in Add
                             /\ s_procQ[e] # <<>> /\ IsInjective(s_procQ[e])
                             /\ \A p \in ToSet(s_procQ[e]) : p_semAdd[p] = s_semAdd[e]
  BY AslQueues
<1>2. TypesOK /\ Ascending(A, s_semAdd) /\ Lists(A, Free, semd_h, semdFree_h, s_next)
  BY DEF AslInv
<1>3. s_procQ' = [s_procQ EXCEPT ![d] = q]
  BY DEF ReleaseIfEmpty
<1>4. A \in Seq(Semd) /\ IsInjective(A) /\ ToSet(A) \subseteq Semd
  BY AslFacts
<1>5. /\ semd_h' \in SemdOrNull /\ semdFree_h' \in SemdOrNull
      /\ s_next' \in [Semd -> SemdOrNull] /\ s_semAdd' = s_semAdd
      /\ Lists(A2, F2, semd_h', semdFree_h', s_next')
  <2>1. CASE q = <<>>
    <3>1. freeSemd(d)
      BY <2>1 DEF ReleaseIfEmpty, emptyProcQ
    <3>. QED  BY <2>1, <3>1, ReleaseLists
  <2>2. CASE q # <<>>
    BY <1>2, <2>2 DEF ReleaseIfEmpty, emptyProcQ, list, TypesOK
  <2>. QED  BY <2>1, <2>2
<1>6. TypesOK'
  BY <1>1, <1>2, <1>3, <1>5 DEF TypesOK
<1>7. ToSet(A2) = IF q = <<>> THEN ToSet(A) \ {d} ELSE ToSet(A)
  BY <1>4, WithoutLemma
<1>8. Ascending(A2, s_semAdd')
  <2>1. PICK k \in 1 .. Len(A) : A[k] = d
    BY <1>4, SeqFacts
  <2>2. Ascending(Without(A, A[k]), s_semAdd)
    <3> HIDE DEF A
    <3>. QED  BY <1>2, <1>4, AscendingWithout
  <2>. QED  BY <1>2, <1>5, <2>1, <2>2
<1> HIDE DEF A, A2, F2
<1>9. Waiting(A2, s_semAdd', s_procQ', p_semAdd')
  <2> SUFFICES ASSUME NEW e \in ToSet(A2)
               PROVE  /\ s_semAdd[e] \in Add /\ s_procQ'[e] # <<>>
                      /\ IsInjective(s_procQ'[e])
                      /\ \A p \in ToSet(s_procQ'[e]) : p_semAdd[p] = s_semAdd[e]
    BY <1>5 DEF Waiting
  <2>1. e \in ToSet(A) /\ (q = <<>> => e # d)
    BY <1>7
  <2>2. s_procQ'[e] = IF e = d THEN q ELSE s_procQ[e]
    BY <1>1, <1>2, <1>3, <2>1 DEF TypesOK
  <2>3. d \in ToSet(A)
    BY DEF A
  <2>. QED  BY <1>1, <2>1, <2>2, <2>3
<1>10. AslInv' /\ ASL' = A2
  BY <1>5, <1>6, <1>8, <1>9, ListsStep
<1>11. OneChanged(s_semAdd[d], q, A, s_semAdd, s_procQ, A2, s_semAdd', s_procQ')
  <2>1. OneEach(A2, s_semAdd')
    BY <1>1, <1>5, <1>7 DEF OneEach
  <2>2. \A e \in ToSet(A) : s_semAdd[e] # s_semAdd[d] =>
          e \in ToSet(A2) /\ s_semAdd'[e] = s_semAdd[e] /\ s_procQ'[e] = s_procQ[e]
    BY <1>1, <1>2, <1>3, <1>5, <1>7 DEF TypesOK
  <2>3. \A e \in ToSet(A2) : e \in ToSet(A) /\ s_semAdd'[e] = s_semAdd[e]
    BY <1>5, <1>7
  <2>4. CASE q = <<>>
    <3>1. \A e \in ToSet(A2) : s_semAdd'[e] # s_semAdd[d]
      BY <1>1, <1>5, <1>7, <2>4 DEF OneEach, A
    <3>. QED  BY <1>1, <2>1, <2>2, <2>3, <2>4, <3>1 DEF OneChanged
  <2>5. CASE q # <<>>
    <3>1. d \in ToSet(A2) /\ s_procQ'[d] = q
      BY <1>1, <1>2, <1>3, <1>7, <2>5 DEF TypesOK, A
    <3>. QED  BY <1>1, <1>5, <2>1, <2>2, <2>3, <3>1 DEF OneChanged
  <2>. QED  BY <2>4, <2>5
<1>12. QueuesOf(A2, s_semAdd', s_procQ')
         = [QueuesOf(A, s_semAdd, s_procQ) EXCEPT ![s_semAdd[d]] = q]
  <2>1. s_semAdd[d] \in Add
    BY <1>1 DEF A
  <2>. QED  BY <1>11, <2>1, QueuesChanged
<1>. QED  BY <1>10, <1>12, BlockedOnNow DEF A

(***************************************************************************)
(* A step that leaves the lists and queues, and what queued pcbs say.      *)
(***************************************************************************)
LEMMA SameQueues ==
  ASSUME Table, AslInv, UNCHANGED <<list, s_procQ>>, p_semAdd' \in [Pcb -> 0 .. MaxAdd],
         \A d \in ToSet(ASL) : \A p \in ToSet(s_procQ[d]) : p_semAdd'[p] = p_semAdd[p]
  PROVE  AslInv' /\ BlockedOn' = BlockedOn
<1>1. /\ semd_h' = semd_h /\ semdFree_h' = semdFree_h
      /\ s_next' = s_next /\ s_semAdd' = s_semAdd /\ s_procQ' = s_procQ
  BY DEF list
<1>2. /\ TypesOK /\ Lists(ASL, Free, semd_h, semdFree_h, s_next)
      /\ Ascending(ASL, s_semAdd) /\ Waiting(ASL, s_semAdd, s_procQ, p_semAdd)
  BY DEF AslInv
<1>3. TypesOK'
  BY <1>1, <1>2 DEF TypesOK
<1>4. Waiting(ASL, s_semAdd', s_procQ', p_semAdd')
  BY <1>1, <1>2 DEF Waiting
<1>5. AslInv' /\ ASL' = ASL
  BY <1>1, <1>2, <1>3, <1>4, ListsStep
<1>. QED  BY <1>1, <1>5, BlockedOnNow

(***************************************************************************)
(* insertBlocked when the descriptor of a is on the ASL, and when a free   *)
(* one is put there: in both cases the queue of a gets p as its newest.    *)
(***************************************************************************)
LEMMA InsertInFound ==
  ASSUME Table, AslInv, NEW d \in ToSet(ASL), NEW p \in Pcb, UNCHANGED list,
         \A e \in ToSet(ASL) : p \notin ToSet(s_procQ[e]),
         s_procQ' = [s_procQ EXCEPT ![d] = Append(@, p)],
         p_semAdd' = [p_semAdd EXCEPT ![p] = s_semAdd[d]]
  PROVE  AslInv' /\ BlockedOn' = [BlockedOn EXCEPT ![s_semAdd[d]] = Append(@, p)]
<1> DEFINE q == Append(s_procQ[d], p)
<1>1. /\ d \in Semd /\ OneEach(ASL, s_semAdd) /\ BlockedOn[s_semAdd[d]] = s_procQ[d]
      /\ s_procQ[d] \in Seq(Pcb) /\ s_semAdd[d] \in Add
      /\ \A e \in ToSet(ASL) : /\ e \in Semd /\ s_semAdd[e] \in Add
                               /\ s_procQ[e] # <<>> /\ IsInjective(s_procQ[e])
                               /\ s_procQ[e] \in Seq(Pcb)
                               /\ \A x \in ToSet(s_procQ[e]) : p_semAdd[x] = s_semAdd[e]
  BY AslQueues
<1>2. /\ TypesOK /\ Lists(ASL, Free, semd_h, semdFree_h, s_next)
      /\ Ascending(ASL, s_semAdd)
  BY DEF AslInv
<1>3. /\ semd_h' = semd_h /\ semdFree_h' = semdFree_h
      /\ s_next' = s_next /\ s_semAdd' = s_semAdd
  BY DEF list
<1>4. /\ q \in Seq(Pcb) /\ q # <<>> /\ IsInjective(q)
      /\ ToSet(q) = ToSet(s_procQ[d]) \cup {p}
  BY <1>1, InsertLemma DEF insertProcQ
<1> HIDE DEF q
<1>5. s_procQ' = [s_procQ EXCEPT ![d] = q]
  BY DEF q
<1>6. TypesOK'
  BY <1>1, <1>2, <1>3, <1>4, <1>5 DEF TypesOK
<1>7. \A e \in ToSet(ASL) : s_procQ'[e] = IF e = d THEN q ELSE s_procQ[e]
  BY <1>1, <1>2, <1>5 DEF TypesOK
<1>8. p_semAdd'[p] = s_semAdd[d] /\ \A x \in Pcb : x # p => p_semAdd'[x] = p_semAdd[x]
  BY <1>2 DEF TypesOK
<1>9. Waiting(ASL, s_semAdd', s_procQ', p_semAdd')
  <2> SUFFICES ASSUME NEW e \in ToSet(ASL)
               PROVE  /\ s_semAdd[e] \in Add /\ s_procQ'[e] # <<>>
                      /\ IsInjective(s_procQ'[e])
                      /\ \A x \in ToSet(s_procQ'[e]) : p_semAdd'[x] = s_semAdd[e]
    BY <1>3 DEF Waiting
  <2>1. \A x \in ToSet(s_procQ[e]) : x \in Pcb /\ x # p
    <3>1. ToSet(s_procQ[e]) \subseteq Pcb
      BY <1>1, SeqFacts
    <3>. QED  BY <3>1
  <2>2. \A x \in ToSet(s_procQ[e]) : p_semAdd'[x] = s_semAdd[e]
    BY <1>1, <1>8, <2>1
  <2>. QED  BY <1>1, <1>4, <1>7, <1>8, <2>2
<1>10. AslInv' /\ ASL' = ASL
  BY <1>2, <1>3, <1>6, <1>9, ListsStep
<1>11. OneChanged(s_semAdd[d], q, ASL, s_semAdd, s_procQ, ASL, s_semAdd', s_procQ')
  BY <1>1, <1>3, <1>7 DEF OneChanged
<1>12. QueuesOf(ASL, s_semAdd', s_procQ')
         = [QueuesOf(ASL, s_semAdd, s_procQ) EXCEPT ![s_semAdd[d]] = q]
  BY <1>1, <1>11, QueuesChanged
<1>13. BlockedOn' = [BlockedOn EXCEPT ![s_semAdd[d]] = q]
  BY <1>10, <1>12, BlockedOnNow
<1>. QED  BY <1>1, <1>10, <1>13 DEF q

LEMMA InsertInFree ==
  ASSUME Table, AslInv, NEW a \in Add, NEW p \in Pcb,
         \A d \in ToSet(ASL) : s_semAdd[d] # a /\ p \notin ToSet(s_procQ[d]),
         semdFree_h # NULL, allocFree(a, p), p_semAdd' = [p_semAdd EXCEPT ![p] = a]
  PROVE  AslInv' /\ BlockedOn' = [BlockedOn EXCEPT ![a] = Append(@, p)]
<1> DEFINE A == ASL  d == semdFree_h  q == Append(<<>>, p)
<1>1. /\ OneEach(A, s_semAdd) /\ ToSet(A) \subseteq Semd /\ BlockedOn[a] = <<>>
      /\ \A e \in ToSet(A) : /\ s_semAdd[e] \in Add
                             /\ s_procQ[e] # <<>> /\ IsInjective(s_procQ[e])
                             /\ s_procQ[e] \in Seq(Pcb)
                             /\ \A x \in ToSet(s_procQ[e]) : p_semAdd[x] = s_semAdd[e]
  BY AslQueues
<1>2. TypesOK /\ Ascending(A, s_semAdd) /\ A \in Seq(Semd)
  BY AslFacts DEF AslInv
<1>3. /\ s_semAdd' = [s_semAdd EXCEPT ![d] = a]
      /\ s_procQ' = [s_procQ EXCEPT ![d] = q]
  BY DEF allocFree, insertProcQ, mkEmptyProcQ
<1>4. /\ semd_h' \in SemdOrNull /\ semdFree_h' \in SemdOrNull
      /\ s_next' \in [Semd -> SemdOrNull] /\ d \in Semd /\ d \notin ToSet(A)
  BY AllocLists
<1>5. PICK k : /\ IsPlace(k, A, s_semAdd, a)
               /\ Lists(Inserted(A, k, d), Without(Free, d), semd_h', semdFree_h', s_next')
  BY AllocLists
<1>6. q \in Seq(Pcb) /\ q # <<>> /\ IsInjective(q) /\ ToSet(q) = {p}
  <2>1. /\ insertProcQ(<<>>, p) \in Seq(Pcb) /\ insertProcQ(<<>>, p) # <<>>
        /\ ToSet(insertProcQ(<<>>, p)) = ToSet(<<>>) \cup {p}
        /\ IsInjective(insertProcQ(<<>>, p))
    <3> DEFINE none == <<>>
    <3>1. none \in Seq(Pcb) /\ p \notin ToSet(none) /\ IsInjective(none)
      BY DEF ToSet, IsInjective
    <3> HIDE DEF none
    <3>2. /\ insertProcQ(none, p) \in Seq(Pcb) /\ insertProcQ(none, p) # <<>>
          /\ ToSet(insertProcQ(none, p)) = ToSet(none) \cup {p}
          /\ IsInjective(insertProcQ(none, p))
      BY <3>1, InsertLemma
    <3>. QED  BY <3>2 DEF none
  <2>2. ToSet(<<>>) = {}
    BY DEF ToSet
  <2>. QED  BY <2>1, <2>2 DEF insertProcQ
<1> DEFINE A2 == Inserted(A, k, d)
<1> HIDE DEF A, q
<1>7. a \in Int /\ a \in 0 .. MaxAdd /\ \A e \in Semd : s_semAdd[e] \in Int
  BY <1>2 DEF TypesOK, Add, Table
<1>8. TypesOK'
  BY <1>2, <1>3, <1>4, <1>6, <1>7 DEF TypesOK
<1>9. ToSet(A2) = ToSet(A) \cup {d} /\ A2 \in Seq(Semd)
  BY <1>2, <1>4, <1>5, InsertedAt DEF IsPlace
<1>10. Ascending(A2, s_semAdd')
  <2>1. s_semAdd \in [Semd -> Int]
    BY <1>2, <1>7 DEF TypesOK
  <2>2. Ascending(Inserted(A, k, d), [s_semAdd EXCEPT ![d] = a])
    BY <1>2, <1>4, <1>5, <1>7, <2>1, AscendingInserted
  <2>. QED  BY <1>3, <2>2
<1>11. /\ s_semAdd'[d] = a /\ s_procQ'[d] = q
       /\ \A e \in ToSet(A) : /\ e # d /\ s_semAdd'[e] = s_semAdd[e]
                              /\ s_procQ'[e] = s_procQ[e]
  BY <1>1, <1>2, <1>3, <1>4 DEF TypesOK
<1>12. p_semAdd'[p] = a /\ \A x \in Pcb : x # p => p_semAdd'[x] = p_semAdd[x]
  BY <1>2 DEF TypesOK
<1> HIDE DEF A2
<1>13. Waiting(A2, s_semAdd', s_procQ', p_semAdd')
  <2> SUFFICES ASSUME NEW e \in ToSet(A2)
               PROVE  /\ s_semAdd'[e] \in Add /\ s_procQ'[e] # <<>>
                      /\ IsInjective(s_procQ'[e])
                      /\ \A x \in ToSet(s_procQ'[e]) : p_semAdd'[x] = s_semAdd'[e]
    BY DEF Waiting
  <2>1. CASE e = d
    BY <1>6, <1>11, <1>12, <2>1
  <2>2. CASE e # d
    <3>1. e \in ToSet(A)
      BY <1>9, <2>2
    <3>2. \A x \in ToSet(s_procQ[e]) : x \in Pcb /\ x # p
      <4>1. ToSet(s_procQ[e]) \subseteq Pcb
        BY <1>1, <3>1, SeqFacts
      <4>. QED  BY <3>1, <4>1 DEF A
    <3>. QED  BY <1>1, <1>11, <1>12, <3>1, <3>2
  <2>. QED  BY <2>1, <2>2
<1>14. AslInv' /\ ASL' = A2
  BY <1>5, <1>8, <1>10, <1>13, ListsStep DEF A2
<1>15. OneEach(A2, s_semAdd')
  <2>1. \A e \in Semd : s_semAdd'[e] \in Int
    BY <1>8 DEF TypesOK, Table
  <2>. QED  BY <1>9, <1>10, <2>1, AscendingIsOneEach
<1>16. OneChanged(a, q, A, s_semAdd, s_procQ, A2, s_semAdd', s_procQ')
  BY <1>1, <1>9, <1>11, <1>15 DEF OneChanged
<1>17. QueuesOf(A2, s_semAdd', s_procQ') = [QueuesOf(A, s_semAdd, s_procQ) EXCEPT ![a] = q]
  BY <1>16, QueuesChanged
<1>18. BlockedOn' = [BlockedOn EXCEPT ![a] = q]
  BY <1>14, <1>17, BlockedOnNow DEF A
<1>. QED  BY <1>1, <1>14, <1>18 DEF q

------------------------------------------------------------------------------
(***************************************************************************)
(* The instance of BlockedQ has its own copies of the operators on queues; *)
(* BlockedOn is what it gets for them.                                     *)
(***************************************************************************)
LEMMA QueueOps ==
  /\ \A s : Queues!ToSet(s) = ToSet(s)
  /\ \A q : Queues!emptyProcQ(q) <=> q = <<>>
  /\ \A q, p : Queues!insertProcQ(q, p) = Append(q, p)
  /\ \A q : Queues!headProcQ(q) = headProcQ(q) /\ Queues!removeProcQ(q) = removeProcQ(q)
  /\ \A q, p : Queues!outProcQ(q, p) = outProcQ(q, p)
  /\ \A S : Queues!Cardinality(S) = Cardinality(S)
<1>1. \A s : Queues!ToSet(s) = ToSet(s)
  BY Zenon DEF Queues!ToSet, ToSet
<1>2. \A q : Queues!emptyProcQ(q) <=> q = <<>>
  BY Zenon DEF Queues!emptyProcQ
<1>3. \A q, p : Queues!insertProcQ(q, p) = Append(q, p)
  BY Zenon DEF Queues!insertProcQ
<1>4. \A q : Queues!headProcQ(q) = headProcQ(q) /\ Queues!removeProcQ(q) = removeProcQ(q)
  BY Zenon DEF Queues!headProcQ, headProcQ, Queues!removeProcQ, removeProcQ
<1>5. \A q, p : Queues!Without(q, p) = Without(q, p)
  BY Zenon DEF Queues!Without, Without, Queues!ToSet, ToSet, Queues!RemoveAt, RemoveAt
<1>6. \A q : Queues!DropNewest(q) = DropNewest(q)
  BY Zenon DEF Queues!DropNewest, DropNewest, Queues!insertProcQ, insertProcQ,
               Queues!removeProcQ, removeProcQ, Queues!headProcQ, headProcQ,
               Queues!Front, Front, Queues!mkEmptyProcQ, mkEmptyProcQ
<1>7. \A q, p : Queues!outProcQ(q, p) = outProcQ(q, p)
  BY <1>5, <1>6, Zenon DEF Queues!outProcQ, outProcQ, Queues!emptyProcQ, emptyProcQ,
                           Queues!Last, Last
<1>8. \A S : Queues!Cardinality(S) = Cardinality(S)
  BY Zenon DEF Queues!Cardinality, Cardinality, Queues!IsFiniteSet, IsFiniteSet
<1>. QED  BY <1>1, <1>2, <1>3, <1>4, <1>7, <1>8

(***************************************************************************)
(* A pcb is in a queue of BlockedQ if it is in that of a descriptor on the *)
(* ASL; and there is no room if all descriptors are there.                 *)
(***************************************************************************)
LEMMA QueuedFacts ==
  ASSUME Table, AslInv, NEW p
  PROVE  Queues!Queued(p) <=> \E d \in ToSet(ASL) : p \in ToSet(s_procQ[d])
<1>1. /\ \A d \in ToSet(ASL) : s_semAdd[d] \in Add /\ BlockedOn[s_semAdd[d]] = s_procQ[d]
      /\ \A a \in Add : (\A d \in ToSet(ASL) : s_semAdd[d] # a) => BlockedOn[a] = <<>>
  BY AslQueues
<1>2. Queues!Queued(p) <=> \E a \in Add : p \in ToSet(BlockedOn[a])
  BY QueueOps DEF Queues!Queued
<1>3. ASSUME NEW a \in Add, p \in ToSet(BlockedOn[a])
      PROVE  \E d \in ToSet(ASL) : p \in ToSet(s_procQ[d])
  <2>1. ToSet(<<>>) = {}
    BY DEF ToSet
  <2>2. PICK d \in ToSet(ASL) : s_semAdd[d] = a
    BY <1>1, <1>3, <2>1
  <2>. QED  BY <1>1, <1>3, <2>2
<1>. QED  BY <1>1, <1>2, <1>3

LEMMA TableSplit ==
  ASSUME Table, AslInv
  PROVE  /\ Len(ASL) \in Nat /\ Len(Free) \in Nat /\ Len(ASL) + Len(Free) = TableSize
         /\ semdFree_h = NULL <=> Len(Free) = 0
<1> DEFINE A == ASL  F == Free
<1>1. A \in Seq(Semd) /\ IsInjective(A)
  BY AslFacts
<1>2. /\ IsList(semdFree_h, F, s_next)
      /\ ToSet(A) \cap ToSet(F) = {} /\ ToSet(A) \cup ToSet(F) = Semd
  BY DEF AslInv, Lists
<1>3. /\ F \in Seq(Semd) /\ IsInjective(F)
      /\ semdFree_h = IF F = <<>> THEN NULL ELSE F[1]
  BY <1>2, SeqFacts DEF IsList
<1> HIDE DEF A, F
<1>4. Len(A) \in Nat /\ Len(F) \in Nat /\ (F = <<>> <=> Len(F) = 0)
  BY <1>1, <1>3
<1>5. /\ IsFiniteSet(ToSet(A)) /\ Cardinality(ToSet(A)) = Len(A)
      /\ IsFiniteSet(ToSet(F)) /\ Cardinality(ToSet(F)) = Len(F)
  BY <1>1, <1>3, LenLemma
<1>6. Cardinality(Semd) = Len(A) + Len(F)
  <2>1. Cardinality(ToSet(A) \cup ToSet(F))
          = Cardinality(ToSet(A)) + Cardinality(ToSet(F))
              - Cardinality(ToSet(A) \cap ToSet(F))
    BY <1>5, FS_Union
  <2>2. Cardinality(ToSet(A) \cap ToSet(F)) = 0
    <3>1. Cardinality({}) = 0
      BY FS_EmptySet
    <3>. QED  BY <1>2, <3>1
  <2>3. Cardinality(Semd) = Cardinality(ToSet(A)) + Cardinality(ToSet(F)) - 0
    BY <1>2, <2>1, <2>2
  <2>. QED  BY <1>4, <1>5, <2>3
<1>7. F # <<>> => F[1] # NULL
  <2>1. F # <<>> => F[1] \in Semd
    BY <1>3, <1>4
  <2>. QED  BY <2>1, TableFacts DEF NULL
<1>. QED  BY <1>3, <1>4, <1>6, <1>7, TableFacts DEF A, F

LEMMA RoomFacts ==
  ASSUME Table, AslInv, NEW a \in Add
  PROVE  Queues!NoRoom(a) <=> /\ \A d \in ToSet(ASL) : s_semAdd[d] # a
                              /\ Len(ASL) = TableSize
<1> DEFINE A == ASL  n == Len(A)
           active == {b \in Add : BlockedOn[b] # <<>>}
           at == [i \in 1 .. n |-> s_semAdd[A[i]]]
<1>1. /\ A \in Seq(Semd) /\ n \in Nat
      /\ \A i \in 1 .. n : A[i] \in ToSet(A) /\ A[i] \in Semd
      /\ \A d \in ToSet(A) : \E i \in 1 .. n : A[i] = d
      /\ \A i, j \in 1 .. n : A[i] = A[j] => i = j
  BY AslFacts
<1>2. /\ OneEach(A, s_semAdd)
      /\ \A d \in ToSet(A) : /\ s_semAdd[d] \in Add /\ BlockedOn[s_semAdd[d]] = s_procQ[d]
                             /\ s_procQ[d] # <<>>
      /\ \A b \in Add : (\A d \in ToSet(A) : s_semAdd[d] # b) => BlockedOn[b] = <<>>
  BY AslQueues
<1>3. Queues!NoRoom(a) <=> a \notin active /\ Cardinality(active) = TableSize
  BY QueueOps DEF Queues!NoRoom
<1> HIDE DEF A, n
<1>4. \A b \in Add : b \in active <=> \E d \in ToSet(A) : s_semAdd[d] = b
  BY <1>2
<1>5. at \in Seq(Add) /\ Len(at) = n
  BY <1>1, <1>2
<1>6. IsInjective(at)
  <2>1. \A i, j \in 1 .. n : at[i] = at[j] => i = j
    BY <1>1, <1>2 DEF OneEach
  <2> HIDE DEF at
  <2>. QED  BY <1>5, <2>1, SeqFacts
<1>7. ToSet(at) = active
  <2>1. \A b : b \in ToSet(at) <=> \E i \in 1 .. n : at[i] = b
    <3> HIDE DEF at
    <3>. QED  BY <1>5, SeqFacts
  <2>2. \A b : (\E i \in 1 .. n : at[i] = b) <=> \E d \in ToSet(A) : s_semAdd[d] = b
    BY <1>1
  <2>3. \A b : b \in ToSet(at) <=> b \in active
    <3>1. \A d \in ToSet(A) : s_semAdd[d] \in Add
      BY <1>2
    <3>2. active \subseteq Add
      OBVIOUS
    <3> HIDE DEF active, at
    <3>. QED  BY <1>4, <2>1, <2>2, <3>1, <3>2
  <2>. QED  BY <2>3
<1> HIDE DEF active, at
<1>8. Cardinality(active) = n
  BY <1>5, <1>6, <1>7, LenLemma
<1>. QED  BY <1>3, <1>4, <1>8 DEF A, n

------------------------------------------------------------------------------
(***************************************************************************)
(* Each function of asl.c, step by step: it keeps the invariant and does   *)
(* to the queues what BlockedQ says.                                       *)
(***************************************************************************)
LEMMA AslInitially ==
  ASSUME Table, Init
  PROVE  AslInv /\ Queues!Init
<1> DEFINE N == TableSize  F == [i \in 1 .. N |-> i]
<1>1. /\ N \in Nat \ {0} /\ Semd = 1 .. N
      /\ semd_h = NULL /\ semdFree_h = 1
      /\ s_next = [d \in Semd |-> IF d = N THEN NULL ELSE d + 1]
      /\ s_semAdd = [d \in Semd |-> NULL] /\ s_procQ = [d \in Semd |-> <<>>]
      /\ p_semAdd = [p \in Pcb |-> NULL] /\ result = NULL /\ NULL = 0
  BY TableFacts DEF Init, mkEmptyProcQ, Semd, NULL
<1> HIDE DEF N, NULL, Semd
<1>2. TypesOK
  <2>1. /\ 0 \in 0 .. MaxAdd /\ <<>> \in Seq(Pcb) /\ 1 \in Semd /\ NULL \in SemdOrNull
        /\ semdFree_h \in SemdOrNull
    BY <1>1 DEF Table, SemdOrNull
  <2>2. \A d \in Semd : d # N => d + 1 \in Semd
    BY <1>1
  <2>3. s_next \in [Semd -> SemdOrNull]
    BY <1>1, <2>2 DEF SemdOrNull
  <2>. QED  BY <1>1, <2>1, <2>3 DEF TypesOK
<1>3. F \in Seq(Semd) /\ Len(F) = N /\ \A i \in 1 .. N : F[i] = i
  BY <1>1
<1> HIDE DEF F
<1>4. IsList(semdFree_h, F, s_next)
  <2>1. F # <<>> /\ F[1] = 1
    BY <1>1, <1>3
  <2>2. \A i \in 1 .. N : i # N => i + 1 \in 1 .. N
    BY <1>1
  <2>. QED  BY <1>1, <1>3, <2>1, <2>2 DEF IsList
<1>5. IsList(semd_h, <<>>, s_next) /\ ToSet(<<>>) = {}
  BY <1>1 DEF IsList, ToSet
<1>6. ToSet(F) = Semd
  <2>1. \A x : x \in ToSet(F) <=> \E i \in 1 .. N : F[i] = x
    BY <1>3, SeqFacts
  <2>2. \A x : x \in ToSet(F) <=> x \in 1 .. N
    BY <1>3, <2>1
  <2>3. ToSet(F) = 1 .. N
    BY <2>2
  <2>. QED  BY <1>1, <2>3
<1>7. ASL = <<>> /\ Free = F
  BY <1>2, <1>4, <1>5, ListFound DEF ASL, Free, From, TypesOK
<1>8. AslInv
  BY <1>2, <1>4, <1>5, <1>6, <1>7 DEF AslInv, Lists, Ascending, Waiting
<1>9. BlockedOn = [a \in Add |-> <<>>]
  <2>1. OneEach(<<>>, s_semAdd)
    BY <1>5 DEF OneEach
  <2>2. \A a \in Add : QueuesOf(<<>>, s_semAdd, s_procQ)[a] = <<>>
    BY <1>5, <2>1, QueueAt
  <2>3. BlockedOn = QueuesOf(<<>>, s_semAdd, s_procQ)
    BY <1>7, BlockedOnNow
  <2>. QED  BY <2>2, <2>3 DEF QueuesOf
<1>. QED  BY <1>1, <1>8, <1>9, Zenon DEF Queues!Init, Queues!mkEmptyProcQ

LEMMA InsertStep ==
  ASSUME Table, AslInv, NEW a \in Add, NEW p \in Pcb, insertBlocked(a, p)
  PROVE  AslInv' /\ Queues!Block(a, p)
<1>1. a \in 0 .. MaxAdd
  BY DEF Add, Table
<1>2. /\ \A d \in ToSet(ASL) : p \notin ToSet(s_procQ[d])
      /\ ~Queues!Queued(p)
  BY QueuedFacts DEF insertBlocked
<1>3. CASE findSemd(a) = NULL
  <2>1. \A d \in ToSet(ASL) : s_semAdd[d] # a
    BY <1>1, <1>3, FindFacts
  <2>2. CASE semdFree_h = NULL /\ result' = 1 /\ UNCHANGED <<list, s_procQ, p_semAdd>>
    <3>1. AslInv' /\ BlockedOn' = BlockedOn
      BY <2>2, SameQueues DEF AslInv, TypesOK
    <3>2. Queues!NoRoom(a)
      BY <2>1, <2>2, TableSplit, RoomFacts
    <3>. QED  BY <1>2, <2>2, <3>1, <3>2 DEF Queues!Block
  <2>3. CASE /\ semdFree_h # NULL /\ result' = 0 /\ allocFree(a, p)
             /\ p_semAdd' = [p_semAdd EXCEPT ![p] = a]
    <3>1. AslInv' /\ BlockedOn' = [BlockedOn EXCEPT ![a] = Append(@, p)]
      BY <1>2, <2>1, <2>3, InsertInFree
    <3>2. ~Queues!NoRoom(a)
      BY <2>3, TableSplit, RoomFacts
    <3>3. BlockedOn' = [BlockedOn EXCEPT ![a] = Queues!insertProcQ(@, p)]
      BY <3>1, QueueOps
    <3>. QED  BY <1>2, <2>3, <3>1, <3>2, <3>3 DEF Queues!Block
  <2>. QED  BY <1>3, <2>2, <2>3 DEF insertBlocked
<1>4. CASE findSemd(a) # NULL
  <2>1. /\ findSemd(a) \in ToSet(ASL) /\ s_semAdd[findSemd(a)] = a
    BY <1>1, <1>4, FindFacts
  <2>2. /\ result' = 0 /\ p_semAdd' = [p_semAdd EXCEPT ![p] = a] /\ UNCHANGED list
        /\ s_procQ' = [s_procQ EXCEPT ![findSemd(a)] = Append(@, p)]
    BY <1>4 DEF insertBlocked, insertProcQ
  <2>3. AslInv' /\ BlockedOn' = [BlockedOn EXCEPT ![a] = Append(@, p)]
    BY <1>2, <2>1, <2>2, InsertInFound
  <2>4. ~Queues!NoRoom(a)
    BY <2>1, RoomFacts
  <2>5. BlockedOn' = [BlockedOn EXCEPT ![a] = Queues!insertProcQ(@, p)]
    BY <2>3, QueueOps
  <2>. QED  BY <1>2, <2>2, <2>3, <2>4, <2>5 DEF Queues!Block
<1>. QED  BY <1>3, <1>4

LEMMA RemoveStep ==
  ASSUME Table, AslInv, NEW a \in Add, removeBlocked(a)
  PROVE  AslInv' /\ Queues!Wake(a)
<1> DEFINE i == findSemd(a)
<1>1. a \in 0 .. MaxAdd /\ p_semAdd' = p_semAdd
  BY DEF Add, Table, removeBlocked
<1>2. CASE i = NULL
  <2>1. BlockedOn[a] = <<>>
    BY <1>1, <1>2, FindFacts, AslQueues
  <2>2. result' = NULL /\ UNCHANGED <<list, s_procQ>>
    BY <1>2 DEF removeBlocked
  <2>3. AslInv' /\ BlockedOn' = BlockedOn
    BY <1>1, <2>2, SameQueues DEF AslInv, TypesOK
  <2>. QED  BY <1>1, <2>1, <2>2, <2>3, QueueOps DEF Queues!Wake
<1>3. CASE i # NULL
  <2>1. i \in ToSet(ASL) /\ s_semAdd[i] = a
    BY <1>1, <1>3, FindFacts
  <2>2. /\ BlockedOn[a] = s_procQ[i] /\ s_procQ[i] \in Seq(Pcb)
        /\ s_procQ[i] # <<>> /\ IsInjective(s_procQ[i])
    BY <2>1, AslQueues
  <2>3. /\ result' = headProcQ(s_procQ[i])
        /\ ReleaseIfEmpty(i, removeProcQ(s_procQ[i]))
    BY <1>3 DEF removeBlocked
  <2>4. /\ removeProcQ(s_procQ[i]) \in Seq(Pcb) /\ IsInjective(removeProcQ(s_procQ[i]))
        /\ ToSet(removeProcQ(s_procQ[i])) \subseteq ToSet(s_procQ[i])
    BY <2>2, RemoveLemma DEF emptyProcQ
  <2>5. AslInv' /\ BlockedOn' = [BlockedOn EXCEPT ![a] = removeProcQ(s_procQ[i])]
    <3> HIDE DEF i
    <3>. QED  BY <1>1, <2>1, <2>3, <2>4, ReleaseStep
  <2>. QED  BY <1>1, <2>2, <2>3, <2>5, QueueOps DEF Queues!Wake
<1>. QED  BY <1>2, <1>3

LEMMA OutStep ==
  ASSUME Table, AslInv, NEW p \in Pcb, outBlocked(p)
  PROVE  AslInv' /\ Queues!Withdraw(p)
<1> DEFINE a == p_semAdd[p]  i == findSemd(a)
<1>1. a \in 0 .. MaxAdd /\ p_semAdd' = p_semAdd
  BY DEF AslInv, TypesOK, outBlocked
<1>2. CASE i = NULL
  <2>1. \A d \in ToSet(ASL) : s_semAdd[d] # a
    BY <1>1, <1>2, FindFacts
  <2>2. ~Queues!Queued(p)
    BY <2>1, AslQueues, QueuedFacts
  <2>3. result' = NULL /\ UNCHANGED <<list, s_procQ>>
    BY <1>2 DEF outBlocked
  <2>4. AslInv' /\ BlockedOn' = BlockedOn
    BY <1>1, <2>3, SameQueues DEF AslInv, TypesOK
  <2>. QED  BY <1>1, <2>2, <2>3, <2>4 DEF Queues!Withdraw
<1>3. CASE i # NULL
  <2>1. /\ i \in ToSet(ASL) /\ s_semAdd[i] = a /\ a \in Add
        /\ \A d \in ToSet(ASL) : s_semAdd[d] = a => d = i
    BY <1>1, <1>3, FindFacts
  <2>2. /\ BlockedOn[a] = s_procQ[i] /\ s_procQ[i] \in Seq(Pcb)
        /\ s_procQ[i] # <<>> /\ IsInjective(s_procQ[i])
    BY <2>1, AslQueues
  <2>3. /\ result' = IF p \in ToSet(s_procQ[i]) THEN p ELSE NULL
        /\ ReleaseIfEmpty(i, outProcQ(s_procQ[i], p))
    BY <1>3 DEF outBlocked
  <2>4. /\ outProcQ(s_procQ[i], p) \in Seq(Pcb)
        /\ IsInjective(outProcQ(s_procQ[i], p))
        /\ ToSet(outProcQ(s_procQ[i], p)) \subseteq ToSet(s_procQ[i])
    BY <2>2, OutLemma
  <2>5. AslInv' /\ BlockedOn' = [BlockedOn EXCEPT ![a] = outProcQ(s_procQ[i], p)]
    <3> HIDE DEF i
    <3>. QED  BY <1>1, <2>1, <2>3, <2>4, ReleaseStep
  <2>6. CASE p \in ToSet(s_procQ[i])
    <3>1. result' = p
      BY <2>3, <2>6
    <3>2. /\ p \in Queues!ToSet(BlockedOn[a])
          /\ BlockedOn' = [BlockedOn EXCEPT ![a] = Queues!outProcQ(@, p)]
      BY <2>2, <2>5, <2>6, QueueOps
    <3> HIDE DEF a
    <3>. QED  BY <1>1, <2>1, <2>5, <3>1, <3>2 DEF Queues!Withdraw
  <2>7. CASE p \notin ToSet(s_procQ[i])
    <3>1. outProcQ(s_procQ[i], p) = s_procQ[i]
      <4> DEFINE q == s_procQ[i]
      <4>1. q \in Seq(Pcb) /\ q # <<>> /\ p \notin ToSet(q)
        BY <2>2, <2>7
      <4> HIDE DEF q
      <4>2. Last(q) \in ToSet(q)
        <5>1. Len(q) \in 1 .. Len(q)
          BY <4>1
        <5>. QED  BY <4>1, <5>1, SeqFacts DEF Last
      <4>. QED  BY <4>1, <4>2 DEF outProcQ, Without, q
    <3>2. BlockedOn' = BlockedOn
      <4>1. BlockedOn = [b \in Add |-> BlockedOn[b]]
        BY DEF BlockedOn
      <4>. QED  BY <2>1, <2>2, <2>5, <3>1, <4>1
    <3>3. ~Queues!Queued(p)
      BY <2>1, <2>7, AslQueues, QueuedFacts
    <3>. QED  BY <1>1, <2>3, <2>5, <2>7, <3>2, <3>3 DEF Queues!Withdraw
  <2>. QED  BY <2>6, <2>7
<1>. QED  BY <1>2, <1>3

LEMMA HeadStep ==
  ASSUME Table, AslInv, NEW a \in Add, headBlocked(a)
  PROVE  AslInv' /\ Queues!Oldest(a)
<1> DEFINE i == findSemd(a)
<1>1. /\ a \in 0 .. MaxAdd /\ UNCHANGED <<list, s_procQ, p_semAdd>>
      /\ result' = IF i = NULL THEN NULL ELSE headProcQ(s_procQ[i])
  BY DEF Add, Table, headBlocked
<1>2. AslInv' /\ BlockedOn' = BlockedOn
  BY <1>1, SameQueues DEF AslInv, TypesOK
<1>3. i = NULL => BlockedOn[a] = <<>>
  BY <1>1, FindFacts, AslQueues
<1>4. i # NULL => BlockedOn[a] = s_procQ[i] /\ s_procQ[i] # <<>>
  <2> HAVE i # NULL
  <2>1. i \in ToSet(ASL) /\ s_semAdd[i] = a
    BY <1>1, FindFacts
  <2>. QED  BY <2>1, AslQueues
<1>. QED  BY <1>1, <1>2, <1>3, <1>4, QueueOps DEF Queues!Oldest

LEMMA ResetStep ==
  ASSUME Table, AslInv, NEW p \in Pcb, Reset(p)
  PROVE  AslInv' /\ Queues!Reset(p)
<1>1. /\ \A d \in ToSet(ASL) : p \notin ToSet(s_procQ[d])
      /\ p_semAdd' = [p_semAdd EXCEPT ![p] = NULL]
      /\ UNCHANGED <<list, s_procQ>> /\ result' = result
  BY DEF Reset
<1>2. /\ p_semAdd' \in [Pcb -> 0 .. MaxAdd]
      /\ \A x \in Pcb : x # p => p_semAdd'[x] = p_semAdd[x]
  BY <1>1 DEF AslInv, TypesOK, Table, NULL
<1>3. \A d \in ToSet(ASL) : ToSet(s_procQ[d]) \subseteq Pcb
  BY AslQueues, SeqFacts
<1>4. AslInv' /\ BlockedOn' = BlockedOn
  BY <1>1, <1>2, <1>3, SameQueues
<1>5. ~Queues!Queued(p)
  BY <1>1, QueuedFacts
<1>. QED  BY <1>1, <1>4, <1>5 DEF Queues!Reset

LEMMA AslStep ==
  ASSUME Table, AslInv, [Next]_vars
  PROVE  AslInv' /\ [Queues!Next]_Queues!vars
<1>1. ASSUME NEW a \in Add, removeBlocked(a)
      PROVE  AslInv' /\ Queues!Next
  BY <1>1, RemoveStep DEF Queues!Next
<1>2. ASSUME NEW a \in Add, headBlocked(a)
      PROVE  AslInv' /\ Queues!Next
  BY <1>2, HeadStep DEF Queues!Next
<1>3. ASSUME NEW a \in Add, NEW p \in Pcb, insertBlocked(a, p)
      PROVE  AslInv' /\ Queues!Next
  BY <1>3, InsertStep DEF Queues!Next
<1>4. ASSUME NEW p \in Pcb, outBlocked(p)
      PROVE  AslInv' /\ Queues!Next
  BY <1>4, OutStep DEF Queues!Next
<1>5. ASSUME NEW p \in Pcb, Reset(p)
      PROVE  AslInv' /\ Queues!Next
  BY <1>5, ResetStep DEF Queues!Next
<1>6. CASE UNCHANGED vars
  <2>1. /\ UNCHANGED <<list, s_procQ>>
        /\ p_semAdd' = p_semAdd /\ result' = result
    BY <1>6 DEF vars, list
  <2>2. AslInv' /\ BlockedOn' = BlockedOn
    BY <2>1, SameQueues DEF AslInv, TypesOK
  <2>. QED  BY <2>1, <2>2 DEF Queues!vars
<1>. QED  BY <1>1, <1>2, <1>3, <1>4, <1>5, <1>6 DEF Next

(***************************************************************************)
(* The links of asl.c always form the two lists.                           *)
(***************************************************************************)
THEOREM AslInvariant == ASSUME Table PROVE Spec => []AslInv
<1>1. Init => AslInv
  BY AslInitially
<1>2. AslInv /\ [Next]_vars => AslInv'
  BY AslStep
<1>. QED  BY <1>1, <1>2, PTL DEF Spec

(***************************************************************************)
(* The addresses on the ASL ascend, no descriptor is lost or on both       *)
(* lists, and none on the ASL has nobody waiting.                          *)
(***************************************************************************)
THEOREM AslStaysSorted == ASSUME Table PROVE Spec => []AslSorted
<1>1. ASSUME AslInv
      PROVE  AslSorted
  <2>1. /\ DOMAIN ASL = 1 .. Len(ASL)
        /\ \A i, j \in 1 .. Len(ASL) : i < j => s_semAdd[ASL[i]] < s_semAdd[ASL[j]]
    BY <1>1, AslFacts
  <2>2. Len(ASL) + Len(From(semdFree_h)) = TableSize
    BY <1>1, TableSplit DEF Free
  <2>3. ToSet(ASL) \cup ToSet(From(semdFree_h)) = Semd
    BY <1>1 DEF AslInv, Lists, Free
  <2>4. \A d \in ToSet(ASL) : ~emptyProcQ(s_procQ[d])
    BY <1>1 DEF AslInv, Waiting, emptyProcQ
  <2>. QED  BY <2>1, <2>2, <2>3, <2>4 DEF AslSorted
<1>. QED  BY <1>1, AslInvariant, PTL

(***************************************************************************)
(* insertBlocked, removeBlocked, outBlocked and headBlocked do to the      *)
(* queues what BlockedQ says, returned value included.                     *)
(***************************************************************************)
THEOREM AslImplementsQueues == ASSUME Table PROVE Spec => ImplementsBlockedQ
<1>1. Init => Queues!Init
  BY AslInitially
<1>2. AslInv /\ [Next]_vars => [Queues!Next]_Queues!vars
  BY AslStep
<1>. QED  BY <1>1, <1>2, AslInvariant, PTL DEF Spec, ImplementsBlockedQ, Queues!Spec
==============================================================================
