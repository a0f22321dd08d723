----------------------------- MODULE ProcQProofs -----------------------------
(***************************************************************************)
(* What each operator of ProcQ does to the elements of a queue without     *)
(* duplicates: the facts about queues the proofs about the nucleus cite.   *)
(***************************************************************************)
EXTENDS ProcQ, Links, TLAPS, FiniteSetTheorems, WellFoundedInduction

(***************************************************************************)
(* ToSet and IsInjective by positions.                                     *)
(***************************************************************************)
LEMMA SeqFacts ==
  ASSUME NEW S, NEW q \in Seq(S)
  PROVE  /\ DOMAIN q = 1 .. Len(q) /\ Len(q) \in Nat
         /\ ToSet(q) \subseteq S
         /\ \A x : x \in ToSet(q) <=> \E i \in 1 .. Len(q) : q[i] = x
         /\ IsInjective(q) <=> \A i, j \in 1 .. Len(q) : q[i] = q[j] => i = j
         /\ ToSet(q) = {} <=> q = <<>>
<1>1. DOMAIN q = 1 .. Len(q) /\ Len(q) \in Nat /\ ToSet(q) \subseteq S
  BY DEF ToSet
<1>2. \A x : x \in ToSet(q) <=> \E i \in 1 .. Len(q) : q[i] = x
  BY <1>1 DEF ToSet
<1>3. IsInjective(q) <=> \A i, j \in 1 .. Len(q) : q[i] = q[j] => i = j
  BY <1>1 DEF IsInjective
<1>4. ToSet(q) = {} <=> q = <<>>
  <2>1. ASSUME ToSet(q) = {}  PROVE q = <<>>
    <3>1. 1 \notin 1 .. Len(q)
      BY <1>2, <2>1
    <3>. QED  BY <1>1, <3>1
  <2>2. ASSUME q = <<>>  PROVE ToSet(q) = {}
    BY <2>2 DEF ToSet
  <2>. QED  BY <2>1, <2>2
<1>. QED  BY <1>1, <1>2, <1>3, <1>4

(***************************************************************************)
(* insertProcQ adds one element at the end, once if it was not there.      *)
(***************************************************************************)
LEMMA InsertLemma ==
  ASSUME NEW S, NEW q \in Seq(S), NEW p \in S
  PROVE  /\ insertProcQ(q, p) \in Seq(S)
         /\ insertProcQ(q, p) # <<>>
         /\ Len(insertProcQ(q, p)) = Len(q) + 1
         /\ ToSet(insertProcQ(q, p)) = ToSet(q) \cup {p}
         /\ IsInjective(q) /\ p \notin ToSet(q) => IsInjective(insertProcQ(q, p))
<1> DEFINE a == Append(q, p)
<1>1. /\ a \in Seq(S)
      /\ Len(a) = Len(q) + 1
      /\ \A k \in 1 .. Len(q) : a[k] = q[k]
      /\ a[Len(q) + 1] = p
      /\ DOMAIN a = 1 .. Len(q) + 1
      /\ DOMAIN q = 1 .. Len(q)
  OBVIOUS
<1>2. insertProcQ(q, p) = a
  BY DEF insertProcQ
<1> HIDE DEF a
<1>3. ToSet(a) = ToSet(q) \cup {p}
  <2>1. ToSet(a) \subseteq ToSet(q) \cup {p}
    BY <1>1 DEF ToSet
  <2>2. ToSet(q) \subseteq ToSet(a) /\ p \in ToSet(a)
    BY <1>1 DEF ToSet
  <2>. QED  BY <2>1, <2>2
<1>4. IsInjective(q) /\ p \notin ToSet(q) => IsInjective(a)
  BY <1>1 DEF ToSet, IsInjective
<1>. QED  BY <1>1, <1>2, <1>3, <1>4

(***************************************************************************)
(* headProcQ and removeProcQ split a queue that is not empty.              *)
(***************************************************************************)
LEMMA RemoveLemma ==
  ASSUME NEW S, NEW q \in Seq(S), ~emptyProcQ(q)
  PROVE  /\ headProcQ(q) \in S
         /\ headProcQ(q) \in ToSet(q)
         /\ removeProcQ(q) \in Seq(S)
         /\ Len(removeProcQ(q)) = Len(q) - 1
         /\ ToSet(q) = ToSet(removeProcQ(q)) \cup {headProcQ(q)}
         /\ IsInjective(q) => /\ IsInjective(removeProcQ(q))
                              /\ headProcQ(q) \notin ToSet(removeProcQ(q))
<1> DEFINE h == Head(q)  t == Tail(q)
<1>1. /\ h \in S /\ t \in Seq(S)
      /\ Len(q) \in Nat \ {0} /\ Len(t) = Len(q) - 1
      /\ h = q[1]
      /\ \A k \in 1 .. Len(t) : t[k] = q[k+1]
      /\ DOMAIN t = 1 .. Len(t)
      /\ DOMAIN q = 1 .. Len(q)
  BY DEF emptyProcQ
<1>2. headProcQ(q) = h /\ removeProcQ(q) = t
  BY DEF headProcQ, removeProcQ
<1> HIDE DEF h, t
<1>3. ToSet(q) = ToSet(t) \cup {h}
  <2>1. \A k \in 1 .. Len(q) : k = 1 \/ (k - 1 \in 1 .. Len(t) /\ t[k-1] = q[k])
    BY <1>1
  <2>2. ToSet(q) \subseteq ToSet(t) \cup {h}
    BY <1>1, <2>1 DEF ToSet
  <2>3. ToSet(t) \subseteq ToSet(q) /\ h \in ToSet(q)
    BY <1>1 DEF ToSet
  <2>. QED  BY <2>2, <2>3
<1>4. ASSUME IsInjective(q)
      PROVE  IsInjective(t) /\ h \notin ToSet(t)
  <2>1. /\ \A i, j \in 1 .. Len(q) : q[i] = q[j] => i = j
        /\ 1 \in 1 .. Len(q)
        /\ \A i \in 1 .. Len(t) : i + 1 \in 1 .. Len(q) /\ i + 1 # 1
    <3>1. \A i, j \in 1 .. Len(q) : q[i] = q[j] => i = j
      BY <1>4, SeqFacts
    <3> DEFINE n == Len(q)  m == Len(t)
    <3>2. n \in Nat \ {0} /\ m = n - 1
      BY <1>1
    <3> HIDE DEF n, m
    <3>3. 1 \in 1 .. n /\ \A i \in 1 .. m : i + 1 \in 1 .. n /\ i + 1 # 1
      BY <3>2
    <3>. QED  BY <3>1, <3>3 DEF n, m
  <2>2. \A i, j \in 1 .. Len(t) : t[i] = t[j] => i = j
    BY <1>1, <2>1
  <2>3. \A i \in 1 .. Len(t) : t[i] # h
    BY <1>1, <2>1
  <2>. QED  BY <1>1, <2>2, <2>3, SeqFacts
<1>. QED  BY <1>1, <1>2, <1>3, <1>4

(***************************************************************************)
(* Two queues with no common element, one after the other.                 *)
(***************************************************************************)
LEMMA ConcatLemma ==
  ASSUME NEW S, NEW q \in Seq(S), NEW r \in Seq(S)
  PROVE  /\ q \o r \in Seq(S)
         /\ Len(q \o r) = Len(q) + Len(r)
         /\ ToSet(q \o r) = ToSet(q) \cup ToSet(r)
         /\ IsInjective(q) /\ IsInjective(r) /\ ToSet(q) \cap ToSet(r) = {}
              => IsInjective(q \o r)
<1> DEFINE c == q \o r
<1>1. /\ c \in Seq(S)
      /\ Len(q) \in Nat /\ Len(r) \in Nat /\ Len(c) = Len(q) + Len(r)
      /\ \A k \in 1 .. Len(q) : c[k] = q[k]
      /\ \A k \in 1 .. Len(r) : c[Len(q) + k] = r[k]
      /\ DOMAIN c = 1 .. Len(c)
      /\ DOMAIN q = 1 .. Len(q)
      /\ DOMAIN r = 1 .. Len(r)
  OBVIOUS
<1> HIDE DEF c
<1>2. \A k \in 1 .. Len(c) :
        k \in 1 .. Len(q) \/ (k - Len(q) \in 1 .. Len(r) /\ c[k] = r[k - Len(q)])
  <2> DEFINE n == Len(q)  m == Len(r)
  <2>1. n \in Nat /\ m \in Nat /\ Len(c) = n + m
    BY <1>1
  <2> HIDE DEF n, m
  <2> SUFFICES ASSUME NEW k \in 1 .. n + m, k \notin 1 .. n
               PROVE  k - n \in 1 .. m /\ c[k] = r[k - n]
    BY <2>1 DEF n, m
  <2>2. k - n \in 1 .. m /\ n + (k - n) = k
    BY <2>1
  <2>3. c[n + (k - n)] = r[k - n]
    BY <1>1, <2>2 DEF n, m
  <2>. QED  BY <2>2, <2>3
<1>3. ToSet(c) = ToSet(q) \cup ToSet(r)
  <2>1. ToSet(c) \subseteq ToSet(q) \cup ToSet(r)
    <3>1. \A k \in 1 .. Len(c) : c[k] \in ToSet(q) \/ c[k] \in ToSet(r)
      BY <1>1, <1>2 DEF ToSet
    <3>2. \A x \in ToSet(c) : \E k \in 1 .. Len(c) : c[k] = x
      BY <1>1 DEF ToSet
    <3>. QED  BY <3>1, <3>2
  <2>2. ToSet(q) \subseteq ToSet(c)
    BY <1>1 DEF ToSet
  <2>3. \A k \in 1 .. Len(r) : Len(q) + k \in 1 .. Len(c)
    BY <1>1
  <2>4. ToSet(r) \subseteq ToSet(c)
    BY <1>1, <2>3 DEF ToSet
  <2>. QED  BY <2>1, <2>2, <2>4
<1>4. ASSUME IsInjective(q), IsInjective(r), ToSet(q) \cap ToSet(r) = {}
      PROVE  IsInjective(c)
  <2>1. \A i \in 1 .. Len(q), j \in 1 .. Len(r) : q[i] # r[j]
    BY <1>1, <1>4 DEF ToSet
  <2>2. /\ \A i, j \in 1 .. Len(q) : q[i] = q[j] => i = j
        /\ \A i, j \in 1 .. Len(r) : r[i] = r[j] => i = j
    <3>1. \A i, j \in 1 .. Len(q) : q[i] = q[j] => i = j
      BY <1>4, SeqFacts
    <3>2. \A i, j \in 1 .. Len(r) : r[i] = r[j] => i = j
      BY <1>4, SeqFacts
    <3>. QED  BY <3>1, <3>2
  <2>3. ASSUME NEW i \in 1 .. Len(c), NEW j \in 1 .. Len(c), c[i] = c[j]
        PROVE  i = j
    <3> DEFINE n == Len(q)  m == Len(r)
    <3>1. n \in Nat /\ m \in Nat /\ i \in Int /\ j \in Int
      BY <1>1
    <3>2. /\ i \in 1 .. n \/ (i - n \in 1 .. m /\ c[i] = r[i - n])
          /\ j \in 1 .. n \/ (j - n \in 1 .. m /\ c[j] = r[j - n])
          /\ i \in 1 .. n => c[i] = q[i]
          /\ j \in 1 .. n => c[j] = q[j]
      BY <1>1, <1>2
    <3> HIDE DEF n, m
    <3>3. CASE i \in 1 .. n /\ j \in 1 .. n
      BY <2>2, <2>3, <3>2, <3>3 DEF n
    <3>4. CASE i \notin 1 .. n /\ j \notin 1 .. n
      <4>1. i - n = j - n
        BY <2>2, <2>3, <3>2, <3>4 DEF m
      <4>. QED  BY <3>1, <4>1
    <3>5. CASE i \in 1 .. n /\ j \notin 1 .. n
      BY <2>1, <2>3, <3>2, <3>5 DEF n, m
    <3>6. CASE i \notin 1 .. n /\ j \in 1 .. n
      BY <2>1, <2>3, <3>2, <3>6 DEF n, m
    <3>. QED  BY <3>3, <3>4, <3>5, <3>6
  <2>. QED  BY <1>1, <2>3, SeqFacts
<1>. QED  BY <1>1, <1>3, <1>4 DEF c

(***************************************************************************)
(* Without the element at a position: those behind it move up.             *)
(***************************************************************************)
LEMMA WithoutAt ==
  ASSUME NEW S, NEW q \in Seq(S), IsInjective(q), NEW i \in 1 .. Len(q)
  PROVE  /\ Without(q, q[i]) \in Seq(S)
         /\ Len(Without(q, q[i])) = Len(q) - 1
         /\ \A k \in 1 .. Len(q) - 1 :
              Without(q, q[i])[k] = IF k < i THEN q[k] ELSE q[k+1]
<1> DEFINE w == RemoveAt(q, i)
           u == SubSeq(q, 1, i-1)
           v == SubSeq(q, i+1, Len(q))
<1>1. Without(q, q[i]) = w
  <2>1. q[i] \in ToSet(q) /\ \A k \in DOMAIN q : q[k] = q[i] => k = i
    BY DEF ToSet, IsInjective
  <2>2. (CHOOSE k \in DOMAIN q : q[k] = q[i]) = i
    BY <2>1
  <2>. QED  BY <2>1, <2>2 DEF Without
<1>2. /\ u \in Seq(S) /\ Len(u) = i - 1
      /\ \A k \in 1 .. i-1 : u[k] = q[k]
  OBVIOUS
<1>3. /\ v \in Seq(S) /\ Len(v) = Len(q) - i
      /\ \A k \in 1 .. Len(q) - i : v[k] = q[i + k]
  OBVIOUS
<1>4. w = u \o v
  BY DEF RemoveAt
<1> HIDE DEF u, v, w
<1>5. w \in Seq(S) /\ Len(w) = Len(q) - 1
  <2>1. w \in Seq(S) /\ Len(w) = Len(u) + Len(v)
    BY <1>2, <1>3, <1>4, ConcatLemma
  <2>. QED  BY <2>1, <1>2, <1>3
<1>6. \A k \in 1 .. Len(w) : k < i => w[k] = q[k]
  BY <1>2, <1>3, <1>4, <1>5
<1>7. ASSUME NEW k \in 1 .. Len(w), ~(k < i)
      PROVE  w[k] = q[k+1]
  <2>1. w[k] = v[k - (i - 1)]
    BY <1>2, <1>3, <1>4, <1>5, <1>7
  <2>2. k - (i - 1) \in 1 .. Len(q) - i /\ i + (k - (i - 1)) = k + 1
    BY <1>5, <1>7
  <2>3. v[k - (i - 1)] = q[i + (k - (i - 1))]
    BY <2>2, <1>3
  <2>. QED  BY <2>1, <2>2, <2>3
<1>. QED  BY <1>1, <1>5, <1>6, <1>7

(***************************************************************************)
(* Without takes out p and nothing else.                                   *)
(***************************************************************************)
LEMMA WithoutLemma ==
  ASSUME NEW S, NEW q \in Seq(S), NEW p, IsInjective(q)
  PROVE  /\ Without(q, p) \in Seq(S)
         /\ IsInjective(Without(q, p))
         /\ ToSet(Without(q, p)) = ToSet(q) \ {p}
         /\ Len(Without(q, p)) = IF p \in ToSet(q) THEN Len(q) - 1 ELSE Len(q)
<1>1. CASE p \notin ToSet(q)
  BY <1>1 DEF Without, ToSet
<1>2. CASE p \in ToSet(q)
  <2> DEFINE i == CHOOSE k \in DOMAIN q : q[k] = p
             w == RemoveAt(q, i)
  <2>1. i \in 1 .. Len(q) /\ q[i] = p
    BY <1>2 DEF ToSet
  <2>2. Without(q, p) = w
    BY <1>2 DEF Without
  <2> HIDE DEF i
  <2>3. /\ w \in Seq(S)
        /\ Len(w) = Len(q) - 1
        /\ \A k \in 1 .. Len(w) : w[k] = IF k < i THEN q[k] ELSE q[k+1]
    <3>1. w = Without(q, q[i])
      BY <2>1, <2>2
    <3>. QED  BY <2>1, <3>1, WithoutAt
  <2> HIDE DEF w
  <2>4. IsInjective(w)
    <3>1. \A k, m \in 1 .. Len(q) : q[k] = q[m] => k = m
      BY SeqFacts
    <3>2. \A k, m \in 1 .. Len(w) : w[k] = w[m] => k = m
      BY <2>1, <2>3, <3>1
    <3>. QED  BY <2>3, <3>2, SeqFacts
  <2>5. ToSet(w) = ToSet(q) \ {p}
    <3>0. /\ \A k, m \in 1 .. Len(q) : q[k] = q[m] => k = m
          /\ \A x : x \in ToSet(q) <=> \E k \in 1 .. Len(q) : q[k] = x
          /\ \A x : x \in ToSet(w) <=> \E k \in 1 .. Len(w) : w[k] = x
      BY <2>3, SeqFacts
    <3>1. \A k \in 1 .. Len(w) : w[k] \in ToSet(q) \ {p}
      BY <2>1, <2>3, <3>0
    <3>2. ASSUME NEW k \in 1 .. Len(q), q[k] # p
          PROVE  \E m \in 1 .. Len(w) : w[m] = q[k]
      <4>1. CASE k < i
        BY <4>1, <2>1, <2>3
      <4>2. CASE k > i
        <5>1. k - 1 \in 1 .. Len(w) /\ w[k-1] = q[k]
          BY <4>2, <2>1, <2>3
        <5>. QED  BY <5>1
      <4>. QED  BY <4>1, <4>2, <3>2, <2>1
    <3>. QED  BY <3>0, <3>1, <3>2
  <2>. QED  BY <1>2, <2>2, <2>3, <2>4, <2>5
<1>. QED  BY <1>1, <1>2

(***************************************************************************)
(* Front: all elements but the last.                                       *)
(***************************************************************************)
LEMMA FrontLemma ==
  ASSUME NEW S, NEW q \in Seq(S), Len(q) # 0
  PROVE  /\ Front(q) \in Seq(S)
         /\ Len(Front(q)) = Len(q) - 1
         /\ \A k \in 1 .. Len(q) - 1 : Front(q)[k] = q[k]
<1>1. Front(q) = SubSeq(q, 1, Len(q) - 1)
  BY DEF Front
<1> DEFINE n == Len(q)  m == n - 1
<1>2. n \in Nat /\ n # 0
  OBVIOUS
<1> HIDE DEF n
<1>3. m \in Nat /\ m <= n /\ (m # 0 => m \in 1 .. n)
  BY <1>2
<1> HIDE DEF m
<1>4. CASE m = 0
  <2>1. SubSeq(q, 1, 0) = <<>>
    OBVIOUS
  <2>. QED  BY <1>1, <1>4, <2>1 DEF m, n
<1>5. CASE m # 0
  <2>1. m \in 1 .. Len(q)
    BY <1>3, <1>5 DEF n
  <2>2. /\ SubSeq(q, 1, m) \in Seq(S)
        /\ Len(SubSeq(q, 1, m)) = m
        /\ \A k \in 1 .. m : SubSeq(q, 1, m)[k] = q[k]
    BY <2>1
  <2>. QED  BY <1>1, <2>2 DEF m, n
<1>. QED  BY <1>4, <1>5

(***************************************************************************)
(* DropNewest: the oldest element becomes the newest.                      *)
(***************************************************************************)
LEMMA DropAt ==
  ASSUME NEW S, NEW q \in Seq(S), Len(q) > 1
  PROVE  /\ DropNewest(q) \in Seq(S)
         /\ Len(DropNewest(q)) = Len(q) - 1
         /\ \A k \in 1 .. Len(q) - 1 :
              DropNewest(q)[k] = IF k < Len(q) - 1 THEN q[k+1] ELSE q[1]
<1> DEFINE rest == Front(q)  n == Len(q)
<1>1. n \in Nat /\ n > 1
  OBVIOUS
<1>0. n # 1
  <2> HIDE DEF n
  <2>. QED  BY <1>1
<1>2. /\ rest \in Seq(S) /\ Len(rest) = n - 1
      /\ \A k \in 1 .. n - 1 : rest[k] = q[k]
  BY <1>1, FrontLemma
<1>3. DropNewest(q) = Append(Tail(rest), Head(rest))
  BY <1>0, Zenon DEF DropNewest, insertProcQ, removeProcQ, headProcQ
<1> HIDE DEF rest, n
<1>4. /\ Head(rest) = q[1] /\ Head(rest) \in S
      /\ Tail(rest) \in Seq(S) /\ Len(Tail(rest)) = n - 2
      /\ \A k \in 1 .. n - 2 : Tail(rest)[k] = rest[k+1]
  BY <1>1, <1>2
<1> DEFINE t == Tail(rest)  h == Head(rest)
<1>5. /\ Append(t, h) \in Seq(S) /\ Len(Append(t, h)) = n - 1
      /\ \A k \in 1 .. n - 2 : Append(t, h)[k] = t[k]
      /\ Append(t, h)[n - 1] = h
  <2>1. t \in Seq(S) /\ h \in S /\ Len(t) = n - 2
    BY <1>4
  <2> HIDE DEF t, h
  <2>2. /\ Append(t, h) \in Seq(S) /\ Len(Append(t, h)) = Len(t) + 1
        /\ \A k \in 1 .. Len(t) : Append(t, h)[k] = t[k]
        /\ Append(t, h)[Len(t) + 1] = h
    BY <2>1
  <2>3. (n - 2) + 1 = n - 1
    BY <1>1
  <2>. QED  BY <2>1, <2>2, <2>3
<1> HIDE DEF t, h
<1>6. ASSUME NEW k \in 1 .. n - 1
      PROVE  Append(t, h)[k] = IF k < n - 1 THEN q[k+1] ELSE q[1]
  <2>1. CASE k < n - 1
    <3>1. k \in 1 .. n - 2 /\ k + 1 \in 1 .. n - 1
      BY <1>1, <2>1
    <3>2. Append(t, h)[k] = rest[k+1]
      BY <3>1, <1>4, <1>5 DEF t
    <3>. QED  BY <3>1, <3>2, <2>1, <1>2
  <2>2. CASE ~(k < n - 1)
    <3>1. k = n - 1
      BY <1>1, <2>2
    <3>. QED  BY <3>1, <2>2, <1>4, <1>5 DEF h
  <2>. QED  BY <2>1, <2>2
<1>. QED  BY <1>3, <1>5, <1>6 DEF n, t, h

(***************************************************************************)
(* outProcQ takes out p and nothing else, whatever it does to the order.   *)
(***************************************************************************)
LEMMA OutLemma ==
  ASSUME NEW S, NEW q \in Seq(S), NEW p, IsInjective(q)
  PROVE  /\ outProcQ(q, p) \in Seq(S)
         /\ IsInjective(outProcQ(q, p))
         /\ ToSet(outProcQ(q, p)) = ToSet(q) \ {p}
         /\ Len(outProcQ(q, p)) = IF p \in ToSet(q) THEN Len(q) - 1 ELSE Len(q)
<1>1. CASE emptyProcQ(q) \/ Last(q) # p
  BY <1>1, WithoutLemma DEF outProcQ
<1>2. CASE ~emptyProcQ(q) /\ Last(q) = p
  <2>1. Len(q) \in Nat \ {0} /\ p \in ToSet(q) /\ p = q[Len(q)]
    BY <1>2 DEF emptyProcQ, Last, ToSet
  <2>2. outProcQ(q, p) = DropNewest(q)
    BY <1>2 DEF outProcQ
  <2>3. CASE Len(q) = 1
    BY <2>1, <2>2, <2>3 DEF DropNewest, mkEmptyProcQ, ToSet, IsInjective
  <2>4. CASE Len(q) # 1
    <3> DEFINE rest == Front(q)
    <3>1. /\ rest \in Seq(S)
          /\ Len(rest) = Len(q) - 1
          /\ \A k \in 1 .. Len(rest) : rest[k] = q[k]
      BY <2>1, FrontLemma
    <3>2. DropNewest(q) = insertProcQ(removeProcQ(rest), headProcQ(rest))
      BY <2>4 DEF DropNewest
    <3> HIDE DEF rest
    <3>3. IsInjective(rest) /\ ToSet(rest) = ToSet(q) \ {p} /\ ~emptyProcQ(rest)
      <4>1. /\ \A k, m \in 1 .. Len(q) : q[k] = q[m] => k = m
            /\ \A x : x \in ToSet(q) <=> \E k \in 1 .. Len(q) : q[k] = x
            /\ \A x : x \in ToSet(rest) <=> \E k \in 1 .. Len(rest) : rest[k] = x
        BY <3>1, SeqFacts
      <4>2. \A k, m \in 1 .. Len(rest) : rest[k] = rest[m] => k = m
        BY <3>1, <2>1, <4>1
      <4>3. ToSet(rest) \subseteq ToSet(q) \ {p}
        BY <3>1, <2>1, <4>1
      <4>4. \A k \in 1 .. Len(q) : k # Len(q) => k \in 1 .. Len(rest)
        BY <3>1, <2>1
      <4>5. ToSet(q) \ {p} \subseteq ToSet(rest)
        BY <3>1, <2>1, <4>1, <4>4
      <4>6. Len(rest) # 0
        BY <3>1, <2>1, <2>4
      <4>7. IsInjective(rest)
        BY <3>1, <4>2, SeqFacts
      <4>8. ~emptyProcQ(rest)
        BY <4>6 DEF emptyProcQ
      <4>. QED  BY <4>3, <4>5, <4>7, <4>8
    <3>4. /\ headProcQ(rest) \in S
          /\ removeProcQ(rest) \in Seq(S)
          /\ Len(removeProcQ(rest)) = Len(rest) - 1
          /\ ToSet(rest) = ToSet(removeProcQ(rest)) \cup {headProcQ(rest)}
          /\ IsInjective(removeProcQ(rest))
          /\ headProcQ(rest) \notin ToSet(removeProcQ(rest))
      BY <3>1, <3>3, RemoveLemma
    <3>5. /\ DropNewest(q) \in Seq(S)
          /\ IsInjective(DropNewest(q))
          /\ ToSet(DropNewest(q)) = ToSet(rest)
          /\ Len(DropNewest(q)) = Len(rest)
      <4> DEFINE t == removeProcQ(rest)  h == headProcQ(rest)
      <4>1. /\ t \in Seq(S) /\ h \in S /\ IsInjective(t) /\ h \notin ToSet(t)
            /\ DropNewest(q) = insertProcQ(t, h)
            /\ ToSet(rest) = ToSet(t) \cup {h} /\ Len(t) = Len(rest) - 1
        BY <3>2, <3>4
      <4> HIDE DEF t, h
      <4>2. /\ insertProcQ(t, h) \in Seq(S)
            /\ Len(insertProcQ(t, h)) = Len(t) + 1
            /\ ToSet(insertProcQ(t, h)) = ToSet(t) \cup {h}
            /\ IsInjective(insertProcQ(t, h))
        <5>1. t \in Seq(S) /\ h \in S /\ IsInjective(t) /\ h \notin ToSet(t)
          BY <4>1
        <5>. QED  BY <5>1, InsertLemma
      <4>. QED  BY <3>1, <4>1, <4>2
    <3>. QED  BY <3>1, <3>3, <3>5, <2>1, <2>2
  <2>. QED  BY <2>3, <2>4
<1>. QED  BY <1>1, <1>2

(***************************************************************************)
(* A set of natural numbers that is not empty has a smallest member: the   *)
(* form of induction used below.                                           *)
(***************************************************************************)
LEMMA LeastLemma ==
  ASSUME NEW T \in SUBSET Nat, T # {}
  PROVE  \E m \in T : \A k \in T : m <= k
<1>1. PICK m \in T : \A k \in T : ~(<<k, m>> \in OpToRel(<, Nat))
  BY WFMin, NatLessThanWellFounded
<1>2. \A k \in T : ~(k < m)
  BY <1>1 DEF OpToRel
<1>3. \A k \in T : m <= k
  BY <1>2
<1>. QED  BY <1>3

(***************************************************************************)
(* A sequence without duplicates has as many positions as elements.        *)
(***************************************************************************)
LEMMA LenLemma ==
  ASSUME NEW S, NEW q \in Seq(S), IsInjective(q)
  PROVE  IsFiniteSet(ToSet(q)) /\ Cardinality(ToSet(q)) = Len(q)
<1>1. q \in Bijection(1 .. Len(q), ToSet(q))
  <2>1. q \in [1 .. Len(q) -> ToSet(q)]
    BY DEF ToSet
  <2>2. \A i, j \in 1 .. Len(q) : q[i] = q[j] => i = j
    BY SeqFacts
  <2>3. \A x \in ToSet(q) : \E i \in 1 .. Len(q) : q[i] = x
    BY SeqFacts
  <2>. QED  BY <2>1, <2>2, <2>3 DEF Bijection, Injection, Surjection, IsInjective
<1>2. ExistsBijection(1 .. Len(q), ToSet(q))
  BY <1>1 DEF ExistsBijection
<1>. QED  BY <1>2, FS_CountingElements, FS_NatBijection, FS_CardinalityType

(***************************************************************************)
(* Walk finds the sequence that is threaded through the links.             *)
(***************************************************************************)
Threaded(link, x, stop, s) ==
  /\ s \in Seq(DOMAIN link)
  /\ \A i, j \in 1 .. Len(s) : s[i] = s[j] => i = j
  /\ x = IF s = <<>> THEN 0 ELSE s[1]
  /\ \A i \in 1 .. Len(s) - 1 : s[i] # stop /\ link[s[i]] = s[i+1]
  /\ s # <<>> => s[Len(s)] = stop \/ link[s[Len(s)]] = 0

LEMMA WalkLemma ==
  ASSUME NEW link, NEW x, NEW stop, NEW s,
         IsFiniteSet(DOMAIN link), 0 \notin DOMAIN link,
         Threaded(link, x, stop, s)
  PROVE  Walk(link, x, stop) = s
<1> DEFINE C == DOMAIN link
<1>0. /\ s \in Seq(C) /\ IsFiniteSet(C) /\ 0 \notin C
      /\ \A i, j \in 1 .. Len(s) : s[i] = s[j] => i = j
      /\ x = IF s = <<>> THEN 0 ELSE s[1]
      /\ \A i \in 1 .. Len(s) - 1 : s[i] # stop /\ link[s[i]] = s[i+1]
      /\ s # <<>> => s[Len(s)] = stop \/ link[s[Len(s)]] = 0
  BY DEF Threaded
<1>i. IsInjective(s)
  BY <1>0, SeqFacts
<1> DEFINE n == Cardinality(C)
           m == Len(s)
           Step(at, i) == IF i = 1 THEN x
                          ELSE IF at[i-1] \in {0, stop} THEN 0
                          ELSE link[at[i-1]]
           want == [i \in 1 .. n |-> IF i <= m THEN s[i] ELSE 0]
<1> HIDE DEF C
<1>1. m \in Nat /\ n \in Nat /\ m <= n
  <2>1. ToSet(s) \subseteq C
    BY <1>0, SeqFacts
  <2>. QED  BY <1>0, <1>i, <2>1, LenLemma, FS_Subset, FS_CardinalityType
<1>2. /\ \A i \in 1 .. m : s[i] \in C
      /\ s = <<>> <=> m = 0
  BY <1>0
<1> HIDE DEF n, m
<1>3. \A i \in 1 .. n : want[i] = Step(want, i)
  <2> SUFFICES ASSUME NEW i \in 1 .. n
               PROVE  want[i] = Step(want, i)
    OBVIOUS
  <2>1. CASE i = 1
    BY <1>0, <1>1, <1>2, <2>1
  <2>2. CASE i # 1 /\ i <= m
    <3>1. i - 1 \in 1 .. m - 1 /\ i - 1 \in 1 .. n /\ i - 1 <= m /\ (i - 1) + 1 = i
      BY <1>1, <2>2
    <3>2. want[i - 1] = s[i - 1] /\ s[i - 1] # stop /\ s[i - 1] # 0
      BY <1>0, <1>1, <1>2, <3>1 DEF m
    <3>3. link[s[i - 1]] = s[i]
      BY <1>0, <3>1 DEF m
    <3>. QED  BY <2>2, <3>2, <3>3
  <2>3. CASE i # 1 /\ i - 1 = m
    <3>1. m # 0 /\ s # <<>> /\ m \in 1 .. n
      BY <1>1, <1>2, <2>3
    <3>2. want[m] = s[m] /\ want[i] = 0
      BY <1>1, <2>3, <3>1
    <3>3. s[m] = stop \/ link[s[m]] = 0
      BY <1>0, <3>1 DEF m
    <3>. QED  BY <2>3, <3>2, <3>3
  <2>4. CASE i # 1 /\ i - 1 > m
    <3>1. i - 1 \in 1 .. n /\ ~(i - 1 <= m) /\ ~(i <= m)
      BY <1>1, <2>4
    <3>2. want[i - 1] = 0 /\ want[i] = 0
      BY <3>1
    <3>. QED  BY <2>4, <3>2
  <2>. QED  BY <1>1, <2>1, <2>2, <2>3, <2>4
<1>4. ASSUME NEW at, at = [i \in 1 .. n |-> Step(at, i)]
      PROVE  at = want
  <2>1. \A i \in 1 .. n : at[i] = Step(at, i)
    BY <1>4
  <2> DEFINE Bad == {i \in 1 .. n : at[i] # want[i]}
  <2>2. Bad = {}
    <3> SUFFICES ASSUME Bad # {}  PROVE FALSE
      OBVIOUS
    <3>1. PICK i \in Bad : \A k \in Bad : i <= k
      <4>1. 1 .. n \subseteq Nat
        BY <1>1
      <4>2. Bad \subseteq 1 .. n
        OBVIOUS
      <4> HIDE DEF Bad
      <4>. QED  BY <4>1, <4>2, LeastLemma
    <3>2. CASE i = 1
      BY <2>1, <1>3, <3>1, <3>2
    <3>3. CASE i # 1
      <4>1. i - 1 \in 1 .. n /\ i - 1 < i
        BY <1>1, <3>3
      <4>2. at[i - 1] = want[i - 1]
        BY <3>1, <4>1
      <4>3. Step(at, i) = Step(want, i)
        BY <4>2
      <4>. QED  BY <2>1, <1>3, <4>3
    <3>. QED  BY <3>2, <3>3
  <2>3. DOMAIN at = 1 .. n
    BY <1>4
  <2>. QED  BY <1>4, <2>2, <2>3
<1>5. want = [i \in 1 .. n |-> Step(want, i)]
  BY <1>3
<1> DEFINE loop == CHOOSE at : at = [i \in 1 .. Cardinality(DOMAIN link) |->
                     IF i = 1 THEN x
                     ELSE IF at[i-1] \in {0, stop} THEN 0
                     ELSE link[at[i-1]]]
<1>6. loop = want
  <2>1. loop = CHOOSE at : at = [i \in 1 .. n |-> Step(at, i)]
    BY DEF n, C
  <2> HIDE DEF loop, want, Step
  <2>. QED  BY <1>4, <1>5, <2>1
<1> DEFINE met == {i \in 1 .. n : want[i] # 0}
<1>7. Walk(link, x, stop) = [i \in 1 .. Cardinality(met) |-> want[i]]
  <2>1. Walk(link, x, stop) =
          [i \in 1 .. Cardinality({i \in 1 .. Cardinality(DOMAIN link) : loop[i] # 0})
             |-> loop[i]]
    BY DEF Walk
  <2> HIDE DEF loop, want
  <2>. QED  BY <1>6, <2>1 DEF n, C
<1>8. met = 1 .. m
  BY <1>0, <1>1, <1>2
<1>9. Cardinality(met) = m
  <2>1. Cardinality(1 .. m) = m
    BY <1>1, FS_Interval
  <2> HIDE DEF met
  <2>. QED  BY <1>8, <2>1
<1>10. [i \in 1 .. m |-> want[i]] = s
  <2>1. \A i \in 1 .. m : want[i] = s[i]
    BY <1>1
  <2>2. s = [i \in 1 .. m |-> s[i]]
    BY <1>0 DEF m
  <2> HIDE DEF want
  <2>. QED  BY <2>1, <2>2
<1>. QED  BY <1>7, <1>9, <1>10
==============================================================================
