--------------------------- MODULE ProcTreeProofs ---------------------------
(***************************************************************************)
(* The pointers of pcb.c's process tree implement Forest, for any finite   *)
(* table of pcbs.                                                          *)
(***************************************************************************)
EXTENDS ProcTree, ProcQProofs

PcbOrNull == Pcb \cup {NULL}

Table == IsFiniteSet(Pcb) /\ NULL \notin Pcb

(***************************************************************************)
(* The children of p, in the order of s, as the four links have them.      *)
(***************************************************************************)
IsFamily(p, s, prnt, child, nx, pv) ==
  /\ s \in Seq(Pcb)
  /\ \A i, j \in 1 .. Len(s) : s[i] = s[j] => i = j
  /\ child[p] = IF s = <<>> THEN NULL ELSE s[1]
  /\ \A i \in 1 .. Len(s) : /\ nx[s[i]] = IF i = Len(s) THEN NULL ELSE s[i+1]
                            /\ pv[s[i]] = IF i = 1 THEN NULL ELSE s[i-1]
  /\ \A x \in Pcb : prnt[x] = p <=> x \in ToSet(s)

(***************************************************************************)
(* insertChild's loop over the siblings goes through that sequence.        *)
(***************************************************************************)
LEMMA FamilyFound ==
  ASSUME Table, NEW prnt, NEW child, NEW nx \in [Pcb -> PcbOrNull], NEW pv,
         NEW p, NEW s, IsFamily(p, s, prnt, child, nx, pv)
  PROVE  (IF child[p] = NULL THEN <<>> ELSE Walk(nx, child[p], NULL)) = s
<1> DEFINE n == Len(s)  h == child[p]
<1>1. /\ s \in Seq(Pcb) /\ n \in Nat /\ DOMAIN nx = Pcb
      /\ \A i, j \in 1 .. n : s[i] = s[j] => i = j
      /\ \A i \in 1 .. n : s[i] \in Pcb
      /\ s = <<>> <=> n = 0
      /\ h = IF s = <<>> THEN NULL ELSE s[1]
      /\ \A i \in 1 .. n : nx[s[i]] = IF i = n THEN NULL ELSE s[i+1]
  BY DEF IsFamily
<1> HIDE DEF n, h
<1>2. \A i \in 1 .. n - 1 : s[i] # NULL /\ nx[s[i]] = s[i+1]
  <2>1. \A i \in 1 .. n - 1 : i \in 1 .. n /\ i # n
    BY <1>1
  <2>. QED  BY <1>1, <2>1 DEF Table
<1>3. n # 0 => n \in 1 .. n /\ 1 \in 1 .. n
  BY <1>1
<1>4. s # <<>> => nx[s[n]] = NULL /\ h # NULL
  BY <1>1, <1>3 DEF Table
<1>5. NULL = 0
  BY DEF NULL
<1>6. Threaded(nx, h, NULL, s)
  BY <1>1, <1>2, <1>4, <1>5 DEF n, Threaded
<1>7. IsFiniteSet(DOMAIN nx) /\ 0 \notin DOMAIN nx
  BY <1>1, <1>5 DEF Table
<1>8. Walk(nx, h, NULL) = s
  BY <1>6, <1>7, WalkLemma
<1>. QED  BY <1>1, <1>4, <1>8 DEF h

(***************************************************************************)
(* A family keeps its sequence if no link of it is written.                *)
(***************************************************************************)
LEMMA FamilyFrame ==
  ASSUME NEW prnt, NEW child, NEW nx, NEW pv, NEW p, NEW s,
         IsFamily(p, s, prnt, child, nx, pv),
         NEW prnt2, NEW child2, NEW nx2, NEW pv2,
         child2[p] = child[p],
         \A x \in Pcb : prnt2[x] = p <=> prnt[x] = p,
         \A x \in ToSet(s) : nx2[x] = nx[x] /\ pv2[x] = pv[x]
  PROVE  IsFamily(p, s, prnt2, child2, nx2, pv2)
<1>1. s \in Seq(Pcb) /\ \A i \in 1 .. Len(s) : s[i] \in ToSet(s)
  BY DEF IsFamily, ToSet
<1>. QED  BY <1>1 DEF IsFamily

------------------------------------------------------------------------------
(***************************************************************************)
(* The inductive invariant: the links form the sequence of children of     *)
(* each process, which are those whose parent it is; and a process without *)
(* a parent has no sibling links, although removeChild leaves those of an  *)
(* only child as they are.                                                 *)
(***************************************************************************)
Kids == [p \in Pcb |-> IF emptyChild(p) THEN <<>> ELSE Siblings(p_child[p])]

TypesOK ==
  /\ p_prnt \in [Pcb -> PcbOrNull]     /\ p_child \in [Pcb -> PcbOrNull]
  /\ p_next_sib \in [Pcb -> PcbOrNull] /\ p_prev_sib \in [Pcb -> PcbOrNull]

TreeInv ==
  /\ TypesOK
  /\ \A p \in Pcb : IsFamily(p, Kids[p], p_prnt, p_child, p_next_sib, p_prev_sib)
  /\ \A p \in Pcb : p_prnt[p] = NULL => p_next_sib[p] = NULL /\ p_prev_sib[p] = NULL

(***************************************************************************)
(* What a step that writes links of one family and of pcbs without parent  *)
(* must show.                                                              *)
(***************************************************************************)
LEMMA FamilyStep ==
  ASSUME Table, TreeInv, TypesOK', NEW r \in Pcb, NEW s,
         IsFamily(r, s, p_prnt', p_child', p_next_sib', p_prev_sib'),
         \A x \in Pcb : x # r => p_child'[x] = p_child[x],
         \A x \in Pcb : \/ /\ p_prnt[x] \in {r, NULL} /\ p_prnt'[x] \in {r, NULL}
                           /\ p_prnt'[x] = NULL =>
                                p_next_sib'[x] = NULL /\ p_prev_sib'[x] = NULL
                        \/ /\ p_prnt'[x] = p_prnt[x]
                           /\ p_next_sib'[x] = p_next_sib[x]
                           /\ p_prev_sib'[x] = p_prev_sib[x]
  PROVE  TreeInv' /\ Kids' = [Kids EXCEPT ![r] = s]
<1> DEFINE kids == [Kids EXCEPT ![r] = s]
<1>1. /\ kids = [p \in Pcb |-> kids[p]]
      /\ kids[r] = s /\ \A p \in Pcb : p # r => kids[p] = Kids[p]
  BY DEF Kids
<1> HIDE DEF kids
<1>2. ASSUME NEW p \in Pcb
      PROVE  IsFamily(p, kids[p], p_prnt', p_child', p_next_sib', p_prev_sib')
  <2>1. CASE p = r
    BY <1>1, <2>1
  <2>2. CASE p # r
    <3>1. IsFamily(p, Kids[p], p_prnt, p_child, p_next_sib, p_prev_sib)
      BY DEF TreeInv
    <3>2. p # NULL
      BY DEF Table
    <3>3. \A x \in Pcb : p_prnt'[x] = p <=> p_prnt[x] = p
      BY <2>2, <3>2
    <3>4. \A x \in ToSet(Kids[p]) : x \in Pcb /\ p_prnt[x] = p
      <4>1. Kids[p] \in Seq(Pcb)
        BY <3>1 DEF IsFamily
      <4>2. ToSet(Kids[p]) \subseteq Pcb
        BY <4>1, SeqFacts
      <4>. QED  BY <3>1, <4>2 DEF IsFamily
    <3>5. \A x \in ToSet(Kids[p]) : /\ p_next_sib'[x] = p_next_sib[x]
                                    /\ p_prev_sib'[x] = p_prev_sib[x]
      BY <2>2, <3>2, <3>4
    <3>6. p_child'[p] = p_child[p]
      BY <2>2
    <3>7. IsFamily(p, Kids[p], p_prnt', p_child', p_next_sib', p_prev_sib')
      BY <3>1, <3>3, <3>5, <3>6, FamilyFrame
    <3>. QED  BY <1>1, <2>2, <3>7
  <2>. QED  BY <2>1, <2>2
<1>3. Kids' = kids
  <2>1. p_next_sib' \in [Pcb -> PcbOrNull]
    BY DEF TypesOK
  <2>2. \A p \in Pcb : (IF p_child'[p] = NULL THEN <<>>
                        ELSE Walk(p_next_sib', p_child'[p], NULL)) = kids[p]
    BY <1>2, <2>1, FamilyFound
  <2>. QED  BY <1>1, <2>2 DEF Kids, emptyChild, Siblings
<1>4. \A p \in Pcb : p_prnt'[p] = NULL => p_next_sib'[p] = NULL /\ p_prev_sib'[p] = NULL
  BY DEF TreeInv
<1>5. TreeInv'
  BY <1>2, <1>3, <1>4 DEF TreeInv
<1>. QED  BY <1>3, <1>5 DEF kids

(***************************************************************************)
(* What the family of r gives by positions.                                *)
(***************************************************************************)
LEMMA FamilyFacts ==
  ASSUME Table, TreeInv, NEW r \in Pcb, NEW s, s = Kids[r]
  PROVE  /\ s \in Seq(Pcb) /\ Len(s) \in Nat /\ IsInjective(s)
         /\ \A i, j \in 1 .. Len(s) : s[i] = s[j] => i = j
         /\ \A i \in 1 .. Len(s) : s[i] \in Pcb /\ s[i] # NULL /\ p_prnt[s[i]] = r
         /\ \A i \in 1 .. Len(s) :
              /\ p_next_sib[s[i]] = IF i = Len(s) THEN NULL ELSE s[i+1]
              /\ p_prev_sib[s[i]] = IF i = 1 THEN NULL ELSE s[i-1]
         /\ \A x \in Pcb : p_prnt[x] = r <=> x \in ToSet(s)
         /\ \A x : x \in ToSet(s) <=> \E i \in 1 .. Len(s) : s[i] = x
         /\ emptyChild(r) <=> s = <<>>
         /\ s # <<>> => Len(s) # 0 /\ p_child[r] = s[1]
<1>1. IsFamily(r, s, p_prnt, p_child, p_next_sib, p_prev_sib)
  BY DEF TreeInv
<1>2. s \in Seq(Pcb) /\ Len(s) \in Nat
  BY <1>1 DEF IsFamily
<1>3. /\ \A i, j \in 1 .. Len(s) : s[i] = s[j] => i = j
      /\ \A i \in 1 .. Len(s) :
              /\ p_next_sib[s[i]] = IF i = Len(s) THEN NULL ELSE s[i+1]
              /\ p_prev_sib[s[i]] = IF i = 1 THEN NULL ELSE s[i-1]
      /\ \A x \in Pcb : p_prnt[x] = r <=> x \in ToSet(s)
  BY <1>1 DEF IsFamily
<1>4. IsInjective(s) /\ \A x : x \in ToSet(s) <=> \E i \in 1 .. Len(s) : s[i] = x
  BY <1>2, <1>3, SeqFacts
<1>5. \A i \in 1 .. Len(s) : s[i] \in Pcb /\ s[i] # NULL
  BY <1>2 DEF Table
<1>6. s # <<>> => 1 \in 1 .. Len(s)
  BY <1>2
<1>7. p_child[r] = IF s = <<>> THEN NULL ELSE s[1]
  BY <1>1 DEF IsFamily
<1>8. emptyChild(r) <=> s = <<>>
  BY <1>5, <1>6, <1>7 DEF emptyChild
<1>9. \A i \in 1 .. Len(s) : p_prnt[s[i]] = r
  BY <1>3, <1>4, <1>5
<1>10. s # <<>> => Len(s) # 0 /\ p_child[r] = s[1]
  BY <1>2, <1>7
<1>. QED  BY <1>2, <1>3, <1>4, <1>5, <1>8, <1>9, <1>10

(***************************************************************************)
(* insertChild puts p behind the children of r.                            *)
(***************************************************************************)
LEMMA InsertKids ==
  ASSUME Table, TreeInv, NEW r \in Pcb, NEW p \in Pcb, insertChild(r, p)
  PROVE  TreeInv' /\ Kids' = [Kids EXCEPT ![r] = Append(@, p)]
<1> DEFINE s == Kids[r]  n == Len(s)  a == Append(s, p)
<1>1. /\ s \in Seq(Pcb) /\ n \in Nat
      /\ \A i, j \in 1 .. n : s[i] = s[j] => i = j
      /\ \A i \in 1 .. n : s[i] \in Pcb /\ s[i] # NULL /\ p_prnt[s[i]] = r
      /\ \A i \in 1 .. n : /\ p_next_sib[s[i]] = IF i = n THEN NULL ELSE s[i+1]
                           /\ p_prev_sib[s[i]] = IF i = 1 THEN NULL ELSE s[i-1]
      /\ \A x \in Pcb : p_prnt[x] = r <=> x \in ToSet(s)
      /\ emptyChild(r) <=> s = <<>>
      /\ s # <<>> => n # 0 /\ p_child[r] = s[1]
  BY FamilyFacts
<1>2. /\ a \in Seq(Pcb) /\ Len(a) = n + 1 /\ a # <<>>
      /\ \A i \in 1 .. n : a[i] = s[i]
      /\ a[n+1] = p
  BY <1>1
<1>3. /\ ToSet(a) = ToSet(s) \cup {p}
      /\ s = <<>> => n = 0
  BY <1>1, InsertLemma DEF insertProcQ
<1>4. /\ r # NULL /\ TypesOK
      /\ p_prnt[p] = NULL /\ p_next_sib[p] = NULL /\ p_prev_sib[p] = NULL
      /\ p_prnt' = [p_prnt EXCEPT ![p] = r]
  BY DEF insertChild, TreeInv, Table
<1>5. IF s = <<>>
        THEN /\ p_child' = [p_child EXCEPT ![r] = p]
             /\ UNCHANGED <<p_next_sib, p_prev_sib>>
        ELSE /\ p_next_sib' = [p_next_sib EXCEPT ![s[n]] = p, ![p] = NULL]
             /\ p_prev_sib' = [p_prev_sib EXCEPT ![p] = s[n]]
             /\ UNCHANGED p_child
  <2>1. ~emptyChild(r) => Siblings(p_child[r]) = s
    BY DEF Kids
  <2>2. Last(s) = s[n]
    BY DEF Last
  <2>. QED  BY <1>1, <2>1, <2>2 DEF insertChild
<1> HIDE DEF s, n, a
<1>6. s # <<>> => n \in 1 .. n /\ 1 \in 1 .. n /\ s[n] \in Pcb /\ s[n] # p /\ s[n] # NULL
  <2>1. s # <<>> => n \in 1 .. n /\ 1 \in 1 .. n
    BY <1>1
  <2>. QED  BY <1>1, <1>4, <2>1
<1>7. TypesOK'
  BY <1>4, <1>5, <1>6 DEF TypesOK, PcbOrNull
<1>8. /\ p_prnt'[p] = r /\ \A x \in Pcb : x # p => p_prnt'[x] = p_prnt[x]
      /\ \A x \in Pcb : x # r => p_child'[x] = p_child[x]
      /\ s = <<>> => p_child'[r] = p
      /\ s # <<>> => p_child'[r] = s[1] /\ p_next_sib'[s[n]] = p
      /\ p_next_sib'[p] = NULL
      /\ p_prev_sib'[p] = IF s = <<>> THEN NULL ELSE s[n]
      /\ \A x \in Pcb : x # p /\ (s # <<>> => x # s[n]) => p_next_sib'[x] = p_next_sib[x]
      /\ \A x \in Pcb : x # p => p_prev_sib'[x] = p_prev_sib[x]
  <2>1. CASE s = <<>>
    BY <1>4, <1>5, <2>1 DEF TypesOK
  <2>2. CASE s # <<>>
    BY <1>1, <1>4, <1>5, <1>6, <2>2 DEF TypesOK
  <2>. QED  BY <2>1, <2>2
<1>9. IsFamily(r, a, p_prnt', p_child', p_next_sib', p_prev_sib')
  <2>1. \A i \in 1 .. n : s[i] # p
    BY <1>1, <1>4
  <2>2. \A i, j \in 1 .. n + 1 : a[i] = a[j] => i = j
    <3> SUFFICES ASSUME NEW i \in 1 .. n + 1, NEW j \in 1 .. n + 1, a[i] = a[j]
                 PROVE  i = j
      OBVIOUS
    <3>1. (i \in 1 .. n \/ i = n + 1) /\ (j \in 1 .. n \/ j = n + 1)
      BY <1>1
    <3>2. CASE i \in 1 .. n /\ j \in 1 .. n
      <4>1. s[i] = s[j]
        BY <1>2, <3>2
      <4>. QED  BY <1>1, <3>2, <4>1
    <3>3. CASE i = n + 1 /\ j = n + 1
      BY <3>3
    <3>4. CASE i \in 1 .. n /\ j = n + 1
      BY <1>2, <2>1, <3>4
    <3>5. CASE i = n + 1 /\ j \in 1 .. n
      BY <1>2, <2>1, <3>5
    <3>. QED  BY <3>1, <3>2, <3>3, <3>4, <3>5
  <2>3. p_child'[r] = IF a = <<>> THEN NULL ELSE a[1]
    <3>1. s = <<>> => a[1] = p
      BY <1>2, <1>3
    <3>2. s # <<>> => a[1] = s[1]
      BY <1>2, <1>6
    <3>. QED  BY <1>2, <1>8, <3>1, <3>2
  <2>4. ASSUME NEW i \in 1 .. n + 1
        PROVE  /\ p_next_sib'[a[i]] = IF i = n + 1 THEN NULL ELSE a[i+1]
               /\ p_prev_sib'[a[i]] = IF i = 1 THEN NULL ELSE a[i-1]
    <3>1. CASE i = n + 1
      <4>1. i # 1 => s # <<>> /\ i - 1 = n
        BY <1>1, <1>3, <3>1 DEF n
      <4>2. i = 1 => s = <<>>
        BY <1>1, <3>1
      <4>. QED  BY <1>2, <1>6, <1>8, <3>1, <4>1, <4>2
    <3>2. CASE i = n /\ i # n + 1
      <4>1. i \in 1 .. n /\ s # <<>> /\ (i # 1 => i - 1 \in 1 .. n)
        BY <1>1, <1>3, <3>2
      <4>2. p_next_sib'[a[i]] = p
        BY <1>2, <1>8, <3>2, <4>1
      <4>3. p_prev_sib'[a[i]] = p_prev_sib[s[i]]
        BY <1>1, <1>2, <1>8, <2>1, <4>1
      <4>. QED  BY <1>1, <1>2, <3>2, <4>1, <4>2, <4>3
    <3>3. CASE i \in 1 .. n - 1
      <4>1. i \in 1 .. n /\ i # n /\ i # n + 1 /\ i + 1 \in 1 .. n /\ n \in 1 .. n
        BY <1>1, <3>3
      <4>2. s[i] # s[n] /\ s[i] # p /\ (i # 1 => i - 1 \in 1 .. n)
        BY <1>1, <2>1, <4>1
      <4>3. p_next_sib'[a[i]] = p_next_sib[s[i]] /\ p_prev_sib'[a[i]] = p_prev_sib[s[i]]
        BY <1>1, <1>2, <1>8, <4>1, <4>2
      <4>. QED  BY <1>1, <1>2, <4>1, <4>2, <4>3
    <3>4. i = n + 1 \/ (i = n /\ i # n + 1) \/ i \in 1 .. n - 1
      BY <1>1
    <3>. QED  BY <3>1, <3>2, <3>3, <3>4
  <2>5. \A x \in Pcb : p_prnt'[x] = r <=> x \in ToSet(a)
    BY <1>1, <1>3, <1>8
  <2>. QED  BY <1>2, <2>2, <2>3, <2>4, <2>5 DEF IsFamily
<1>10. \A x \in Pcb : \/ /\ p_prnt[x] \in {r, NULL} /\ p_prnt'[x] \in {r, NULL}
                         /\ p_prnt'[x] = NULL =>
                              p_next_sib'[x] = NULL /\ p_prev_sib'[x] = NULL
                      \/ /\ p_prnt'[x] = p_prnt[x]
                         /\ p_next_sib'[x] = p_next_sib[x]
                         /\ p_prev_sib'[x] = p_prev_sib[x]
  <2> SUFFICES ASSUME NEW x \in Pcb
               PROVE  \/ x = p \/ (s # <<>> /\ x = s[n])
                      \/ /\ p_prnt'[x] = p_prnt[x]
                         /\ p_next_sib'[x] = p_next_sib[x]
                         /\ p_prev_sib'[x] = p_prev_sib[x]
    BY <1>1, <1>4, <1>6, <1>8
  <2>. QED  BY <1>8
<1>11. TreeInv' /\ Kids' = [Kids EXCEPT ![r] = a]
  BY <1>7, <1>8, <1>9, <1>10, FamilyStep
<1>. QED  BY <1>11 DEF a, s

(***************************************************************************)
(* removeChild takes the first child.                                      *)
(***************************************************************************)
LEMMA RemoveKids ==
  ASSUME Table, TreeInv, NEW r \in Pcb, removeChild(r), ~emptyChild(r)
  PROVE  /\ Kids[r] # <<>> /\ result' = Head(Kids[r]) /\ Head(Kids[r]) = p_child[r]
         /\ p_prnt' = [p_prnt EXCEPT ![result'] = NULL]
         /\ TreeInv' /\ Kids' = [Kids EXCEPT ![r] = Tail(@)]
<1> DEFINE s == Kids[r]  n == Len(s)  t == Tail(s)  c == p_child[r]
<1>1. /\ s \in Seq(Pcb) /\ n \in Nat \ {0} /\ IsInjective(s)
      /\ \A i, j \in 1 .. n : s[i] = s[j] => i = j
      /\ \A i \in 1 .. n : s[i] \in Pcb /\ s[i] # NULL /\ p_prnt[s[i]] = r
      /\ \A i \in 1 .. n : /\ p_next_sib[s[i]] = IF i = n THEN NULL ELSE s[i+1]
                           /\ p_prev_sib[s[i]] = IF i = 1 THEN NULL ELSE s[i-1]
      /\ \A x \in Pcb : p_prnt[x] = r <=> x \in ToSet(s)
      /\ s # <<>> /\ c = s[1]
  BY FamilyFacts
<1>2. /\ t \in Seq(Pcb) /\ Len(t) = n - 1 /\ Head(s) = s[1]
      /\ \A i \in 1 .. n - 1 : t[i] = s[i+1]
  BY <1>1
<1>3. ToSet(t) = ToSet(s) \ {c}
  <2>1. ~emptyProcQ(s)
    BY <1>1 DEF emptyProcQ
  <2>2. ToSet(s) = ToSet(t) \cup {Head(s)} /\ Head(s) \notin ToSet(t)
    BY <1>1, <2>1, RemoveLemma DEF removeProcQ, headProcQ
  <2>. QED  BY <1>1, <1>2, <2>2
<1>4. /\ r # NULL /\ TypesOK
      /\ result' = c
      /\ p_prnt'  = [p_prnt EXCEPT ![c] = NULL]
      /\ p_child' = [p_child EXCEPT ![r] = p_next_sib[c]]
      /\ IF p_next_sib[c] = NULL
           THEN UNCHANGED <<p_next_sib, p_prev_sib>>
           ELSE /\ p_next_sib' = [p_next_sib EXCEPT ![c] = NULL]
                /\ p_prev_sib' = [p_prev_sib EXCEPT ![p_next_sib[c]] = NULL]
  BY DEF removeChild, TreeInv, Table
<1> HIDE DEF s, n, t, c
<1>5. /\ 1 \in 1 .. n /\ c \in Pcb /\ p_prev_sib[c] = NULL
      /\ n = 1 => p_next_sib[c] = NULL /\ t = <<>>
      /\ n # 1 => /\ 2 \in 1 .. n /\ p_next_sib[c] = s[2] /\ s[2] # NULL /\ s[2] \in Pcb
                  /\ s[2] # c /\ t # <<>> /\ t[1] = s[2]
  <2>1. 1 \in 1 .. n
    BY <1>1
  <2>2. n # 1 => 2 \in 1 .. n /\ 1 \in 1 .. n - 1
    BY <1>1
  <2>3. n = 1 => t = <<>>
    BY <1>2
  <2>4. n # 1 => t # <<>>
    BY <1>1, <1>2
  <2>. QED  BY <1>1, <1>2, <2>1, <2>2, <2>3, <2>4
<1>6. TypesOK'
  BY <1>4, <1>5 DEF TypesOK, PcbOrNull
<1>7. /\ p_prnt'[c] = NULL /\ \A x \in Pcb : x # c => p_prnt'[x] = p_prnt[x]
      /\ \A x \in Pcb : x # r => p_child'[x] = p_child[x]
      /\ p_child'[r] = IF t = <<>> THEN NULL ELSE t[1]
      /\ p_next_sib'[c] = NULL /\ p_prev_sib'[c] = NULL
      /\ \A x \in Pcb : x # c => p_next_sib'[x] = p_next_sib[x]
      /\ n # 1 => p_prev_sib'[s[2]] = NULL
      /\ \A x \in Pcb : (n # 1 => x # s[2]) => p_prev_sib'[x] = p_prev_sib[x]
  <2>1. CASE n = 1
    BY <1>4, <1>5, <2>1 DEF TypesOK
  <2>2. CASE n # 1
    BY <1>4, <1>5, <2>2 DEF TypesOK
  <2>. QED  BY <2>1, <2>2
<1>8. IsFamily(r, t, p_prnt', p_child', p_next_sib', p_prev_sib')
  <2>1. \A i \in 1 .. n - 1 : i + 1 \in 1 .. n /\ i + 1 # 1 /\ (i + 1) - 1 = i
    BY <1>1
  <2>2. ASSUME NEW i \in 1 .. n - 1, NEW j \in 1 .. n - 1, t[i] = t[j]
        PROVE  i = j
    <3>1. i + 1 = j + 1
      BY <1>1, <1>2, <2>1, <2>2
    <3>. QED  BY <3>1
  <2>3. ASSUME NEW i \in 1 .. n - 1
        PROVE  /\ p_next_sib'[t[i]] = IF i = n - 1 THEN NULL ELSE t[i+1]
               /\ p_prev_sib'[t[i]] = IF i = 1 THEN NULL ELSE t[i-1]
    <3>1. /\ i + 1 \in 1 .. n /\ i + 1 # 1 /\ (i + 1 = n <=> i = n - 1) /\ n # 1
          /\ i # n - 1 => i + 1 \in 1 .. n - 1
          /\ i # 1 => i - 1 \in 1 .. n - 1 /\ (i - 1) + 1 = i /\ i + 1 # 2
      BY <1>1
    <3>2. t[i] = s[i+1] /\ t[i] \in Pcb /\ t[i] # c
      BY <1>1, <1>2, <1>5, <3>1
    <3>3. p_next_sib'[t[i]] = p_next_sib[s[i+1]]
      BY <1>7, <3>2
    <3>4. p_next_sib[s[i+1]] = IF i = n - 1 THEN NULL ELSE s[(i+1)+1]
      BY <1>1, <3>1
    <3>5. p_next_sib'[t[i]] = IF i = n - 1 THEN NULL ELSE t[i+1]
      BY <1>2, <3>1, <3>3, <3>4
    <3>6. i = 1 => p_prev_sib'[t[i]] = NULL
      BY <1>5, <1>7, <3>1
    <3>7. i # 1 => p_prev_sib'[t[i]] = t[i-1]
      <4> HAVE i # 1
      <4>1. t[i] # s[2]
        BY <1>1, <1>5, <3>1, <3>2
      <4>2. p_prev_sib'[t[i]] = p_prev_sib[s[i+1]]
        BY <1>7, <3>2, <4>1
      <4>3. p_prev_sib[s[i+1]] = s[i] /\ t[i-1] = s[i]
        BY <1>1, <1>2, <3>1
      <4>. QED  BY <4>2, <4>3
    <3>. QED  BY <3>5, <3>6, <3>7
  <2>4. \A x \in Pcb : p_prnt'[x] = r <=> x \in ToSet(t)
    BY <1>1, <1>3, <1>4, <1>7
  <2>. QED  BY <1>2, <1>7, <2>2, <2>3, <2>4 DEF IsFamily
<1>9. \A x \in Pcb : \/ /\ p_prnt[x] \in {r, NULL} /\ p_prnt'[x] \in {r, NULL}
                        /\ p_prnt'[x] = NULL =>
                             p_next_sib'[x] = NULL /\ p_prev_sib'[x] = NULL
                     \/ /\ p_prnt'[x] = p_prnt[x]
                        /\ p_next_sib'[x] = p_next_sib[x]
                        /\ p_prev_sib'[x] = p_prev_sib[x]
  <2>1. p_prnt[c] = r
    BY <1>1, <1>5
  <2>2. n # 1 => p_prnt[s[2]] = r /\ s[2] # c
    BY <1>1, <1>5
  <2>. QED  BY <1>4, <1>7, <2>1, <2>2
<1>10. TreeInv' /\ Kids' = [Kids EXCEPT ![r] = t]
  BY <1>6, <1>7, <1>8, <1>9, FamilyStep
<1>. QED  BY <1>1, <1>2, <1>4, <1>10 DEF s, t, c

(***************************************************************************)
(* outChild takes p from where it is among the children of its parent.     *)
(***************************************************************************)
LEMMA CutKids ==
  ASSUME Table, TreeInv, NEW p \in Pcb, NEW r \in Pcb, r = p_prnt[p], outChild(p)
  PROVE  /\ result' = p
         /\ p_prnt' = [p_prnt EXCEPT ![p] = NULL]
         /\ TreeInv' /\ Kids' = [Kids EXCEPT ![r] = Without(@, p)]
<1> DEFINE s == Kids[r]  n == Len(s)  w == Without(s, p)
<1>0. TypesOK /\ r # NULL /\ p # NULL
  BY DEF TreeInv, TypesOK, PcbOrNull, Table
<1>1. /\ s \in Seq(Pcb) /\ n \in Nat /\ IsInjective(s)
      /\ \A i, j \in 1 .. n : s[i] = s[j] => i = j
      /\ \A i \in 1 .. n : s[i] \in Pcb /\ s[i] # NULL /\ p_prnt[s[i]] = r
      /\ \A i \in 1 .. n : /\ p_next_sib[s[i]] = IF i = n THEN NULL ELSE s[i+1]
                           /\ p_prev_sib[s[i]] = IF i = 1 THEN NULL ELSE s[i-1]
      /\ \A x \in Pcb : p_prnt[x] = r <=> x \in ToSet(s)
      /\ emptyChild(r) <=> s = <<>>
      /\ s # <<>> => n # 0 /\ p_child[r] = s[1]
  BY FamilyFacts
<1>2. PICK c \in 1 .. n : s[c] = p
  <2>1. p \in ToSet(s)
    BY <1>1
  <2>. QED  BY <1>1, <2>1, SeqFacts
<1>n. n \in Nat
  BY <1>1
<1>s. \A i \in 1 .. n : /\ p_next_sib[s[i]] = IF i = n THEN NULL ELSE s[i+1]
                        /\ p_prev_sib[s[i]] = IF i = 1 THEN NULL ELSE s[i-1]
  BY <1>1
<1>p. \A i \in 1 .. n : i # c => s[i] \in Pcb /\ s[i] # p
  BY <1>1, <1>2
<1>3. /\ w \in Seq(Pcb) /\ Len(w) = n - 1
      /\ \A k \in 1 .. n - 1 : w[k] = IF k < c THEN s[k] ELSE s[k+1]
  <2> HIDE DEF s
  <2>1. s \in Seq(Pcb) /\ IsInjective(s) /\ c \in 1 .. Len(s)
    BY <1>1, <1>2 DEF n
  <2>2. /\ Without(s, s[c]) \in Seq(Pcb)
        /\ Len(Without(s, s[c])) = Len(s) - 1
        /\ \A k \in 1 .. Len(s) - 1 :
             Without(s, s[c])[k] = IF k < c THEN s[k] ELSE s[k+1]
    BY <2>1, WithoutAt
  <2>. QED  BY <1>2, <2>2 DEF n, w
<1>4. ToSet(w) = ToSet(s) \ {p} /\ IsInjective(w)
  BY <1>1, WithoutLemma
<1>5. s # <<>> /\ p_child[r] = s[1] /\ 1 \in 1 .. n /\ (p_child[r] = p <=> c = 1)
  <2>1. s # <<>> /\ 1 \in 1 .. n
    BY <1>1, <1>2
  <2>. QED  BY <1>1, <1>2, <2>1
<1>6. CASE c = 1
  <2>1. outChild_First(p) /\ ~emptyChild(r)
    BY <1>0, <1>1, <1>5, <1>6 DEF outChild, outChild_Last, outChild_Middle
  <2>2. removeChild(r)
    BY <2>1 DEF outChild_First
  <2>3. /\ result' = p /\ p_prnt' = [p_prnt EXCEPT ![p] = NULL]
        /\ TreeInv' /\ Kids' = [Kids EXCEPT ![r] = Tail(s)]
    <3>1. /\ result' = Head(s) /\ Head(s) = p_child[r]
          /\ p_prnt' = [p_prnt EXCEPT ![result'] = NULL]
          /\ TreeInv' /\ Kids' = [Kids EXCEPT ![r] = Tail(@)]
      BY <1>0, <2>1, <2>2, RemoveKids
    <3>. QED  BY <1>5, <1>6, <3>1
  <2>4. w = Tail(s)
    <3> DEFINE t == Tail(s)
    <3>1. t \in Seq(Pcb) /\ Len(t) = n - 1 /\ \A k \in 1 .. n - 1 : t[k] = s[k+1]
      BY <1>1, <1>5
    <3> HIDE DEF t, w, s, n
    <3>2. \A k \in 1 .. n - 1 : w[k] = t[k]
      BY <1>1, <1>3, <1>6, <3>1
    <3>. QED  BY <1>3, <3>1, <3>2 DEF t
  <2>. QED  BY <1>0, <2>3, <2>4
<1>7. CASE c # 1
  <2>1. /\ p_prev_sib[p] = s[c-1] /\ c - 1 \in 1 .. n
        /\ p_next_sib[p] = IF c = n THEN NULL ELSE s[c+1]
        /\ c # n => c + 1 \in 1 .. n
    BY <1>1, <1>2, <1>7
  <2>2. /\ result' = p /\ p_child' = p_child
        /\ p_prnt' = [p_prnt EXCEPT ![p] = NULL]
        /\ IF c = n
             THEN /\ p_next_sib' = [p_next_sib EXCEPT ![s[c-1]] = NULL]
                  /\ p_prev_sib' = [p_prev_sib EXCEPT ![p] = NULL]
             ELSE /\ p_next_sib' = [p_next_sib EXCEPT ![s[c-1]] = s[c+1], ![p] = NULL]
                  /\ p_prev_sib' = [p_prev_sib EXCEPT ![s[c+1]] = s[c-1], ![p] = NULL]
    <3>1. outChild_Last(p) \/ outChild_Middle(p)
      BY <1>0, <1>5, <1>7 DEF outChild, outChild_First
    <3>2. c # n => p_next_sib[p] # NULL
      BY <1>1, <2>1
    <3>. QED  BY <2>1, <3>1, <3>2 DEF outChild_Last, outChild_Middle
  <2> HIDE DEF s, n, w
  <2>3. /\ s[c-1] \in Pcb /\ s[c-1] # p
        /\ c # n => s[c+1] \in Pcb /\ s[c+1] # p /\ s[c+1] # s[c-1]
    <3>1. c - 1 # c /\ c + 1 # c /\ c + 1 # c - 1
      BY <1>1
    <3>. QED  BY <1>1, <1>2, <2>1, <3>1
  <2>4. TypesOK'
    BY <1>0, <2>2, <2>3 DEF TypesOK, PcbOrNull
  <2>5. /\ p_prnt'[p] = NULL /\ \A x \in Pcb : x # p => p_prnt'[x] = p_prnt[x]
        /\ p_next_sib'[p] = NULL /\ p_prev_sib'[p] = NULL
        /\ p_next_sib'[s[c-1]] = IF c = n THEN NULL ELSE s[c+1]
        /\ \A x \in Pcb : x # p /\ x # s[c-1] => p_next_sib'[x] = p_next_sib[x]
        /\ c # n => p_prev_sib'[s[c+1]] = s[c-1]
        /\ \A x \in Pcb : x # p /\ (c # n => x # s[c+1]) =>
             p_prev_sib'[x] = p_prev_sib[x]
    <3>1. CASE c = n
      BY <1>0, <2>1, <2>2, <2>3, <3>1 DEF TypesOK
    <3>2. CASE c # n
      BY <1>0, <2>2, <2>3, <3>2 DEF TypesOK
    <3>. QED  BY <3>1, <3>2
  <2>6. ASSUME NEW k \in 1 .. n - 1
        PROVE  /\ p_next_sib'[w[k]] = IF k = n - 1 THEN NULL ELSE w[k+1]
               /\ p_prev_sib'[w[k]] = IF k = 1 THEN NULL ELSE w[k-1]
    <3>0. w[k] \in Pcb /\ w[k] # p
      <4>1. k \in 1 .. n /\ k + 1 \in 1 .. n /\ (k < c => k # c) /\ (~(k < c) => k + 1 # c)
        BY <1>n
      <4>2. w[k] = IF k < c THEN s[k] ELSE s[k+1]
        BY <1>3
      <4>. QED  BY <1>p, <4>1, <4>2
    <3>1. CASE k < c - 1
      <4>1. /\ k \in 1 .. n /\ k < c /\ k # n /\ k # n - 1 /\ k # c - 1 /\ k # c + 1
            /\ k + 1 \in 1 .. n - 1 /\ k + 1 < c
            /\ k # 1 => k - 1 \in 1 .. n - 1 /\ k - 1 < c
        BY <1>n, <3>1
      <4>2. w[k] = s[k] /\ w[k+1] = s[k+1] /\ (k # 1 => w[k-1] = s[k-1])
        BY <1>3, <4>1
      <4>3. s[k] # s[c-1] /\ (c # n => s[k] # s[c+1])
        BY <1>1, <2>1, <4>1
      <4>4. /\ p_next_sib'[s[k]] = p_next_sib[s[k]]
            /\ p_prev_sib'[s[k]] = p_prev_sib[s[k]]
        BY <2>5, <3>0, <4>2, <4>3
      <4>. QED  BY <1>1, <4>1, <4>2, <4>4
    <3>2. CASE k = c - 1
      <4>1. /\ k \in 1 .. n /\ k < c /\ (k = n - 1 <=> c = n) /\ k # c + 1
            /\ k + 1 = c /\ (c # n => c \in 1 .. n - 1) /\ ~(c < c)
            /\ k # 1 => k - 1 \in 1 .. n - 1 /\ k - 1 < c
        BY <1>n, <3>2
      <4>2. /\ w[k] = s[k] /\ (k # n - 1 => w[k+1] = s[c+1])
            /\ (k # 1 => w[k-1] = s[k-1])
        BY <1>3, <4>1
      <4>3. c # n => s[k] # s[c+1]
        BY <1>1, <2>1, <4>1
      <4>4. p_prev_sib'[s[k]] = p_prev_sib[s[k]]
        BY <2>5, <3>0, <4>2, <4>3
      <4>. QED  BY <1>1, <2>5, <3>2, <4>1, <4>2, <4>4
    <3>3. CASE k = c
      <4>1. /\ c # n /\ k # 1 /\ ~(k < c) /\ c + 1 # c - 1
            /\ k - 1 \in 1 .. n - 1 /\ k - 1 < c
            /\ c + 1 = n <=> k = n - 1
            /\ k # n - 1 => k + 1 \in 1 .. n - 1 /\ ~(k + 1 < c)
        BY <1>n, <1>7, <3>3
      <4>2. /\ w[k] = s[c+1] /\ w[k-1] = s[c-1]
            /\ k # n - 1 => w[k+1] = s[(c+1)+1]
        BY <1>3, <3>3, <4>1
      <4>3. p_next_sib'[s[c+1]] = p_next_sib[s[c+1]]
        BY <2>3, <2>5, <4>1
      <4>4. p_next_sib[s[c+1]] = IF c + 1 = n THEN NULL ELSE s[(c+1)+1]
        BY <1>1, <2>1, <4>1
      <4>. QED  BY <2>5, <4>1, <4>2, <4>3, <4>4
    <3>4. CASE k > c
      <4>1. /\ k + 1 \in 1 .. n /\ k # 1 /\ ~(k < c) /\ k + 1 # 1
            /\ k + 1 # c - 1 /\ k + 1 # c + 1 /\ (k + 1) - 1 = k
            /\ k - 1 \in 1 .. n - 1 /\ ~(k - 1 < c) /\ (k - 1) + 1 = k
            /\ k + 1 = n <=> k = n - 1
            /\ k # n - 1 => k + 1 \in 1 .. n - 1 /\ ~(k + 1 < c)
        BY <1>n, <3>4
      <4>2. /\ w[k] = s[k+1] /\ w[k-1] = s[k]
            /\ k # n - 1 => w[k+1] = s[(k+1)+1]
        BY <1>3, <4>1
      <4>3. s[k+1] # s[c-1] /\ (c # n => s[k+1] # s[c+1])
        BY <1>1, <2>1, <4>1
      <4>4. /\ p_next_sib'[s[k+1]] = p_next_sib[s[k+1]]
            /\ p_prev_sib'[s[k+1]] = p_prev_sib[s[k+1]]
        BY <2>5, <3>0, <4>2, <4>3
      <4>5. /\ p_next_sib[s[k+1]] = IF k + 1 = n THEN NULL ELSE s[(k+1)+1]
            /\ p_prev_sib[s[k+1]] = s[k]
        BY <1>s, <4>1
      <4>. QED  BY <4>1, <4>2, <4>4, <4>5
    <3>. QED  BY <3>1, <3>2, <3>3, <3>4
  <2>7. IsFamily(r, w, p_prnt', p_child', p_next_sib', p_prev_sib')
    <3>1. \A i, j \in 1 .. Len(w) : w[i] = w[j] => i = j
      BY <1>3, <1>4, SeqFacts
    <3>2. p_child'[r] = IF w = <<>> THEN NULL ELSE w[1]
      <4>1. 1 \in 1 .. n - 1 /\ 1 < c
        BY <1>1, <1>7
      <4>2. w # <<>> /\ w[1] = s[1]
        BY <1>3, <4>1
      <4>. QED  BY <1>5, <2>2, <4>2
    <3>3. \A x \in Pcb : p_prnt'[x] = r <=> x \in ToSet(w)
      BY <1>0, <1>1, <1>4, <2>5
    <3>. QED  BY <1>3, <2>6, <3>1, <3>2, <3>3 DEF IsFamily
  <2>8. \A x \in Pcb : x # r => p_child'[x] = p_child[x]
    BY <2>2
  <2>9. \A x \in Pcb : \/ /\ p_prnt[x] \in {r, NULL} /\ p_prnt'[x] \in {r, NULL}
                          /\ p_prnt'[x] = NULL =>
                               p_next_sib'[x] = NULL /\ p_prev_sib'[x] = NULL
                       \/ /\ p_prnt'[x] = p_prnt[x]
                          /\ p_next_sib'[x] = p_next_sib[x]
                          /\ p_prev_sib'[x] = p_prev_sib[x]
    <3>1. p_prnt[p] = r /\ p_prnt[s[c-1]] = r /\ (c # n => p_prnt[s[c+1]] = r)
      BY <1>1, <1>2, <2>1
    <3>. QED  BY <1>0, <2>3, <2>5, <3>1
  <2>10. TreeInv' /\ Kids' = [Kids EXCEPT ![r] = w]
    BY <1>0, <2>4, <2>7, <2>8, <2>9, FamilyStep
  <2>. QED  BY <1>0, <2>2, <2>10 DEF s, w
<1>. QED  BY <1>6, <1>7

LEMMA SameKids ==
  TreeInv /\ UNCHANGED links => TreeInv' /\ Kids' = Kids
<1> SUFFICES ASSUME TreeInv, UNCHANGED links
             PROVE  TreeInv' /\ Kids' = Kids
  OBVIOUS
<1>1. /\ p_prnt' = p_prnt /\ p_child' = p_child
      /\ p_next_sib' = p_next_sib /\ p_prev_sib' = p_prev_sib
  BY DEF links
<1>2. Kids' = Kids
  BY <1>1 DEF Kids, emptyChild, Siblings
<1>. QED  BY <1>1, <1>2 DEF TreeInv, TypesOK

------------------------------------------------------------------------------
(***************************************************************************)
(* Every state of the links is such that the loops over siblings end where *)
(* they should and each function finds what the others left.               *)
(***************************************************************************)
LEMMA TreeInitially ==
  ASSUME Table, Init
  PROVE  TreeInv /\ Kids = [p \in Pcb |-> <<>>]
<1>1. Kids = [p \in Pcb |-> <<>>]
  BY DEF Init, Kids, emptyChild
<1>2. ASSUME NEW p \in Pcb
      PROVE  IsFamily(p, <<>>, p_prnt, p_child, p_next_sib, p_prev_sib)
  BY DEF Init, IsFamily, ToSet, Table
<1>3. TypesOK
  BY DEF Init, TypesOK, PcbOrNull
<1>. QED  BY <1>1, <1>2, <1>3 DEF Init, TreeInv

LEMMA TreeStep ==
  ASSUME Table, TreeInv, [Next]_vars
  PROVE  TreeInv'
<1>1. ASSUME NEW p \in Pcb, removeChild(p)
      PROVE  TreeInv'
  <2>1. emptyChild(p) => UNCHANGED links
    BY <1>1 DEF removeChild
  <2>. QED  BY <1>1, <2>1, RemoveKids, SameKids
<1>2. ASSUME NEW p \in Pcb, outChild(p)
      PROVE  TreeInv'
  <2>1. CASE p_prnt[p] = NULL
    BY <1>2, <2>1, SameKids DEF outChild
  <2>2. CASE p_prnt[p] # NULL
    BY <1>2, <2>2, CutKids DEF TreeInv, TypesOK, PcbOrNull
  <2>. QED  BY <2>1, <2>2
<1>3. ASSUME NEW p \in Pcb, NEW prnt \in Pcb, insertChild(prnt, p)
      PROVE  TreeInv'
  BY <1>3, InsertKids
<1>4. CASE UNCHANGED vars
  BY <1>4, SameKids DEF vars, links
<1>. QED  BY <1>1, <1>2, <1>3, <1>4 DEF Next

(***************************************************************************)
(* The links of every process form the sequence of its children.           *)
(***************************************************************************)
THEOREM TreeInvariant == ASSUME Table PROVE Spec => []TreeInv
<1>1. Init => TreeInv
  BY TreeInitially
<1>2. TreeInv /\ [Next]_vars => TreeInv'
  BY TreeStep
<1>. QED  BY <1>1, <1>2, PTL DEF Spec

THEOREM SiblingsStayLinked == ASSUME Table PROVE Spec => []SiblingsLinked
<1>1. ASSUME TreeInv
      PROVE  SiblingsLinked
  <2> SUFFICES ASSUME NEW p \in Pcb
      PROVE  /\ p_next_sib[p] # NULL =>
                  p_prev_sib[p_next_sib[p]] = p /\ p_prnt[p_next_sib[p]] = p_prnt[p]
             /\ p_prev_sib[p] # NULL => p_next_sib[p_prev_sib[p]] = p
             /\ p_prnt[p] # NULL => (p_prev_sib[p] = NULL <=> p_child[p_prnt[p]] = p)
             /\ p_prnt[p] = NULL => p_next_sib[p] = NULL /\ p_prev_sib[p] = NULL
             /\ ~emptyChild(p) => p_prnt[p_child[p]] = p
    BY Zenon DEF SiblingsLinked
  <2>1. p_prnt[p] = NULL => p_next_sib[p] = NULL /\ p_prev_sib[p] = NULL
    BY <1>1 DEF TreeInv
  <2>2. ASSUME NEW r \in Pcb, r = p_prnt[p]
        PROVE  /\ p_next_sib[p] # NULL =>
                    p_prev_sib[p_next_sib[p]] = p /\ p_prnt[p_next_sib[p]] = r
               /\ p_prev_sib[p] # NULL => p_next_sib[p_prev_sib[p]] = p
               /\ p_prev_sib[p] = NULL <=> p_child[r] = p
    <3> DEFINE s == Kids[r]  n == Len(s)
    <3>1. /\ s \in Seq(Pcb) /\ n \in Nat
          /\ \A i, j \in 1 .. n : s[i] = s[j] => i = j
          /\ \A i \in 1 .. n : s[i] \in Pcb /\ s[i] # NULL /\ p_prnt[s[i]] = r
          /\ \A i \in 1 .. n : /\ p_next_sib[s[i]] = IF i = n THEN NULL ELSE s[i+1]
                               /\ p_prev_sib[s[i]] = IF i = 1 THEN NULL ELSE s[i-1]
          /\ \A x \in Pcb : p_prnt[x] = r <=> x \in ToSet(s)
          /\ s # <<>> => n # 0 /\ p_child[r] = s[1]
      BY <1>1, FamilyFacts
    <3>2. PICK i \in 1 .. n : s[i] = p
      <4>1. p \in ToSet(s)
        BY <2>2, <3>1
      <4>. QED  BY <3>1, <4>1, SeqFacts
    <3>3. p_child[r] = s[1] /\ 1 \in 1 .. n
      <4>1. s # <<>> /\ 1 \in 1 .. n
        BY <3>1, <3>2
      <4>. QED  BY <3>1, <4>1
    <3> HIDE DEF s, n
    <3>n. n \in Nat /\ i \in 1 .. n
      BY <3>1
    <3>s. \A k \in 1 .. n : /\ p_next_sib[s[k]] = IF k = n THEN NULL ELSE s[k+1]
                            /\ p_prev_sib[s[k]] = IF k = 1 THEN NULL ELSE s[k-1]
                            /\ p_prnt[s[k]] = r
      BY <3>1
    <3>4. p_next_sib[p] # NULL =>
            p_prev_sib[p_next_sib[p]] = p /\ p_prnt[p_next_sib[p]] = r
      <4> HAVE p_next_sib[p] # NULL
      <4>1. i # n
        BY <3>s, <3>2
      <4>2. i + 1 \in 1 .. n /\ i + 1 # 1 /\ (i + 1) - 1 = i
        BY <3>n, <4>1
      <4>. QED  BY <3>s, <3>2, <4>1, <4>2
    <3>5. p_prev_sib[p] # NULL => p_next_sib[p_prev_sib[p]] = p
      <4> HAVE p_prev_sib[p] # NULL
      <4>1. i # 1
        BY <3>s, <3>2
      <4>2. i - 1 \in 1 .. n /\ i - 1 # n /\ (i - 1) + 1 = i
        BY <3>n, <4>1
      <4>. QED  BY <3>s, <3>2, <4>1, <4>2
    <3>6. p_prev_sib[p] = NULL <=> i = 1
      <4>1. i # 1 => i - 1 \in 1 .. n
        BY <3>1
      <4>. QED  BY <3>1, <3>2, <4>1
    <3>. QED  BY <3>1, <3>2, <3>3, <3>4, <3>5, <3>6
  <2>3. ~emptyChild(p) => p_prnt[p_child[p]] = p
    <3> DEFINE s == Kids[p]
    <3>1. /\ \A i \in 1 .. Len(s) : p_prnt[s[i]] = p
          /\ Len(s) \in Nat
          /\ emptyChild(p) <=> s = <<>>
          /\ s # <<>> => Len(s) # 0 /\ p_child[p] = s[1]
      BY <1>1, FamilyFacts
    <3>. QED  BY <3>1
  <2>4. p_prnt[p] = NULL \/ p_prnt[p] \in Pcb
    BY <1>1 DEF TreeInv, TypesOK, PcbOrNull
  <2>. QED  BY <2>1, <2>2, <2>3, <2>4
<1>. QED  BY <1>1, TreeInvariant, PTL

------------------------------------------------------------------------------
(***************************************************************************)
(* The chain of parents above q exists, of any length, so Descends means   *)
(* what it says; and the processes on it are all that q descends from.     *)
(***************************************************************************)
IsChain(up, q, n) ==
  /\ up \in [0 .. n -> PcbOrNull]
  /\ up[0] = q
  /\ \A i \in 1 .. n : up[i] = IF up[i-1] = NULL THEN NULL ELSE p_prnt[up[i-1]]

LEMMA ChainExists ==
  ASSUME Table, TypesOK, NEW q \in Pcb, NEW n \in Nat
  PROVE  \E up : IsChain(up, q, n)
<1> DEFINE Short == {k \in Nat : ~\E up : IsChain(up, q, k)}
<1>1. ASSUME Short # {}
      PROVE  FALSE
  <2>1. PICK k \in Short : \A m \in Short : k <= m
    BY <1>1, LeastLemma
  <2>2. k # 0
    <3>1. IsChain([i \in 0 .. 0 |-> q], q, 0)
      BY DEF IsChain, PcbOrNull
    <3>. QED  BY <2>1, <3>1
  <2>3. k - 1 \in Nat /\ k \in Nat /\ ~(k <= k - 1)
    BY <2>1, <2>2
  <2>4. PICK up : IsChain(up, q, k - 1)
    BY <2>1, <2>3
  <2> DEFINE above == IF up[k-1] = NULL THEN NULL ELSE p_prnt[up[k-1]]
             longer == [i \in 0 .. k |-> IF i = k THEN above ELSE up[i]]
  <2>5. above \in PcbOrNull
    <3>1. up[k-1] \in PcbOrNull
      BY <2>3, <2>4 DEF IsChain
    <3>. QED  BY <3>1 DEF TypesOK, PcbOrNull
  <2> HIDE DEF above
  <2>6. /\ \A i \in 0 .. k - 1 : longer[i] = up[i] /\ up[i] \in PcbOrNull
        /\ longer[k] = above
        /\ 0 \in 0 .. k - 1
    BY <2>3, <2>4 DEF IsChain
  <2>7. longer \in [0 .. k -> PcbOrNull]
    <3>1. \A i \in 0 .. k : i = k \/ i \in 0 .. k - 1
      BY <2>3
    <3>2. \A i \in 0 .. k : (IF i = k THEN above ELSE up[i]) \in PcbOrNull
      BY <2>5, <2>6, <3>1
    <3>. QED  BY <3>2
  <2>8. ASSUME NEW i \in 1 .. k
        PROVE  longer[i] = IF longer[i-1] = NULL THEN NULL ELSE p_prnt[longer[i-1]]
    <3>1. i - 1 \in 0 .. k - 1 /\ (i # k => i \in 1 .. k - 1 /\ i \in 0 .. k - 1)
      BY <2>3
    <3>. QED  BY <2>4, <2>6, <3>1 DEF IsChain, above
  <2> HIDE DEF longer
  <2>9. IsChain(longer, q, k)
    BY <2>4, <2>6, <2>7, <2>8 DEF IsChain
  <2>. QED  BY <2>1, <2>9
<1>. QED  BY <1>1

LEMMA DescendsFacts ==
  ASSUME Table, TypesOK, NEW q \in Pcb
  PROVE  \E up : /\ IsChain(up, q, Cardinality(Pcb))
                 /\ \A p : Descends(q, p) <=> \E i \in 0 .. Cardinality(Pcb) : up[i] = p
<1> DEFINE N == Cardinality(Pcb)
           Rule(f) == [i \in 0 .. N |->
                         IF i = 0 THEN q
                         ELSE IF f[i-1] = NULL THEN NULL ELSE p_prnt[f[i-1]]]
           above == CHOOSE f : f = Rule(f)
<1>1. N \in Nat
  BY FS_CardinalityType DEF Table
<1>2. \A p : Descends(q, p) <=> \E i \in DOMAIN above : above[i] = p
  BY DEF Descends
<1>3. PICK up : IsChain(up, q, N)
  BY <1>1, ChainExists
<1> HIDE DEF N
<1>4. up = Rule(up)
  <2>1. \A i \in 0 .. N : up[i] = Rule(up)[i]
    <3>1. \A i \in 0 .. N : i = 0 \/ i \in 1 .. N
      BY <1>1
    <3>. QED  BY <1>3, <3>1 DEF IsChain
  <2>. QED  BY <1>3, <2>1 DEF IsChain
<1>5. above = Rule(above)
  BY <1>4
<1> HIDE DEF above
<1>6. IsChain(above, q, N)
  <2>1. /\ DOMAIN above = 0 .. N /\ above[0] = q
        /\ \A i \in 1 .. N : above[i] = IF above[i-1] = NULL THEN NULL
                                        ELSE p_prnt[above[i-1]]
    <3>1. 0 \in 0 .. N /\ \A i \in 1 .. N : i \in 0 .. N /\ i # 0
      BY <1>1
    <3>. QED  BY <1>5, <3>1
  <2> DEFINE Off == {i \in 0 .. N : above[i] \notin PcbOrNull}
  <2>2. ASSUME Off # {}
        PROVE  FALSE
    <3>1. PICK i \in Off : \A k \in Off : i <= k
      <4>1. Off \in SUBSET Nat
        BY <1>1
      <4> HIDE DEF Off
      <4>. QED  BY <2>2, <4>1, LeastLemma
    <3>2. i # 0
      BY <2>1, <3>1 DEF PcbOrNull
    <3>3. i - 1 \in 0 .. N /\ i \in 1 .. N /\ ~(i <= i - 1)
      BY <1>1, <3>1, <3>2
    <3>4. above[i-1] \in PcbOrNull
      BY <3>1, <3>3
    <3>. QED  BY <2>1, <3>1, <3>3, <3>4 DEF TypesOK, PcbOrNull
  <2>3. above = [i \in 0 .. N |-> above[i]]
    BY <1>5
  <2>. QED  BY <2>1, <2>2, <2>3 DEF IsChain
<1>7. DOMAIN above = 0 .. N
  BY <1>6 DEF IsChain
<1>. QED  BY <1>2, <1>6, <1>7 DEF N

(***************************************************************************)
(* So if prnt does not descend from p, the processes above prnt and all    *)
(* the others separate the two, and no child crosses: what Forest asks of  *)
(* an insertion.  A chain longer than the table has come round.            *)
(***************************************************************************)
LEMMA Separated ==
  ASSUME Table, TreeInv, NEW prnt \in Pcb, NEW p \in Pcb, ~Descends(prnt, p)
  PROVE  \E S \in SUBSET Pcb : /\ p \in S /\ prnt \notin S
                               /\ \A x \in S : ToSet(Kids[x]) \subseteq S
<1> DEFINE N == Cardinality(Pcb)
<1>1. N \in Nat /\ N # 0
  BY FS_CardinalityType, FS_EmptySet DEF Table
<1>2. TypesOK
  BY DEF TreeInv
<1>3. PICK up : /\ IsChain(up, prnt, N)
                /\ \A x : Descends(prnt, x) <=> \E i \in 0 .. N : up[i] = x
  BY <1>2, DescendsFacts
<1> HIDE DEF N
<1>4. /\ up \in [0 .. N -> PcbOrNull] /\ up[0] = prnt
      /\ \A i \in 1 .. N : up[i] = IF up[i-1] = NULL THEN NULL ELSE p_prnt[up[i-1]]
  BY <1>3 DEF IsChain
<1>5. \A i \in 0 .. N : up[i] # p
  BY <1>3
<1>6. prnt # NULL
  BY DEF Table
<1>7. \E k \in 1 .. N : up[k] = NULL \/ \E j \in 0 .. k - 1 : up[j] = up[k]
  <2>1. CASE \E k \in 0 .. N : up[k] = NULL
    <3>1. PICK k \in 0 .. N : up[k] = NULL
      BY <2>1
    <3>2. k # 0
      BY <1>4, <1>6, <3>1
    <3>. QED  BY <1>1, <3>1, <3>2
  <2>2. CASE \A k \in 0 .. N : up[k] # NULL
    <3>1. up \in [0 .. N -> Pcb]
      BY <1>4, <2>2 DEF PcbOrNull
    <3>2. IsFiniteSet(0 .. N) /\ Cardinality(0 .. N) = N + 1
      BY <1>1, FS_Interval
    <3>3. Cardinality(Pcb) < Cardinality(0 .. N)
      BY <1>1, <3>2 DEF N
    <3>4. PICK j, k \in 0 .. N : j # k /\ up[j] = up[k]
      BY <3>1, <3>2, <3>3, FS_PigeonHole DEF Table
    <3>5. CASE j < k
      BY <1>1, <3>4, <3>5
    <3>6. CASE k < j
      BY <1>1, <3>4, <3>6
    <3>. QED  BY <1>1, <3>4, <3>5, <3>6
  <2>. QED  BY <2>1, <2>2
<1>8. PICK k \in 1 .. N : up[k] = NULL \/ \E j \in 0 .. k - 1 : up[j] = up[k]
  BY <1>7
<1> DEFINE Above == {up[i] : i \in 0 .. k - 1}
           S == Pcb \ Above
<1>9. \A i \in 0 .. k - 1 : i \in 0 .. N /\ i + 1 \in 1 .. N /\ (i + 1) - 1 = i
  BY <1>1
<1>10. p \in S /\ prnt \notin S
  <2>1. 0 \in 0 .. k - 1
    BY <1>1
  <2>. QED  BY <1>4, <1>5, <1>9, <2>1
<1>11. ASSUME NEW x \in Above, x # NULL, p_prnt[x] # NULL
       PROVE  p_prnt[x] \in Above
  <2>1. PICK i \in 0 .. k - 1 : up[i] = x
    OBVIOUS
  <2>2. up[i+1] = p_prnt[x]
    BY <1>4, <1>9, <1>11, <2>1
  <2>3. CASE i + 1 = k
    BY <1>8, <1>11, <2>2, <2>3
  <2>4. CASE i + 1 # k
    <3>1. i + 1 \in 0 .. k - 1
      BY <1>1, <2>4
    <3>. QED  BY <2>2, <3>1
  <2>. QED  BY <2>3, <2>4
<1>12. ASSUME NEW x \in S, NEW y \in ToSet(Kids[x])
       PROVE  y \in S
  <2>1. y \in Pcb /\ p_prnt[y] = x
    <3> DEFINE s == Kids[x]
    <3>1. s \in Seq(Pcb) /\ \A z \in Pcb : p_prnt[z] = x <=> z \in ToSet(s)
      BY FamilyFacts
    <3> HIDE DEF s
    <3>2. ToSet(s) \subseteq Pcb
      BY <3>1, SeqFacts
    <3>. QED  BY <1>12, <3>1, <3>2 DEF s
  <2>2. x # NULL /\ y # NULL
    BY <2>1 DEF Table
  <2>. QED  BY <1>11, <2>1, <2>2
<1> HIDE DEF S
<1>13. S \in SUBSET Pcb
  BY DEF S
<1>. QED  BY <1>10, <1>12, <1>13

------------------------------------------------------------------------------
(***************************************************************************)
(* The instance of Forest has its own copies of the operators on           *)
(* sequences; Kids is what it gets for children.                           *)
(***************************************************************************)
LEMMA ForestOps ==
  /\ \A s : Abstract!ToSet(s) = ToSet(s)
  /\ \A s, x : Abstract!Without(s, x) = Without(s, x)
<1>1. \A s : Abstract!ToSet(s) = ToSet(s)
  BY Zenon DEF Abstract!ToSet, ToSet
<1>. QED  BY <1>1, Zenon DEF Abstract!Without, Without, Abstract!ToSet, ToSet,
                            Abstract!RemoveAt, RemoveAt

LEMMA ForestInit ==
  ASSUME Table, Init
  PROVE  Abstract!Init
BY TreeInitially DEF Init, Abstract!Init, Kids

LEMMA InsertImplements ==
  ASSUME Table, TreeInv, NEW prnt \in Pcb, NEW p \in Pcb, insertChild(prnt, p)
  PROVE  Abstract!Insert(prnt, p)
<1>1. Kids' = [Kids EXCEPT ![prnt] = Append(@, p)]
  BY InsertKids
<1>2. /\ p_prnt[p] = NULL /\ ~Descends(prnt, p)
      /\ p_prnt' = [p_prnt EXCEPT ![p] = prnt] /\ result' = result
  BY DEF insertChild
<1>3. \E S \in SUBSET Pcb : p \in S /\ prnt \notin S /\ Abstract!Closed(S)
  <2>1. PICK S \in SUBSET Pcb : /\ p \in S /\ prnt \notin S
                                /\ \A x \in S : ToSet(Kids[x]) \subseteq S
    BY <1>2, Separated
  <2>2. Abstract!Closed(S)
    BY <2>1, ForestOps DEF Abstract!Closed, Kids
  <2>. QED  BY <2>1, <2>2
<1>. QED  BY <1>1, <1>2, <1>3 DEF Abstract!Insert, Kids

LEMMA RemoveImplements ==
  ASSUME Table, TreeInv, NEW p \in Pcb, removeChild(p)
  PROVE  Abstract!TakeFirst(p)
<1>1. CASE emptyChild(p)
  <2>1. result' = NULL /\ UNCHANGED links
    BY <1>1 DEF removeChild
  <2>2. Kids' = Kids /\ Kids[p] = <<>> /\ p_prnt' = p_prnt
    BY <1>1, <2>1, SameKids, FamilyFacts DEF links
  <2>. QED  BY <2>1, <2>2 DEF Abstract!TakeFirst, Kids
<1>2. CASE ~emptyChild(p)
  <2>1. /\ Kids[p] # <<>> /\ result' = Head(Kids[p])
        /\ p_prnt' = [p_prnt EXCEPT ![result'] = NULL]
        /\ Kids' = [Kids EXCEPT ![p] = Tail(@)]
    BY <1>2, RemoveKids
  <2>. QED  BY <2>1 DEF Abstract!TakeFirst, Kids
<1>. QED  BY <1>1, <1>2

LEMMA OutImplements ==
  ASSUME Table, TreeInv, NEW p \in Pcb, outChild(p)
  PROVE  Abstract!TakeOut(p)
<1>1. CASE p_prnt[p] = NULL
  <2>1. result' = NULL /\ UNCHANGED links
    BY <1>1 DEF outChild
  <2>2. Kids' = Kids /\ p_prnt' = p_prnt
    BY <2>1, SameKids DEF links
  <2>. QED  BY <1>1, <2>1, <2>2 DEF Abstract!TakeOut, Kids
<1>2. CASE p_prnt[p] # NULL
  <2>1. p_prnt[p] \in Pcb
    BY <1>2 DEF TreeInv, TypesOK, PcbOrNull
  <2>2. /\ result' = p /\ p_prnt' = [p_prnt EXCEPT ![p] = NULL]
        /\ Kids' = [Kids EXCEPT ![p_prnt[p]] = Without(@, p)]
    BY <2>1, CutKids
  <2>3. Kids' = [Kids EXCEPT ![p_prnt[p]] = Abstract!Without(@, p)]
    BY <2>2, ForestOps
  <2>. QED  BY <1>2, <2>2, <2>3 DEF Abstract!TakeOut, Kids
<1>. QED  BY <1>1, <1>2

LEMMA ForestStep ==
  ASSUME Table, TreeInv, [Next]_vars
  PROVE  [Abstract!Next]_Abstract!vars
<1>1. CASE Next
  <2>1. ASSUME NEW p \in Pcb, removeChild(p)
        PROVE  Abstract!Next
    BY <2>1, RemoveImplements DEF Abstract!Next
  <2>2. ASSUME NEW p \in Pcb, outChild(p)
        PROVE  Abstract!Next
    BY <2>2, OutImplements DEF Abstract!Next
  <2>3. ASSUME NEW p \in Pcb, NEW prnt \in Pcb, insertChild(prnt, p)
        PROVE  Abstract!Next
    BY <2>3, InsertImplements DEF Abstract!Next
  <2>. QED  BY <1>1, <2>1, <2>2, <2>3 DEF Next
<1>2. CASE UNCHANGED vars
  <2>1. Kids' = Kids /\ p_prnt' = p_prnt /\ result' = result
    BY <1>2, SameKids DEF vars, links
  <2>. QED  BY <2>1 DEF Abstract!vars, Kids
<1>. QED  BY <1>1, <1>2

(***************************************************************************)
(* insertChild, removeChild and outChild do to the sequences of children   *)
(* what Forest says, returned value included.                              *)
(***************************************************************************)
THEOREM LinksImplementForest == ASSUME Table PROVE Spec => ImplementsForest
<1>1. Init => Abstract!Init
  BY ForestInit
<1>2. TreeInv /\ [Next]_vars => [Abstract!Next]_Abstract!vars
  BY ForestStep
<1>. QED  BY <1>1, <1>2, TreeInvariant, PTL DEF Spec, ImplementsForest, Abstract!Spec
==============================================================================
