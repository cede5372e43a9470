----------------------------- MODULE ListProofs -----------------------------
(***************************************************************************)
(* Linked lists of threads.  The library links threads through a field of  *)
(* their records, nxt in uthread_create.c and uthread_exit.c, qnxt in      *)
(* uthread_queue.c; here is what its operations do to the sequence of the  *)
(* threads on a list.  f is the field, h the head.                         *)
(***************************************************************************)
EXTENDS Pthreads, Integers, Sequences, FiniteSets, TLAPS, FiniteSetTheorems,
        WellFoundedInduction

Elems(s) == {s[i] : i \in 1..Len(s)}

IsList(f, h, s) ==
  /\ s \in Seq(Threads)
  /\ \A i, j \in 1..Len(s) : s[i] = s[j] => i = j
  /\ h = IF Len(s) = 0 THEN NoThread ELSE s[1]
  /\ \A i \in 1..Len(s) : f[s[i]] = IF i = Len(s) THEN NoThread ELSE s[i+1]

\* s without its k-th element.
Without(s, k) == [i \in 1..(Len(s)-1) |-> IF i < k THEN s[i] ELSE s[i+1]]

-----------------------------------------------------------------------------
LEMMA LeastNat ==
  ASSUME NEW S, S \subseteq Nat, S # {}
  PROVE  \E x \in S : \A y \in S : x <= y
<1> DEFINE R == {ss \in Nat \X Nat : ss[1] < ss[2]}
<1>1. IsWellFoundedOn(R, Nat)
  BY NatLessThanWellFounded DEF OpToRel
<1> HIDE DEF R
<1>2. PICK x \in S : \A y \in S : <<y, x>> \notin R
  BY <1>1, WFMin
<1>3. ASSUME NEW y \in S PROVE x <= y
  <2>1. x \in Nat /\ y \in Nat
    OBVIOUS
  <2>2. <<y, x>> \in R <=> y < x
    BY <2>1 DEF R
  <2> QED
    BY <1>2, <2>1, <2>2
<1> QED
  BY <1>3

\* A set of numbers that holds 0 and with each number below m the next one
\* holds them all.
LEMMA UpTo ==
  ASSUME NEW m \in Nat, NEW S, 0 \in S, \A n \in 0..(m-1) : n \in S => n + 1 \in S
  PROVE  0..m \subseteq S
<1> SUFFICES ASSUME NEW a \in 0..m, a \notin S PROVE FALSE
  OBVIOUS
<1> DEFINE T == {n \in 0..m : n \notin S}
<1>1. T \subseteq Nat /\ T # {}
  OBVIOUS
<1>2. PICK x \in T : \A y \in T : x <= y
  <2> HIDE DEF T
  <2> QED
    BY <1>1, LeastNat
<1>3. x \in 1..m /\ x \notin S
  OBVIOUS
<1>4. x-1 \in 0..(m-1) /\ ~(x <= x-1) /\ (x-1)+1 = x
  BY <1>3
<1>5. x-1 \in S
  <2>1. x-1 \in 0..m
    BY <1>4
  <2>2. x-1 \notin T
    BY <1>2, <1>4
  <2> QED
    BY <2>1, <2>2
<1> QED
  BY <1>3, <1>4, <1>5

-----------------------------------------------------------------------------
LEMMA EmptyList ==
  ASSUME NEW f
  PROVE  IsList(f, NoThread, <<>>) /\ Elems(<<>>) = {}
BY DEF IsList, Elems

LEMMA OneElement ==
  ASSUME NEW f, NEW t \in Threads, f[t] = NoThread
  PROVE  IsList(f, t, <<t>>) /\ Elems(<<t>>) = {t}
<1>1. Len(<<t>>) = 1 /\ 1..1 = {1} /\ <<t>>[1] = t /\ <<t>> \in Seq(Threads)
  OBVIOUS
<1> QED
  BY <1>1 DEF IsList, Elems

LEMMA ListHead ==
  ASSUME NEW f, NEW h, NEW s, IsList(f, h, s)
  PROVE  /\ Elems(s) \subseteq Threads
         /\ h \in Threads \cup {NoThread}
         /\ h = NoThread <=> s = <<>>
         /\ h = NoThread <=> Elems(s) = {}
         /\ h # NoThread => h \in Elems(s)
<1>1. s \in Seq(Threads) /\ Len(s) \in Nat
  BY DEF IsList
<1>2. \A i \in 1..Len(s) : s[i] \in Threads
  BY <1>1
<1>3. Elems(s) \subseteq Threads
  BY <1>2 DEF Elems
<1>4. CASE Len(s) = 0
  BY <1>1, <1>4 DEF IsList, Elems
<1>5. CASE Len(s) # 0
  <2>1. 1 \in 1..Len(s) /\ h = s[1] /\ s # <<>>
    BY <1>1, <1>5 DEF IsList
  <2>2. h \in Elems(s) /\ h # NoThread
    BY <1>2, <2>1, ThreadAssumption DEF Elems
  <2> QED
    BY <1>3, <2>1, <2>2
<1> QED
  BY <1>4, <1>5

\* Only what the elements say counts.
LEMMA SameList ==
  ASSUME NEW f, NEW g, NEW h, NEW s, IsList(f, h, s), \A x \in Elems(s) : g[x] = f[x]
  PROVE  IsList(g, h, s)
BY DEF IsList, Elems

\* Nobody on a list points back to its head.
LEMMA HeadIsNobodysNext ==
  ASSUME NEW f, NEW h, NEW s, IsList(f, h, s), NEW x \in Elems(s), h \in Threads
  PROVE  f[x] # h
<1>1. PICK i \in 1..Len(s) : x = s[i]
  BY DEF Elems
<1>2. 1 \in 1..Len(s) /\ h = s[1] /\ Len(s) \in Nat
  BY <1>1 DEF IsList
<1>3. CASE i = Len(s)
  BY <1>1, <1>3, ThreadAssumption DEF IsList
<1>4. CASE i # Len(s)
  <2>1. i+1 \in 1..Len(s) /\ i+1 # 1
    BY <1>2, <1>4
  <2>2. f[x] = s[i+1]
    BY <1>1, <1>4 DEF IsList
  <2> QED
    BY <1>2, <2>1, <2>2 DEF IsList
<1> QED
  BY <1>3, <1>4

LEMMA PushList ==
  ASSUME NEW f, NEW g, NEW h, NEW s, IsList(f, h, s),
         NEW t \in Threads, t \notin Elems(s), g[t] = h, \A x \in Elems(s) : g[x] = f[x]
  PROVE  /\ IsList(g, t, <<t>> \o s)
         /\ Elems(<<t>> \o s) = Elems(s) \cup {t}
<1> DEFINE r == <<t>> \o s
<1>1. s \in Seq(Threads) /\ Len(s) \in Nat
  BY DEF IsList
<1>2. r \in Seq(Threads) /\ Len(r) = Len(s) + 1
  BY <1>1
<1>3. r[1] = t
  BY <1>1
<1>4. \A i \in 2..(Len(s)+1) : r[i] = s[i-1]
  BY <1>1
<1>5. \A i \in 1..Len(s) : r[i+1] = s[i]
  BY <1>1
<1> HIDE DEF r
<1>6. ASSUME NEW i \in 1..Len(r), NEW j \in 1..Len(r), r[i] = r[j]
      PROVE  i = j
  <2>1. \A n \in 2..(Len(s)+1) : n-1 \in 1..Len(s) /\ r[n] \in Elems(s)
    BY <1>1, <1>4 DEF Elems
  <2>2. CASE i = 1 /\ j # 1
    <3>1. j \in 2..(Len(s)+1)
      BY <1>1, <1>2, <2>2
    <3> QED
      BY <1>3, <1>6, <2>1, <2>2, <3>1
  <2>3. CASE j = 1 /\ i # 1
    <3>1. i \in 2..(Len(s)+1)
      BY <1>1, <1>2, <2>3
    <3> QED
      BY <1>3, <1>6, <2>1, <2>3, <3>1
  <2>4. CASE j # 1 /\ i # 1
    <3>1. i \in 2..(Len(s)+1) /\ j \in 2..(Len(s)+1)
      BY <1>1, <1>2, <2>4
    <3>2. i-1 \in 1..Len(s) /\ j-1 \in 1..Len(s) /\ s[i-1] = s[j-1]
      BY <1>4, <1>6, <2>1, <3>1
    <3>3. i-1 = j-1
      BY <3>2 DEF IsList
    <3> QED
      BY <3>1, <3>3
  <2> QED
    BY <2>2, <2>3, <2>4
<1>7. ASSUME NEW i \in 1..Len(r)
      PROVE  g[r[i]] = IF i = Len(r) THEN NoThread ELSE r[i+1]
  <2>1. CASE i = 1
    <3>1. g[r[i]] = h
      BY <1>3, <2>1
    <3>2. CASE Len(s) = 0
      BY <1>2, <2>1, <3>1, <3>2 DEF IsList
    <3>3. CASE Len(s) # 0
      <4>1. h = s[1] /\ r[2] = s[1]
        BY <1>1, <1>5, <3>3 DEF IsList
      <4> QED
        BY <1>1, <1>2, <2>1, <3>1, <3>3, <4>1
    <3> QED
      BY <3>2, <3>3
  <2>2. CASE i # 1
    <3>1. /\ i \in 2..(Len(s)+1) /\ i-1 \in 1..Len(s)
          /\ i = Len(r) <=> i-1 = Len(s)
      BY <1>1, <1>2, <2>2
    <3>2. r[i] = s[i-1] /\ s[i-1] \in Elems(s)
      BY <1>4, <3>1 DEF Elems
    <3>3. g[r[i]] = f[s[i-1]]
      BY <3>2
    <3>4. f[s[i-1]] = IF i-1 = Len(s) THEN NoThread ELSE s[(i-1)+1]
      BY <3>1 DEF IsList
    <3>5. (i-1)+1 = i
      BY <3>1
    <3>6. i # Len(r) => r[i+1] = s[i]
      BY <1>1, <1>2, <1>5, <3>1
    <3> QED
      BY <3>1, <3>3, <3>4, <3>5, <3>6
  <2> QED
    BY <2>1, <2>2
<1>8. IsList(g, t, r)
  BY <1>1, <1>2, <1>3, <1>6, <1>7 DEF IsList
<1>9. Elems(r) = Elems(s) \cup {t}
  <2>1. ASSUME NEW x \in Elems(r) PROVE x \in Elems(s) \cup {t}
    <3>1. PICK i \in 1..Len(r) : x = r[i]
      BY <2>1 DEF Elems
    <3>2. i = 1 \/ (i \in 2..(Len(s)+1) /\ i-1 \in 1..Len(s))
      BY <1>1, <1>2
    <3> QED
      BY <1>3, <1>4, <3>1, <3>2 DEF Elems
  <2>2. ASSUME NEW x \in Elems(s) PROVE x \in Elems(r)
    <3>1. PICK i \in 1..Len(s) : x = s[i]
      BY <2>2 DEF Elems
    <3>2. i+1 \in 1..Len(r) /\ r[i+1] = x
      BY <1>1, <1>2, <1>5, <3>1
    <3> QED
      BY <3>2 DEF Elems
  <2>3. t \in Elems(r)
    <3>1. 1 \in 1..Len(r)
      BY <1>1, <1>2
    <3> QED
      BY <1>3, <3>1 DEF Elems
  <2> QED
    BY <2>1, <2>2, <2>3
<1> QED
  BY <1>8, <1>9 DEF r

LEMMA AppendList ==
  ASSUME NEW f, NEW g, NEW h, NEW s, IsList(f, h, s), Len(s) # 0,
         NEW t \in Threads, t \notin Elems(s), g[t] = NoThread, g[s[Len(s)]] = t,
         \A x \in Elems(s) : x # s[Len(s)] => g[x] = f[x]
  PROVE  /\ IsList(g, h, Append(s, t))
         /\ Elems(Append(s, t)) = Elems(s) \cup {t}
<1> DEFINE r == Append(s, t)
<1>1. s \in Seq(Threads) /\ Len(s) \in Nat
  BY DEF IsList
<1>2. r \in Seq(Threads) /\ Len(r) = Len(s) + 1
  BY <1>1
<1>3. \A i \in 1..Len(s) : r[i] = s[i] /\ s[i] \in Elems(s)
  BY <1>1 DEF Elems
<1>4. r[Len(s)+1] = t
  BY <1>1
<1> HIDE DEF r
<1>5. \A i \in 1..Len(r) : i \in 1..Len(s) \/ i = Len(s)+1
  BY <1>1, <1>2
<1>6. ASSUME NEW i \in 1..Len(r), NEW j \in 1..Len(r), r[i] = r[j]
      PROVE  i = j
  <2>1. CASE i \in 1..Len(s) /\ j \in 1..Len(s)
    BY <1>3, <1>6, <2>1 DEF IsList
  <2> QED
    BY <1>3, <1>4, <1>5, <1>6, <2>1
<1>7. ASSUME NEW i \in 1..Len(r)
      PROVE  g[r[i]] = IF i = Len(r) THEN NoThread ELSE r[i+1]
  <2>1. CASE i = Len(s)+1
    BY <1>2, <1>4, <2>1
  <2>2. CASE i = Len(s)
    <3>1. i \in 1..Len(s) /\ i # Len(r)
      BY <1>1, <1>2, <2>2
    <3> QED
      BY <1>3, <1>4, <2>2, <3>1
  <2>3. CASE i \in 1..Len(s) /\ i # Len(s)
    <3>1. i+1 \in 1..Len(s) /\ i # Len(r)
      BY <1>1, <1>2, <2>3
    <3>2. Len(s) \in 1..Len(s)
      BY <1>1
    <3>3. s[i] # s[Len(s)]
      BY <2>3, <3>2 DEF IsList
    <3>4. g[s[i]] = f[s[i]]
      BY <1>3, <2>3, <3>3
    <3>5. f[s[i]] = s[i+1]
      BY <2>3 DEF IsList
    <3> QED
      BY <1>3, <2>3, <3>1, <3>4, <3>5
  <2> QED
    BY <1>5, <2>1, <2>2, <2>3
<1>8. h = r[1] /\ Len(r) # 0
  <2>1. 1 \in 1..Len(s)
    BY <1>1
  <2>2. h = s[1]
    BY DEF IsList
  <2> QED
    BY <1>1, <1>2, <1>3, <2>1, <2>2
<1>9. IsList(g, h, r)
  BY <1>2, <1>6, <1>7, <1>8 DEF IsList
<1>10. Elems(r) = Elems(s) \cup {t}
  <2>1. ASSUME NEW x \in Elems(r) PROVE x \in Elems(s) \cup {t}
    BY <1>3, <1>4, <1>5, <2>1 DEF Elems
  <2>2. ASSUME NEW x \in Elems(s) PROVE x \in Elems(r)
    <3>1. PICK i \in 1..Len(s) : x = s[i]
      BY <2>2 DEF Elems
    <3>2. i \in 1..Len(r) /\ r[i] = x
      BY <1>1, <1>2, <1>3, <3>1
    <3> QED
      BY <3>2 DEF Elems
  <2>3. t \in Elems(r)
    <3>1. Len(s)+1 \in 1..Len(r)
      BY <1>1, <1>2
    <3> QED
      BY <1>4, <3>1 DEF Elems
  <2> QED
    BY <2>1, <2>2, <2>3
<1> QED
  BY <1>9, <1>10 DEF r

\* What pointed to the k-th element points past it.
LEMMA RemoveList ==
  ASSUME NEW f, NEW g, NEW h, NEW s, IsList(f, h, s), NEW k \in 1..Len(s),
         \A x \in Elems(s) \ {s[k]} : g[x] = IF f[x] = s[k] THEN f[s[k]] ELSE f[x]
  PROVE  /\ IsList(g, IF h = s[k] THEN f[s[k]] ELSE h, Without(s, k))
         /\ Elems(Without(s, k)) = Elems(s) \ {s[k]}
         /\ h = s[k] <=> k = 1
<1> DEFINE r == Without(s, k)
           p(i) == IF i < k THEN i ELSE i+1
<1>1. s \in Seq(Threads) /\ Len(s) \in Nat /\ Len(s)-1 \in Nat
  BY DEF IsList
<1>2. \A i \in 1..(Len(s)-1) : r[i] = s[p(i)] /\ p(i) \in 1..Len(s) /\ p(i) # k
  BY <1>1 DEF Without
<1>3. r \in Seq(Threads) /\ Len(r) = Len(s)-1
  <2>1. \A i \in 1..(Len(s)-1) : (IF i < k THEN s[i] ELSE s[i+1]) \in Threads
    BY <1>1
  <2>2. r \in [1..(Len(s)-1) -> Threads]
    BY <2>1 DEF Without
  <2> QED
    BY <1>1, <2>2
<1>4. \A i, j \in 1..(Len(s)-1) : p(i) = p(j) => i = j
  BY <1>1
<1>5. \A i \in 1..Len(s) : i # k => \E n \in 1..(Len(s)-1) : i = p(n)
  <2> SUFFICES ASSUME NEW i \in 1..Len(s), i # k
               PROVE  \E n \in 1..(Len(s)-1) : i = p(n)
    OBVIOUS
  <2>1. CASE i < k
    <3>1. i \in 1..(Len(s)-1) /\ i = p(i)
      BY <1>1, <2>1
    <3> QED
      BY <3>1
  <2>2. CASE ~(i < k)
    <3>1. i-1 \in 1..(Len(s)-1) /\ i = p(i-1)
      BY <1>1, <2>2
    <3> QED
      BY <3>1
  <2> QED
    BY <2>1, <2>2
<1>6. \A i, j \in 1..Len(s) : s[i] = s[j] => i = j
  BY DEF IsList
<1>7. \A i \in 1..Len(s) : f[s[i]] = IF i = Len(s) THEN NoThread ELSE s[i+1]
  BY DEF IsList
<1>8. \A i \in 1..Len(s) : s[i] \in Threads /\ s[i] \in Elems(s)
  BY <1>1 DEF Elems
<1> HIDE DEF r
\* What the k-1st element says, and the others.
<1>9. \A i \in 1..Len(s) : f[s[i]] = s[k] <=> i+1 = k
  <2> SUFFICES ASSUME NEW i \in 1..Len(s) PROVE f[s[i]] = s[k] <=> i+1 = k
    OBVIOUS
  <2>1. CASE i = Len(s)
    <3>1. i+1 # k
      BY <1>1, <2>1
    <3> QED
      BY <1>7, <1>8, <2>1, <3>1, ThreadAssumption
  <2>2. CASE i # Len(s)
    <3>1. i+1 \in 1..Len(s) /\ f[s[i]] = s[i+1]
      BY <1>1, <1>7, <2>2
    <3> QED
      BY <1>6, <3>1
  <2> QED
    BY <2>1, <2>2
<1>10. \A i \in 1..Len(s) : i # k =>
         g[s[i]] = IF i+1 = k THEN f[s[k]] ELSE f[s[i]]
  BY <1>6, <1>8, <1>9
<1>11. ASSUME NEW i \in 1..Len(r)
       PROVE  g[r[i]] = IF i = Len(r) THEN NoThread ELSE r[i+1]
  <2>1. i \in 1..(Len(s)-1) /\ r[i] = s[p(i)] /\ p(i) \in 1..Len(s) /\ p(i) # k
    BY <1>2, <1>3
  <2>2. g[r[i]] = IF p(i)+1 = k THEN f[s[k]] ELSE f[s[p(i)]]
    BY <1>10, <2>1
  <2>3. CASE i+1 < k
    <3>1. p(i) = i /\ p(i+1) = i+1 /\ i # Len(r) /\ i+1 \in 1..(Len(s)-1) /\ i # Len(s)
      BY <1>1, <1>3, <2>1, <2>3
    <3>2. g[r[i]] = s[i+1] /\ r[i+1] = s[i+1]
      BY <1>2, <1>7, <2>1, <2>2, <2>3, <3>1
    <3> QED
      BY <3>1, <3>2
  <2>4. CASE i+1 = k
    <3>1. p(i) = i /\ p(i)+1 = k
      BY <2>1, <2>4
    <3>2. g[r[i]] = IF k = Len(s) THEN NoThread ELSE s[k+1]
      BY <1>7, <2>2, <3>1
    <3>3. i = Len(r) <=> k = Len(s)
      BY <1>1, <1>3, <2>1, <2>4
    <3>4. k # Len(s) => i+1 \in 1..(Len(s)-1) /\ p(i+1) = k+1
      BY <1>1, <2>1, <2>4
    <3>5. k # Len(s) => r[i+1] = s[k+1]
      BY <1>2, <3>4
    <3> QED
      BY <3>2, <3>3, <3>5
  <2>5. CASE i+1 > k
    <3>1. p(i) = i+1 /\ p(i)+1 # k
      BY <2>1, <2>5
    <3>2. g[r[i]] = IF i+1 = Len(s) THEN NoThread ELSE s[(i+1)+1]
      BY <1>7, <2>1, <2>2, <3>1
    <3>3. i = Len(r) <=> i+1 = Len(s)
      BY <1>1, <1>3, <2>1
    <3>4. i+1 # Len(s) => i+1 \in 1..(Len(s)-1) /\ p(i+1) = (i+1)+1
      BY <1>1, <2>1, <2>5
    <3>5. i+1 # Len(s) => r[i+1] = s[(i+1)+1]
      BY <1>2, <3>4
    <3> QED
      BY <3>2, <3>3, <3>5
  <2> QED
    BY <2>1, <2>3, <2>4, <2>5
<1>12. \A i, j \in 1..Len(r) : r[i] = r[j] => i = j
  BY <1>2, <1>3, <1>4, <1>6
<1>13. h = s[1] /\ 1 \in 1..Len(s) /\ (h = s[k] <=> k = 1)
  <2>1. Len(s) # 0 /\ 1 \in 1..Len(s)
    BY <1>1
  <2> QED
    BY <1>6, <2>1 DEF IsList
<1> DEFINE head == IF h = s[k] THEN f[s[k]] ELSE h
<1>14. head = IF Len(r) = 0 THEN NoThread ELSE r[1]
  <2>1. CASE k = 1
    <3>1. head = IF Len(s) = 1 THEN NoThread ELSE s[2]
      <4>1. head = f[s[1]]
        BY <1>13, <2>1
      <4>2. f[s[1]] = IF 1 = Len(s) THEN NoThread ELSE s[1+1]
        BY <1>7, <1>13
      <4>3. 1+1 = 2
        OBVIOUS
      <4> QED
        BY <4>1, <4>2, <4>3
    <3>2. Len(s) # 1 => 1 \in 1..(Len(s)-1) /\ p(1) = 2
      <4>1. Len(s) # 1 => 1 \in 1..(Len(s)-1)
        <5>1. \A n \in Nat : 1 \in 1..n /\ n # 1 => 1 \in 1..(n-1)
          OBVIOUS
        <5> QED
          BY <1>1, <1>13, <5>1
      <4>2. p(1) = 2
        BY <2>1
      <4> QED
        BY <4>1, <4>2
    <3>3. Len(s) # 1 => r[1] = s[2]
      BY <1>2, <3>2
    <3>4. Len(r) = 0 <=> Len(s) = 1
      BY <1>1, <1>3
    <3> QED
      BY <3>1, <3>3, <3>4
  <2>2. CASE k # 1
    <3>1. head = s[1]
      BY <1>13, <2>2
    <3>2. 1 \in 1..(Len(s)-1) /\ p(1) = 1 /\ Len(s) # 1
      BY <1>1, <2>2
    <3>3. r[1] = s[1] /\ Len(r) # 0
      BY <1>1, <1>2, <1>3, <3>2
    <3> QED
      BY <3>1, <3>3
  <2> QED
    BY <2>1, <2>2
<1>15. IsList(g, head, r)
  BY <1>3, <1>11, <1>12, <1>14 DEF IsList
<1>16. Elems(r) = Elems(s) \ {s[k]}
  <2>1. ASSUME NEW x \in Elems(r) PROVE x \in Elems(s) \ {s[k]}
    <3>1. PICK i \in 1..Len(r) : x = r[i]
      BY <2>1 DEF Elems
    <3>2. x = s[p(i)] /\ p(i) \in 1..Len(s) /\ p(i) # k
      BY <1>2, <1>3, <3>1
    <3>3. s[p(i)] # s[k]
      BY <1>6, <3>2
    <3> QED
      BY <1>8, <3>2, <3>3
  <2>2. ASSUME NEW x \in Elems(s) \ {s[k]} PROVE x \in Elems(r)
    <3>1. PICK i \in 1..Len(s) : x = s[i]
      BY <2>2 DEF Elems
    <3>2. PICK n \in 1..(Len(s)-1) : i = p(n)
      BY <1>5, <2>2, <3>1
    <3>3. x = r[n] /\ n \in 1..Len(r)
      BY <1>2, <1>3, <3>1, <3>2
    <3> QED
      BY <3>3 DEF Elems
  <2> QED
    BY <2>1, <2>2
<1> QED
  BY <1>13, <1>15, <1>16 DEF r

\* No list is longer than there are threads.
LEMMA ListBound ==
  ASSUME IsFiniteSet(Threads), NEW f, NEW h, NEW s, IsList(f, h, s)
  PROVE  /\ Len(s) \in Nat /\ Cardinality(Threads) \in Nat
         /\ Len(s) <= Cardinality(Threads)
<1>1. s \in Seq(Threads) /\ Len(s) \in Nat
  BY DEF IsList
<1>2. IsFiniteSet(1..Len(s)) /\ Cardinality(1..Len(s)) = Len(s)
  <2>1. IsFiniteSet(1..Len(s)) /\ Cardinality(1..Len(s)) = IF 1 > Len(s) THEN 0 ELSE Len(s) - 1 + 1
    BY <1>1, FS_Interval
  <2> QED
    BY <1>1, <2>1
<1>3. s \in Injection(1..Len(s), Threads)
  <2>1. s \in [1..Len(s) -> Threads]
    BY <1>1
  <2> QED
    BY <2>1 DEF Injection, IsInjective, IsList
<1>4. Cardinality(Threads) \in Nat
  BY FS_CardinalityType
<1>5. Cardinality(1..Len(s)) <= Cardinality(Threads)
  BY <1>3, FS_Injection
<1> QED
  BY <1>1, <1>2, <1>4, <1>5
=============================================================================
