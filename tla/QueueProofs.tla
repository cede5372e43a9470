----------------------------- MODULE QueueProofs -----------------------------
(***************************************************************************)
(* Proofs about Queue, for every finite set of threads and any queues and  *)
(* plain lists: the linked threads are sequences, and the operations do to *)
(* them what Fifo says.                                                    *)
(***************************************************************************)
EXTENDS Queue, ListProofs, SequenceTheorems

\* Following the field from the head of a list gives the list.
LEMMA FromList ==
  ASSUME IsFiniteSet(Threads), NEW f, NEW h, NEW s, IsList(f, h, s)
  PROVE  From(f, h) = s
<1> DEFINE N == Cardinality(Threads)
           Further(p) == LET y == IF p = <<>> THEN h ELSE f[p[Len(p)]]
                         IN IF y = NoThread THEN p ELSE Append(p, y)
           walk[n \in 0..N] == IF n = 0 THEN <<>> ELSE Further(walk[n-1])
           Upto(n) == IF n <= Len(s) THEN SubSeq(s, 1, n) ELSE s
           r == [n \in 0..N |-> Upto(n)]
<1>1. /\ Len(s) \in Nat /\ N \in Nat /\ Len(s) <= N
      /\ s \in Seq(Threads) /\ \A i \in 1..Len(s) : s[i] # NoThread
  BY ListBound, ThreadAssumption DEF IsList
<1>2. Upto(0) = <<>>
  BY <1>1
<1>3. ASSUME NEW n \in Nat \ {0} PROVE Upto(n) = Further(Upto(n-1))
  <2>1. n-1 \in Nat /\ (n-1)+1 = n
    OBVIOUS
  <2>2. CASE n-1 < Len(s)
    <3> DEFINE p == SubSeq(s, 1, n-1)
    <3>1. p \in Seq(Threads) /\ Len(p) = n-1 /\ \A i \in 1..(n-1) : p[i] = s[i]
      BY <1>1, <2>1, <2>2
    <3>2. Upto(n-1) = p /\ n <= Len(s) /\ n \in 1..Len(s)
      BY <1>1, <2>1, <2>2
    <3>3. (IF p = <<>> THEN h ELSE f[p[Len(p)]]) = s[n]
      <4>1. CASE n = 1
        <5>1. p = <<>>
          BY <3>1, <4>1
        <5> QED
          BY <1>1, <3>2, <4>1, <5>1 DEF IsList
      <4>2. CASE n # 1
        <5>1. n-1 \in 1..Len(s) /\ n-1 # Len(s) /\ n-1 \in 1..(n-1)
          BY <1>1, <2>1, <2>2, <4>2
        <5>2. p # <<>> /\ p[Len(p)] = s[n-1]
          BY <3>1, <5>1
        <5>3. f[s[n-1]] = s[(n-1)+1]
          BY <5>1 DEF IsList
        <5> QED
          BY <2>1, <5>2, <5>3
      <4> QED
        BY <4>1, <4>2
    <3>4. Further(Upto(n-1)) = Append(p, s[n])
      BY <1>1, <3>2, <3>3
    <3>5. SubSeq(s, 1, n) = Append(p, s[n])
      <4>1. s[n] \in Threads
        BY <1>1, <3>2
      <4>2. Append(p, s[n]) \in Seq(Threads) /\ Len(Append(p, s[n])) = n
        BY <2>1, <3>1, <4>1
      <4>3. SubSeq(s, 1, n) \in Seq(Threads) /\ Len(SubSeq(s, 1, n)) = n
        BY <1>1, <3>2
      <4>4. \A i \in 1..n : SubSeq(s, 1, n)[i] = s[i]
        BY <1>1, <3>2
      <4>5. \A i \in 1..n : Append(p, s[n])[i] = s[i]
        <5> SUFFICES ASSUME NEW i \in 1..n PROVE Append(p, s[n])[i] = s[i]
          OBVIOUS
        <5>1. CASE i = n
          BY <2>1, <3>1, <5>1
        <5>2. CASE i # n
          <6>1. i \in 1..(n-1)
            BY <5>2
          <6>2. Append(p, s[n])[i] = p[i]
            BY <3>1, <6>1
          <6> QED
            BY <3>1, <6>1, <6>2
        <5> QED
          BY <5>1, <5>2
      <4> QED
        BY <4>2, <4>3, <4>4, <4>5
    <3> QED
      BY <3>2, <3>4, <3>5
  <2>3. CASE ~(n-1 < Len(s))
    <3>1. ~(n <= Len(s)) /\ Upto(n) = s
      BY <1>1, <2>1, <2>3
    <3>2. Upto(n-1) = s
      <4>1. SubSeq(s, 1, Len(s)) = s
        BY <1>1
      <4> QED
        BY <1>1, <2>1, <2>3, <4>1
    <3>3. (IF s = <<>> THEN h ELSE f[s[Len(s)]]) = NoThread
      <4>1. CASE Len(s) = 0
        BY <1>1, <4>1 DEF IsList
      <4>2. CASE Len(s) # 0
        BY <1>1, <4>2 DEF IsList
      <4> QED
        BY <4>1, <4>2
    <3> QED
      BY <3>1, <3>2, <3>3
  <2> QED
    BY <2>2, <2>3
<1> HIDE DEF Further, Upto
<1>4. r = [n \in 0..N |-> IF n = 0 THEN <<>> ELSE Further(r[n-1])]
  <2>1. \A n \in 0..N : n # 0 => n-1 \in 0..N /\ n \in Nat \ {0}
    BY <1>1
  <2>2. \A n \in 0..N : r[n] = IF n = 0 THEN <<>> ELSE Further(r[n-1])
    BY <1>2, <1>3, <2>1
  <2> QED
    BY <2>2
<1>5. walk = [n \in 0..N |-> IF n = 0 THEN <<>> ELSE Further(walk[n-1])]
  <2> HIDE DEF r
  <2> QED
    BY <1>4
<1>6. From(f, h) = walk[N]
  BY DEF From, Further
<1> HIDE DEF walk
<1> DEFINE S == {n \in 0..N : walk[n] = Upto(n)}
<1>7. 0 \in S
  BY <1>1, <1>2, <1>5
<1>8. \A n \in 0..(N-1) : n \in S => n+1 \in S
  <2> SUFFICES ASSUME NEW n \in 0..(N-1), walk[n] = Upto(n)
               PROVE  walk[n+1] = Upto(n+1) /\ n+1 \in 0..N
    OBVIOUS
  <2>1. n+1 \in 0..N /\ n+1 # 0 /\ (n+1)-1 = n /\ n+1 \in Nat \ {0}
    BY <1>1
  <2>2. walk[n+1] = Further(walk[n])
    BY <1>5, <2>1
  <2>3. Upto(n+1) = Further(Upto(n))
    BY <1>3, <2>1
  <2> QED
    BY <2>1, <2>2, <2>3
<1>9. N \in S
  <2> HIDE DEF S
  <2>1. 0..N \subseteq S
    BY <1>1, <1>7, <1>8, UpTo
  <2>2. N \in 0..N
    BY <1>1
  <2> QED
    BY <2>1, <2>2
<1>10. Upto(N) = s
  <2>1. SubSeq(s, 1, Len(s)) = s
    BY <1>1
  <2> QED
    BY <1>1, <2>1 DEF Upto
<1> QED
  BY <1>6, <1>9, <1>10

-----------------------------------------------------------------------------
(***************************************************************************)
(* The invariant: every queue and plain list is a list, no thread is on    *)
(* two of them, and the fields queue and q_last say where threads are.     *)
(***************************************************************************)
AllLists    == Queues \cup PlainLists
Contents(l) == From(qnxt, next[l])

Listed == \A l \in AllLists : IsList(qnxt, next[l], Contents(l))

Apart ==
  \A l, m \in AllLists : l # m => Elems(Contents(l)) \cap Elems(Contents(m)) = {}

Owned == \A q \in Queues, t \in Threads : queue[t] = q <=> t \in Elems(Contents(q))

LastOf(s) == IF Len(s) = 0 THEN NoThread ELSE s[Len(s)]
Ends      == \A q \in Queues : last[q] = LastOf(Contents(q))

QueueInv == QueueTypeOK /\ Listed /\ Apart /\ Owned /\ Ends

LEMMA ListsAre ==
  ASSUME Listed, NEW l \in AllLists
  PROVE  /\ Contents(l) \in Seq(Threads) /\ Len(Contents(l)) \in Nat
         /\ Elems(Contents(l)) \subseteq Threads
         /\ On(l) = Elems(Contents(l))
         /\ F!Members(Contents(l)) = Elems(Contents(l))
         /\ next[l] = NoThread <=> Contents(l) = <<>>
         /\ next[l] # NoThread => next[l] \in Elems(Contents(l))
<1>1. IsList(qnxt, next[l], Contents(l))
  BY DEF Listed
<1>2. Contents(l) \in Seq(Threads) /\ Len(Contents(l)) \in Nat
  BY <1>1 DEF IsList
<1>3. DOMAIN Contents(l) = 1..Len(Contents(l))
  BY <1>2
<1>4. On(l) = Elems(Contents(l))
  BY <1>3 DEF On, Contents, Elems
<1>5. F!Members(Contents(l)) = Elems(Contents(l))
  BY <1>3 DEF F!Members, Elems
<1> QED
  BY <1>1, <1>2, <1>4, <1>5, ListHead

\* A thread that is free is on no list.
LEMMA FreeIsNowhere ==
  ASSUME QueueInv, NEW t \in Threads, IsFree(t)
  PROVE  \A l \in AllLists : t \notin Elems(Contents(l))
<1> SUFFICES ASSUME NEW l \in AllLists, t \in Elems(Contents(l)) PROVE FALSE
  OBVIOUS
<1>1. CASE l \in Queues
  BY <1>1, QueueAssumption DEF IsFree, QueueInv, Owned
<1>2. CASE l \in PlainLists
  BY <1>2, ListsAre DEF IsFree, QueueInv
<1> QED
  BY <1>1, <1>2 DEF AllLists

\* The list l holds r now, and the others are as they were.
Becomes(l, r) ==
  /\ Contents(l)' = r
  /\ \A m \in AllLists \ {l} : Contents(m)' = Contents(m)
  /\ Listed'
  /\ Apart'

LEMMA Change ==
  ASSUME IsFiniteSet(Threads), Listed, Apart, NEW l \in AllLists, NEW r,
         IsList(qnxt', next'[l], r),
         \A m \in AllLists \ {l} :
           /\ next'[m] = next[m]
           /\ \A x \in Elems(Contents(m)) : qnxt'[x] = qnxt[x] /\ x \notin Elems(r)
  PROVE  Becomes(l, r)
<1>1. Contents(l)' = r
  BY FromList DEF Contents
<1>2. ASSUME NEW m \in AllLists \ {l}
      PROVE  Contents(m)' = Contents(m) /\ IsList(qnxt', next'[m], Contents(m))
  <2>1. IsList(qnxt, next[m], Contents(m)) /\ next'[m] = next[m]
    BY DEF Listed
  <2>2. IsList(qnxt', next[m], Contents(m))
    BY <2>1, SameList
  <2>3. From(qnxt', next[m]) = Contents(m)
    BY <2>2, FromList
  <2> QED
    BY <2>1, <2>2, <2>3 DEF Contents
<1>3. Listed'
  <2> SUFFICES ASSUME NEW m \in AllLists PROVE IsList(qnxt', next'[m], Contents(m)')
    BY DEF Listed
  <2> QED
    BY <1>1, <1>2
<1>4. Apart'
  <2> SUFFICES ASSUME NEW m \in AllLists, NEW n \in AllLists, m # n
               PROVE  Elems(Contents(m)') \cap Elems(Contents(n)') = {}
    BY DEF Apart, Elems
  <2>1. CASE m = l
    BY <1>1, <1>2, <2>1
  <2>2. CASE n = l
    BY <1>1, <1>2, <2>2
  <2>3. CASE m # l /\ n # l
    BY <1>2, <2>3 DEF Apart
  <2> QED
    BY <2>1, <2>2, <2>3
<1> QED
  BY <1>1, <1>2, <1>3, <1>4 DEF Becomes

\* What that is to the abstract queues.
LEMMA BecomesPut ==
  ASSUME NEW l \in AllLists, NEW r, Becomes(l, r), NEW a, answer' = a
  PROVE  F!Put(l, r, a)
<1>1. /\ [m \in Queues \cup PlainLists |-> From(qnxt, next[m])]'
           = [[m \in Queues \cup PlainLists |-> From(qnxt, next[m])] EXCEPT ![l] = r]
  BY DEF Becomes, Contents, AllLists
<1> QED
  BY <1>1 DEF F!Put

LEMMA ContentsAre ==
  ASSUME NEW l \in AllLists
  PROVE  [m \in Queues \cup PlainLists |-> From(qnxt, next[m])][l] = Contents(l)
BY DEF Contents, AllLists

LEMMA InitInv == IsFiniteSet(Threads) /\ QueueInit => QueueInv /\ F!FifoInit
<1> SUFFICES ASSUME IsFiniteSet(Threads), QueueInit PROVE QueueInv /\ F!FifoInit
  OBVIOUS
<1>1. \A l \in AllLists : Contents(l) = <<>> /\ IsList(qnxt, next[l], <<>>)
  <2> SUFFICES ASSUME NEW l \in AllLists PROVE Contents(l) = <<>> /\ IsList(qnxt, next[l], <<>>)
    OBVIOUS
  <2>1. next[l] = NoThread
    BY DEF QueueInit, AllLists
  <2>2. IsList(qnxt, NoThread, <<>>)
    BY EmptyList
  <2> QED
    BY <2>1, <2>2, FromList DEF Contents
<1>2. Elems(<<>>) = {} /\ Len(<<>>) = 0
  BY DEF Elems
<1>3. QueueTypeOK
  BY DEF QueueInit, QueueTypeOK
<1>4. Listed /\ Apart
  BY <1>1, <1>2 DEF Listed, Apart
<1>5. Owned
  <2>1. \A q \in Queues, t \in Threads : queue[t] # q
    BY QueueAssumption DEF QueueInit
  <2> QED
    BY <1>1, <1>2, <2>1 DEF Owned, AllLists
<1>6. Ends
  BY <1>1, <1>2 DEF Ends, LastOf, AllLists, QueueInit
<1>7. F!FifoInit
  BY <1>1 DEF F!FifoInit, Contents, AllLists, QueueInit
<1> QED
  BY <1>3, <1>4, <1>5, <1>6, <1>7 DEF QueueInv

-----------------------------------------------------------------------------
(***************************************************************************)
(* The operations, one by one.                                             *)
(***************************************************************************)
LEMMA EnqDoes ==
  ASSUME IsFiniteSet(Threads), QueueInv, NEW q \in Queues, NEW t \in Threads, Enq(q, t)
  PROVE  QueueInv' /\ F!FifoEnq(q, t)
<1> DEFINE s == Contents(q)
           r == Append(s, t)
<1>1. q \in AllLists /\ IsList(qnxt, next[q], s) /\ last[q] = LastOf(s)
  BY DEF QueueInv, Listed, Ends, AllLists
<1>2. \A l \in AllLists : t \notin Elems(Contents(l)) /\ Elems(Contents(l)) \subseteq Threads
  BY FreeIsNowhere, ListsAre DEF Enq, QueueInv
<1>3. s \in Seq(Threads) /\ Len(s) \in Nat /\ (next[q] = NoThread <=> s = <<>>)
  BY <1>1, ListsAre DEF QueueInv
<1>4. /\ IsList(qnxt', next'[q], r) /\ Elems(r) = Elems(s) \cup {t}
      /\ \A x \in Threads \ {t} : x \notin Elems(s) => qnxt'[x] = qnxt[x]
      /\ qnxt' \in [Threads -> Threads \cup {NoThread}]
      /\ next' \in [AllLists -> Threads \cup {NoThread}]
      /\ \A m \in AllLists \ {q} : next'[m] = next[m]
  <2>1. CASE last[q] # NoThread
    <3>1. /\ qnxt' = [qnxt EXCEPT ![last[q]] = t, ![t] = NoThread] /\ next' = next
      BY <2>1 DEF Enq
    <3>2. Len(s) # 0 /\ last[q] = s[Len(s)] /\ Len(s) \in 1..Len(s)
      BY <1>1, <1>3, <2>1 DEF LastOf
    <3>3. last[q] \in Elems(s) /\ last[q] # t /\ last[q] \in Threads
      BY <1>1, <1>2, <3>2 DEF Elems
    <3>4. qnxt'[t] = NoThread /\ qnxt'[last[q]] = t
      BY <3>1, <3>3 DEF QueueInv, QueueTypeOK
    <3>5. \A x \in Threads : x # t /\ x # last[q] => qnxt'[x] = qnxt[x]
      BY <3>1 DEF QueueInv, QueueTypeOK
    <3>6. \A x \in Elems(s) : x # s[Len(s)] => qnxt'[x] = qnxt[x]
      BY <1>1, <1>2, <3>2, <3>5
    <3>7. IsList(qnxt', next[q], r) /\ Elems(r) = Elems(s) \cup {t}
      <4>1. qnxt'[s[Len(s)]] = t /\ qnxt'[t] = NoThread /\ t \notin Elems(s)
        BY <1>1, <1>2, <3>2, <3>4
      <4> QED
        BY <1>1, <3>2, <3>6, <4>1, AppendList
    <3>8. qnxt' \in [Threads -> Threads \cup {NoThread}]
      BY <3>1 DEF QueueInv, QueueTypeOK
    <3> QED
      BY <3>1, <3>3, <3>5, <3>7, <3>8 DEF QueueInv, QueueTypeOK, AllLists
  <2>2. CASE last[q] = NoThread
    <3>1. next' = [next EXCEPT ![q] = t] /\ qnxt' = [qnxt EXCEPT ![t] = NoThread]
      BY <2>2 DEF Enq
    <3>2. s = <<>>
      <4>1. Len(s) # 0 => s[Len(s)] \in Threads
        BY <1>3
      <4> QED
        BY <1>1, <1>3, <2>2, <4>1, ThreadAssumption DEF LastOf
    <3>3. qnxt'[t] = NoThread /\ r = <<t>> /\ Elems(s) = {}
      BY <3>1, <3>2 DEF QueueInv, QueueTypeOK, Elems
    <3>4. IsList(qnxt', t, r) /\ Elems(r) = {t}
      <4>1. qnxt'[t] = NoThread
        BY <3>3
      <4>2. IsList(qnxt', t, <<t>>) /\ Elems(<<t>>) = {t}
        BY <4>1, OneElement
      <4> QED
        BY <3>3, <4>2
    <3>5. next'[q] = t /\ \A m \in AllLists \ {q} : next'[m] = next[m]
      BY <1>1, <3>1 DEF QueueInv, QueueTypeOK, AllLists
    <3>6. /\ qnxt' \in [Threads -> Threads \cup {NoThread}]
          /\ next' \in [AllLists -> Threads \cup {NoThread}]
          /\ \A x \in Threads \ {t} : qnxt'[x] = qnxt[x]
      BY <3>1 DEF QueueInv, QueueTypeOK, AllLists
    <3> QED
      BY <3>3, <3>4, <3>5, <3>6
  <2> QED
    BY <2>1, <2>2
<1>5. /\ last' = [last EXCEPT ![q] = t] /\ queue' = [queue EXCEPT ![t] = q]
      /\ answer' = NoThread
  BY DEF Enq
<1> HIDE DEF r
<1>6. Becomes(q, r)
  <2>1. \A m \in AllLists \ {q} : \A x \in Elems(Contents(m)) :
          qnxt'[x] = qnxt[x] /\ x \notin Elems(r)
    BY <1>1, <1>2, <1>4 DEF QueueInv, Apart
  <2> QED
    BY <1>1, <1>4, <2>1, Change DEF QueueInv
<1>7. QueueTypeOK'
  BY <1>4, <1>5 DEF QueueInv, QueueTypeOK, AllLists
<1>8. Owned'
  <2> SUFFICES ASSUME NEW p \in Queues, NEW x \in Threads
               PROVE  queue'[x] = p <=> x \in Elems(Contents(p)')
    BY DEF Owned, Elems
  <2>1. queue'[x] = IF x = t THEN q ELSE queue[x]
    BY <1>5 DEF QueueInv, QueueTypeOK
  <2>2. queue[x] = p <=> x \in Elems(Contents(p))
    BY DEF QueueInv, Owned
  <2>3. Contents(p)' = IF p = q THEN r ELSE Contents(p)
    BY <1>6 DEF Becomes, AllLists
  <2>4. t \notin Elems(Contents(p)) /\ Elems(r) = Elems(s) \cup {t}
    BY <1>2, <1>4 DEF AllLists
  <2> QED
    BY <2>1, <2>2, <2>3, <2>4
<1>9. Ends'
  <2> SUFFICES ASSUME NEW p \in Queues PROVE last'[p] = LastOf(Contents(p)')
    BY DEF Ends, LastOf
  <2>1. LastOf(r) = t
    BY <1>3 DEF LastOf, r
  <2>2. Contents(p)' = IF p = q THEN r ELSE Contents(p)
    BY <1>6 DEF Becomes, AllLists
  <2>3. last'[p] = IF p = q THEN t ELSE last[p]
    BY <1>5 DEF QueueInv, QueueTypeOK
  <2> QED
    BY <2>1, <2>2, <2>3 DEF QueueInv, Ends
<1>10. F!FifoEnq(q, t)
  <2>1. F!Put(q, r, NoThread)
    BY <1>1, <1>5, <1>6, BecomesPut
  <2>2. F!IsFree(t)
    BY <1>2, ListsAre, ContentsAre DEF F!IsFree, AllLists, QueueInv
  <2> QED
    BY <1>1, <2>1, <2>2, ContentsAre DEF F!FifoEnq, r
<1> QED
  BY <1>6, <1>7, <1>8, <1>9, <1>10 DEF QueueInv, Becomes

\* A sequence without its k-th element, as the library of sequences says it.
LEMMA WithoutIs ==
  ASSUME NEW s \in Seq(Threads), NEW k \in 1..Len(s)
  PROVE  /\ Without(s, k) \in Seq(Threads) /\ Len(Without(s, k)) = Len(s)-1
         /\ Without(s, k) = F!RemoveAt(s, k)
         /\ Without(s, 1) = Tail(s)
         /\ k # Len(s) => LastOf(Without(s, k)) = LastOf(s)
         /\ k = Len(s) /\ k # 1 => LastOf(Without(s, k)) = s[k-1]
         /\ Len(s) = 1 => LastOf(Without(s, k)) = NoThread
<1> DEFINE r == Without(s, k)
<1>1. Len(s) \in Nat /\ Len(s)-1 \in Nat
  OBVIOUS
<1>2. \A n \in 1..Len(s) : Without(s, n) \in Seq(Threads) /\ Len(Without(s, n)) = Len(s)-1
  <2> SUFFICES ASSUME NEW n \in 1..Len(s)
               PROVE  Without(s, n) \in Seq(Threads) /\ Len(Without(s, n)) = Len(s)-1
    OBVIOUS
  <2>1. \A i \in 1..(Len(s)-1) : (IF i < n THEN s[i] ELSE s[i+1]) \in Threads
    BY <1>1
  <2>2. Without(s, n) \in [1..(Len(s)-1) -> Threads]
    BY <2>1 DEF Without
  <2> QED
    BY <1>1, <2>2
<1>3. \A n \in 1..Len(s), i \in 1..(Len(s)-1) : Without(s, n)[i] = IF i < n THEN s[i] ELSE s[i+1]
  BY DEF Without
<1>4. r = F!RemoveAt(s, k)
  <2> DEFINE a == SubSeq(s, 1, k-1)
             b == SubSeq(s, k+1, Len(s))
  <2>1. a \in Seq(Threads) /\ Len(a) = k-1 /\ \A i \in 1..(k-1) : a[i] = s[i]
    OBVIOUS
  <2>2. b \in Seq(Threads) /\ Len(b) = Len(s)-k /\ \A i \in 1..(Len(s)-k) : b[i] = s[k+i]
    OBVIOUS
  <2> HIDE DEF a, b
  <2>3. a \o b \in Seq(Threads) /\ Len(a \o b) = Len(s)-1
    <3>1. a \o b \in Seq(Threads) /\ Len(a \o b) = Len(a) + Len(b)
      BY <2>1, <2>2, ConcatProperties
    <3>2. (k-1) + (Len(s)-k) = Len(s)-1
      BY <1>1
    <3> QED
      BY <2>1, <2>2, <3>1, <3>2
  <2>4. \A i \in 1..(Len(s)-1) : (a \o b)[i] = r[i]
    <3> SUFFICES ASSUME NEW i \in 1..(Len(s)-1) PROVE (a \o b)[i] = r[i]
      OBVIOUS
    <3>1. CASE i < k
      <4>1. i \in 1..(k-1) /\ i \in 1..Len(a)
        BY <2>1, <3>1
      <4>2. (a \o b)[i] = a[i]
        BY <2>1, <2>2, <4>1
      <4> QED
        BY <1>3, <2>1, <3>1, <4>1, <4>2
    <3>2. CASE ~(i < k)
      <4>1. i-(k-1) \in 1..(Len(s)-k) /\ k+(i-(k-1)) = i+1 /\ i > k-1 /\ i <= (k-1)+(Len(s)-k)
        BY <3>2
      <4>2. (a \o b)[i] = b[i-(k-1)]
        BY <2>1, <2>2, <4>1
      <4> QED
        BY <1>3, <2>2, <3>2, <4>1, <4>2
    <3> QED
      BY <3>1, <3>2
  <2>5. a \o b = r
    <3>1. r \in Seq(Threads) /\ Len(r) = Len(s)-1
      BY <1>2
    <3> HIDE DEF r
    <3> QED
      BY <2>3, <2>4, <3>1, SeqEqual
  <2> QED
    BY <2>5 DEF F!RemoveAt, a, b
<1>5. Without(s, 1) = Tail(s)
  <2>1. 1 \in 1..Len(s) /\ s # <<>>
    BY <1>1
  <2>2. Tail(s) \in Seq(Threads) /\ Len(Tail(s)) = Len(s)-1
    BY <2>1
  <2>3. \A i \in 1..(Len(s)-1) : Tail(s)[i] = s[i+1]
    BY <2>1
  <2>4. \A i \in 1..(Len(s)-1) : Without(s, 1)[i] = s[i+1]
    BY <1>3, <2>1
  <2>5. Without(s, 1) \in Seq(Threads) /\ Len(Without(s, 1)) = Len(s)-1
    BY <1>2, <2>1
  <2> HIDE DEF r
  <2> QED
    BY <2>2, <2>3, <2>4, <2>5
<1>6. k # Len(s) => LastOf(r) = LastOf(s)
  <2> SUFFICES ASSUME k # Len(s) PROVE LastOf(r) = LastOf(s)
    OBVIOUS
  <2>1. /\ Len(s)-1 \in 1..(Len(s)-1) /\ ~(Len(s)-1 < k)
        /\ Len(s)-1 # 0 /\ Len(s) # 0 /\ (Len(s)-1)+1 = Len(s)
    <3>1. \A n \in Nat : \A i \in 1..n :
            i # n => /\ n-1 \in 1..(n-1) /\ ~(n-1 < i)
                     /\ n-1 # 0 /\ n # 0 /\ (n-1)+1 = n
      OBVIOUS
    <3> QED
      BY <1>1, <3>1
  <2>2. r[Len(s)-1] = s[Len(s)]
    BY <1>3, <2>1
  <2> QED
    BY <1>2, <2>1, <2>2 DEF LastOf
<1>7. k = Len(s) /\ k # 1 => LastOf(r) = s[k-1]
  <2> SUFFICES ASSUME k = Len(s), k # 1 PROVE LastOf(r) = s[k-1]
    OBVIOUS
  <2>1. k-1 \in 1..(Len(s)-1) /\ k-1 < k /\ k-1 # 0 /\ k-1 = Len(s)-1
    BY <1>1
  <2>2. r[k-1] = s[k-1]
    BY <1>3, <2>1
  <2> QED
    BY <1>2, <2>1, <2>2 DEF LastOf
<1>8. Len(s) = 1 => LastOf(r) = NoThread
  BY <1>2 DEF LastOf
<1> QED
  BY <1>2, <1>4, <1>5, <1>6, <1>7, <1>8

\* A thread leaves the list l, which is all that changes.
Leaves(l, t) ==
  /\ next' = [next EXCEPT ![l] = IF @ = t THEN qnxt[t] ELSE @]
  /\ qnxt' \in [Threads -> Threads \cup {NoThread}]
  /\ \A x \in Threads \ {t} :
       qnxt'[x] = IF x \in Elems(Contents(l)) /\ qnxt[x] = t THEN qnxt[t] ELSE qnxt[x]

LEMMA LeavesDoes ==
  ASSUME IsFiniteSet(Threads), QueueInv, NEW l \in AllLists, NEW t \in Threads,
         NEW k \in 1..Len(Contents(l)), Contents(l)[k] = t, Leaves(l, t)
  PROVE  /\ Becomes(l, Without(Contents(l), k))
         /\ Elems(Without(Contents(l), k)) = Elems(Contents(l)) \ {t}
         /\ next[l] = t <=> k = 1
         /\ next' \in [AllLists -> Threads \cup {NoThread}]
<1> DEFINE s == Contents(l)
           r == Without(s, k)
<1>1. IsList(qnxt, next[l], s) /\ Elems(s) \subseteq Threads /\ t \in Elems(s)
  BY ListsAre DEF QueueInv, Listed, Elems
<1>2. \A x \in Elems(s) \ {s[k]} : qnxt'[x] = IF qnxt[x] = s[k] THEN qnxt[s[k]] ELSE qnxt[x]
  BY <1>1 DEF Leaves
<1>3. /\ IsList(qnxt', IF next[l] = s[k] THEN qnxt[s[k]] ELSE next[l], r)
      /\ Elems(r) = Elems(s) \ {s[k]}
      /\ next[l] = s[k] <=> k = 1
  <2> HIDE DEF s, r
  <2>1. k \in 1..Len(s)
    BY DEF s
  <2> QED
    BY <1>1, <1>2, <2>1, RemoveList DEF r
<1>4. /\ next'[l] = IF next[l] = s[k] THEN qnxt[s[k]] ELSE next[l]
      /\ \A m \in AllLists \ {l} : next'[m] = next[m]
      /\ next' \in [AllLists -> Threads \cup {NoThread}]
  BY DEF Leaves, QueueInv, QueueTypeOK, AllLists
<1>5. \A m \in AllLists \ {l} : \A x \in Elems(Contents(m)) :
        qnxt'[x] = qnxt[x] /\ x \notin Elems(r)
  <2> SUFFICES ASSUME NEW m \in AllLists \ {l}, NEW x \in Elems(Contents(m))
               PROVE  qnxt'[x] = qnxt[x] /\ x \notin Elems(r)
    OBVIOUS
  <2>1. x \in Threads /\ x \notin Elems(s)
    BY ListsAre DEF QueueInv, Apart
  <2>2. x # t
    BY <1>1, <2>1
  <2> QED
    BY <1>3, <2>1, <2>2 DEF Leaves
<1> HIDE DEF r
<1>6. Becomes(l, r)
  <2>1. IsList(qnxt', next'[l], r)
    BY <1>3, <1>4
  <2> QED
    BY <1>4, <1>5, <2>1, Change DEF QueueInv
<1> QED
  BY <1>3, <1>4, <1>6 DEF r

\* The place of t on a list, and what it says.
LEMMA PlaceOf ==
  ASSUME QueueInv, NEW l \in AllLists, NEW k \in 1..Len(Contents(l))
  PROVE  /\ Contents(l)[k] \in Threads /\ Contents(l)[k] \in Elems(Contents(l))
         /\ next[l] = Contents(l)[1] /\ 1 \in 1..Len(Contents(l))
         /\ qnxt[Contents(l)[k]] = NoThread <=> k = Len(Contents(l))
<1> DEFINE s == Contents(l)
<1>1. s \in Seq(Threads) /\ Len(s) \in Nat /\ IsList(qnxt, next[l], s)
  BY ListsAre DEF QueueInv, Listed
<1>2. s[k] \in Threads /\ s[k] \in Elems(s)
  BY <1>1 DEF Elems
<1>3. 1 \in 1..Len(s) /\ Len(s) # 0
  BY <1>1
<1>4. next[l] = s[1]
  BY <1>1, <1>3 DEF IsList
<1>5. qnxt[s[k]] = IF k = Len(s) THEN NoThread ELSE s[k+1]
  BY <1>1 DEF IsList
<1>6. k # Len(s) => s[k+1] # NoThread
  <2>1. k # Len(s) => k+1 \in 1..Len(s)
    BY <1>1
  <2> QED
    BY <1>1, <2>1, ThreadAssumption
<1> QED
  BY <1>2, <1>3, <1>4, <1>5, <1>6

\* The fields queue and q_last when t has left the queue q.
LEMMA LeftQueue ==
  ASSUME IsFiniteSet(Threads), QueueInv, NEW q \in Queues, NEW t \in Threads,
         NEW k \in 1..Len(Contents(q)), Contents(q)[k] = t, Leaves(q, t),
         queue' = [queue EXCEPT ![t] = NoQueue],
         last' = [last EXCEPT ![q] = LastOf(Without(Contents(q), k))],
         answer' \in Threads \cup {NoThread, 0, -1}
  PROVE  QueueInv' /\ Becomes(q, Without(Contents(q), k))
<1> DEFINE r == Without(Contents(q), k)
<1>1. q \in AllLists
  BY DEF AllLists
<1>2. /\ Becomes(q, r) /\ Elems(r) = Elems(Contents(q)) \ {t}
      /\ next' \in [AllLists -> Threads \cup {NoThread}]
  BY <1>1, LeavesDoes
<1>3. t \in Elems(Contents(q)) /\ Contents(q) \in Seq(Threads) /\ Len(Contents(q)) \in Nat
  BY <1>1, PlaceOf, ListsAre DEF QueueInv
<1>4. r \in Seq(Threads)
  BY <1>3, WithoutIs
<1> HIDE DEF r
<1>5. LastOf(r) \in Threads \cup {NoThread}
  BY <1>4 DEF LastOf
<1>6. QueueTypeOK'
  <2>1. last' \in [Queues -> Threads \cup {NoThread}]
    BY <1>5 DEF QueueInv, QueueTypeOK, r
  <2>2. qnxt' \in [Threads -> Threads \cup {NoThread}]
    BY DEF Leaves
  <2>3. queue' \in [Threads -> Queues \cup {NoQueue}]
    BY DEF QueueInv, QueueTypeOK
  <2> QED
    BY <1>2, <2>1, <2>2, <2>3 DEF QueueTypeOK, AllLists
<1>7. Owned'
  <2> SUFFICES ASSUME NEW p \in Queues, NEW x \in Threads
               PROVE  queue'[x] = p <=> x \in Elems(Contents(p)')
    BY DEF Owned, Elems
  <2>1. queue'[x] = IF x = t THEN NoQueue ELSE queue[x]
    BY DEF QueueInv, QueueTypeOK
  <2>2. queue[x] = p <=> x \in Elems(Contents(p))
    BY DEF QueueInv, Owned
  <2>3. Contents(p)' = IF p = q THEN r ELSE Contents(p)
    BY <1>2 DEF Becomes, AllLists
  <2>4. p # q => t \notin Elems(Contents(p))
    BY <1>3 DEF QueueInv, Apart, AllLists
  <2> QED
    BY <1>2, <2>1, <2>2, <2>3, <2>4, QueueAssumption
<1>8. Ends'
  <2> SUFFICES ASSUME NEW p \in Queues PROVE last'[p] = LastOf(Contents(p)')
    BY DEF Ends, LastOf
  <2>1. Contents(p)' = IF p = q THEN r ELSE Contents(p)
    BY <1>2 DEF Becomes, AllLists
  <2>2. last'[p] = IF p = q THEN LastOf(r) ELSE last[p]
    BY DEF QueueInv, QueueTypeOK, r
  <2> QED
    BY <2>1, <2>2 DEF QueueInv, Ends
<1> QED
  BY <1>2, <1>6, <1>7, <1>8 DEF QueueInv, Becomes, r

\* Nothing changes but the answer.
LEMMA OnlyAnswers ==
  ASSUME QueueInv, UNCHANGED <<next, last, qnxt, queue>>,
         answer' \in Threads \cup {NoThread, 0, -1}
  PROVE  /\ QueueInv'
         /\ \A l \in AllLists : F!Put(l, Contents(l), answer')
<1>1. \A l \in AllLists : Contents(l)' = Contents(l)
  BY DEF Contents
<1>2. QueueInv'
  <2>1. QueueTypeOK'
    BY DEF QueueInv, QueueTypeOK
  <2>2. Listed' /\ Apart'
    BY DEF QueueInv, Listed, Apart, Contents
  <2>3. Owned' /\ Ends'
    BY DEF QueueInv, Owned, Ends, Contents
  <2> QED
    BY <2>1, <2>2, <2>3 DEF QueueInv
<1>3. ASSUME NEW l \in AllLists PROVE F!Put(l, Contents(l), answer')
  BY DEF F!Put, Contents, AllLists
<1> QED
  BY <1>2, <1>3

LEMMA GetDoes ==
  ASSUME QueueInv, NEW q \in Queues, Get(q)
  PROVE  QueueInv' /\ F!FifoGet(q)
<1>1. q \in AllLists
  BY DEF AllLists
<1>2. answer' = next[q] /\ UNCHANGED <<next, last, qnxt, queue>>
  BY DEF Get
<1>3. QueueInv'
  <2>1. answer' \in Threads \cup {NoThread, 0, -1}
    BY <1>1, <1>2 DEF QueueInv, QueueTypeOK, AllLists
  <2> QED
    BY <1>2, <2>1, OnlyAnswers
<1>4. answer' = IF Contents(q) = <<>> THEN NoThread ELSE Head(Contents(q))
  <2>1. CASE Contents(q) = <<>>
    BY <1>1, <1>2, <2>1, ListsAre DEF QueueInv
  <2>2. CASE Contents(q) # <<>>
    <3>1. Contents(q) \in Seq(Threads) /\ 1 \in 1..Len(Contents(q))
      BY <1>1, <2>2, ListsAre DEF QueueInv
    <3>2. next[q] = Contents(q)[1]
      BY <1>1, <3>1, PlaceOf
    <3> QED
      BY <1>2, <2>2, <3>1, <3>2
  <2> QED
    BY <2>1, <2>2
<1>5. UNCHANGED [l \in Queues \cup PlainLists |-> From(qnxt, next[l])]
  BY <1>2
<1> QED
  BY <1>1, <1>3, <1>4, <1>5, ContentsAre DEF F!FifoGet

LEMMA DeqDoes ==
  ASSUME IsFiniteSet(Threads), QueueInv, NEW q \in Queues, Deq(q)
  PROVE  QueueInv' /\ F!FifoDeq(q)
<1> DEFINE s == Contents(q)
<1>1. q \in AllLists /\ s \in Seq(Threads) /\ (next[q] = NoThread <=> s = <<>>)
  BY ListsAre DEF AllLists, QueueInv
<1>2. CASE next[q] = NoThread
  <2>1. UNCHANGED <<next, last, qnxt, queue>> /\ answer' = NoThread
    BY <1>2 DEF Deq
  <2>2. QueueInv' /\ F!Put(q, <<>>, NoThread)
    BY <1>1, <1>2, <2>1, OnlyAnswers
  <2> QED
    BY <1>1, <1>2, <2>2, ContentsAre DEF F!FifoDeq
<1>3. CASE next[q] # NoThread
  <2>1. 1 \in 1..Len(s) /\ s # <<>> /\ Len(s) \in Nat
    BY <1>1, <1>3
  <2>2. next[q] = s[1] /\ s[1] \in Threads /\ (qnxt[s[1]] = NoThread <=> 1 = Len(s))
    BY <1>1, <2>1, PlaceOf
  <2>3. /\ next' = [next EXCEPT ![q] = qnxt[s[1]]]
        /\ last' = [last EXCEPT ![q] = IF qnxt[s[1]] = NoThread THEN NoThread ELSE last[q]]
        /\ queue' = [queue EXCEPT ![s[1]] = NoQueue]
        /\ qnxt' = [qnxt EXCEPT ![s[1]] = NoThread]
        /\ answer' = s[1]
    BY <1>3, <2>2 DEF Deq
  <2>4. Leaves(q, s[1])
    <3>1. next' = [next EXCEPT ![q] = IF @ = s[1] THEN qnxt[s[1]] ELSE @]
      BY <2>2, <2>3
    <3>2. \A x \in Elems(s) : qnxt[x] # s[1]
      <4>1. IsList(qnxt, next[q], s) /\ next[q] \in Threads
        BY <1>1, <2>2 DEF QueueInv, Listed
      <4>2. \A x \in Elems(s) : qnxt[x] # next[q]
        BY <4>1, HeadIsNobodysNext
      <4> QED
        BY <2>2, <4>2
    <3>3. /\ qnxt' \in [Threads -> Threads \cup {NoThread}]
          /\ \A x \in Threads \ {s[1]} : qnxt'[x] = qnxt[x]
      BY <2>3 DEF QueueInv, QueueTypeOK
    <3> QED
      BY <3>1, <3>2, <3>3 DEF Leaves
  <2>5. last' = [last EXCEPT ![q] = LastOf(Without(s, 1))]
    <3>1. last[q] = LastOf(s)
      BY DEF QueueInv, Ends
    <3>2. LastOf(Without(s, 1)) = IF Len(s) = 1 THEN NoThread ELSE LastOf(s)
      BY <1>1, <2>1, WithoutIs
    <3>3. (IF qnxt[s[1]] = NoThread THEN NoThread ELSE last[q]) = LastOf(Without(s, 1))
      BY <2>2, <3>1, <3>2
    <3> QED
      BY <2>3, <3>3
  <2>6. QueueInv' /\ Becomes(q, Without(s, 1))
    <3> HIDE DEF s
    <3>1. answer' \in Threads \cup {NoThread, 0, -1}
      BY <2>2, <2>3
    <3> QED
      BY <2>1, <2>2, <2>3, <2>4, <2>5, <3>1, LeftQueue DEF s
  <2>7. F!FifoDeq(q)
    <3>1. Without(s, 1) = Tail(s) /\ Head(s) = s[1]
      BY <1>1, <2>1, WithoutIs
    <3>2. F!Put(q, Without(s, 1), answer')
      BY <1>1, <2>6, BecomesPut
    <3> QED
      BY <1>1, <2>1, <2>3, <3>1, <3>2, ContentsAre DEF F!FifoDeq
  <2> QED
    BY <2>6, <2>7
<1> QED
  BY <1>2, <1>3

LEMMA QueuesKept ==
  ASSUME QueueInv, UNCHANGED <<last, queue>>, \A q \in Queues : Contents(q)' = Contents(q)
  PROVE  Owned' /\ Ends'
<1>1. \A q \in Queues, t \in Threads : queue'[t] = q <=> t \in Elems(Contents(q)')
  BY DEF QueueInv, Owned
<1>2. \A q \in Queues : last'[q] = LastOf(Contents(q)')
  BY DEF QueueInv, Ends
<1> QED
  BY <1>1, <1>2 DEF Owned, Ends, Elems, LastOf

LEMMA PointPastLeaves ==
  ASSUME QueueInv, NEW l \in AllLists, NEW t \in Threads,
         NEW own \in Threads \cup {NoThread}, PointPast(l, t, own)
  PROVE  Leaves(l, t)
<1>1. On(l) = Elems(Contents(l))
  BY ListsAre DEF QueueInv
<1>2. qnxt \in [Threads -> Threads \cup {NoThread}]
  BY DEF QueueInv, QueueTypeOK
<1>3. qnxt' \in [Threads -> Threads \cup {NoThread}]
  BY <1>2 DEF PointPast
<1>4. \A x \in Threads \ {t} :
        qnxt'[x] = IF x \in Elems(Contents(l)) /\ qnxt[x] = t THEN qnxt[t] ELSE qnxt[x]
  BY <1>1 DEF PointPast
<1> QED
  BY <1>3, <1>4 DEF PointPast, Leaves

\* Taking the k-th thread out is what Fifo calls removal.
LEMMA RemovesIt ==
  ASSUME QueueInv, NEW l \in AllLists, NEW t \in Threads,
         NEW k \in 1..Len(Contents(l)), Contents(l)[k] = t,
         Becomes(l, Without(Contents(l), k)), answer' = 0
  PROVE  F!FifoRemove(l, t)
<1> DEFINE s == Contents(l)
<1>1. s \in Seq(Threads) /\ DOMAIN s = 1..Len(s)
  BY ListsAre DEF QueueInv
<1>2. Without(s, k) = F!RemoveAt(s, k)
  <2> HIDE DEF s
  <2>1. k \in 1..Len(s)
    BY DEF s
  <2> QED
    BY <1>1, <2>1, WithoutIs
<1>3. F!Put(l, Without(s, k), 0)
  BY BecomesPut
<1>4. F!Put(l, F!RemoveAt(s, k), 0) /\ k \in DOMAIN s /\ s[k] = t
  BY <1>1, <1>2, <1>3
<1> QED
  BY <1>4, ContentsAre DEF F!FifoRemove

LEMMA RemoveDoes ==
  ASSUME IsFiniteSet(Threads), QueueInv, NEW q \in Queues, NEW t \in Threads, Remove(q, t)
  PROVE  QueueInv' /\ F!FifoRemove(q, t)
<1> DEFINE s == Contents(q)
<1>1. /\ q \in AllLists /\ s \in Seq(Threads) /\ Len(s) \in Nat
      /\ On(q) = Elems(s) /\ F!Members(s) = Elems(s)
  BY ListsAre DEF AllLists, QueueInv
<1>2. CASE t \in On(q)
  <2>1. PICK k \in 1..Len(s) : s[k] = t
    BY <1>1, <1>2 DEF Elems
  <2>2. /\ PointPast(q, t, NoThread) /\ queue' = [queue EXCEPT ![t] = NoQueue] /\ answer' = 0
        /\ UnlinkLast(q, t) \/ (qnxt[t] # NoThread /\ UNCHANGED last)
    BY <1>2 DEF Remove, RemoveAnswer
  <2>3. Leaves(q, t)
    BY <1>1, <2>2, PointPastLeaves
  <2>4. qnxt[t] = NoThread <=> k = Len(s)
    BY <1>1, <2>1, PlaceOf
  <2>5. next[q] = t <=> k = 1
    BY <1>1, <2>1, <2>3, LeavesDoes
  <2>6. last' = [last EXCEPT ![q] = LastOf(Without(s, k))]
    <3>1. CASE k # Len(s)
      <4>1. UNCHANGED last
        BY <2>2, <2>4, <3>1 DEF UnlinkLast
      <4>2. last[q] = LastOf(Without(s, k))
        BY <1>1, <3>1, WithoutIs DEF QueueInv, Ends
      <4> QED
        BY <4>1, <4>2 DEF QueueInv, QueueTypeOK
    <3>2. CASE k = Len(s)
      <4>1. last' = [last EXCEPT ![q] = IF next[q] = t THEN NoThread
                                        ELSE CHOOSE x \in On(q) : qnxt[x] = t]
        BY <2>2, <2>4, <3>2 DEF UnlinkLast
      <4>2. CASE k = 1
        <5>1. LastOf(Without(s, k)) = NoThread
          BY <1>1, <3>2, <4>2, WithoutIs
        <5> QED
          BY <2>5, <4>1, <4>2, <5>1
      <4>3. CASE k # 1
        <5>1. LastOf(Without(s, k)) = s[k-1]
          BY <1>1, <3>2, <4>3, WithoutIs
        <5>2. k-1 \in 1..Len(s) /\ k-1 # Len(s) /\ (k-1)+1 = k
          BY <1>1, <3>2, <4>3
        <5>3. \A i \in 1..Len(s) : qnxt[s[i]] = t <=> i = k-1
          <6> SUFFICES ASSUME NEW i \in 1..Len(s) PROVE qnxt[s[i]] = t <=> i = k-1
            OBVIOUS
          <6>1. qnxt[s[i]] = IF i = Len(s) THEN NoThread ELSE s[i+1]
            BY <1>1 DEF QueueInv, Listed, IsList
          <6>2. CASE i = Len(s)
            BY <5>2, <6>1, <6>2, ThreadAssumption
          <6>3. CASE i # Len(s)
            <7>1. i+1 \in 1..Len(s) /\ (i+1 = k <=> i = k-1)
              BY <1>1, <6>3
            <7>2. s[i+1] = s[k] <=> i+1 = k
              BY <1>1, <7>1 DEF QueueInv, Listed, IsList
            <7> QED
              BY <2>1, <6>1, <6>3, <7>1, <7>2
          <6> QED
            BY <6>2, <6>3
        <5>4. s[k-1] \in On(q) /\ \A x \in On(q) : qnxt[x] = t <=> x = s[k-1]
          <6>1. s[k-1] \in Elems(s)
            BY <5>2 DEF Elems
          <6>2. ASSUME NEW x \in Elems(s) PROVE qnxt[x] = t <=> x = s[k-1]
            <7>1. PICK i \in 1..Len(s) : x = s[i]
              BY DEF Elems
            <7>2. s[i] = s[k-1] <=> i = k-1
              BY <1>1, <5>2 DEF QueueInv, Listed, IsList
            <7> QED
              BY <5>3, <7>1, <7>2
          <6> QED
            BY <1>1, <6>1, <6>2
        <5>5. (CHOOSE x \in On(q) : qnxt[x] = t) = s[k-1]
          BY <5>4
        <5> QED
          BY <2>5, <4>1, <4>3, <5>1, <5>5
      <4> QED
        BY <4>2, <4>3
    <3> QED
      BY <3>1, <3>2
  <2>7. QueueInv' /\ Becomes(q, Without(s, k))
    <3> HIDE DEF s
    <3>1. answer' \in Threads \cup {NoThread, 0, -1}
      BY <2>2
    <3> QED
      BY <2>1, <2>2, <2>3, <2>6, <3>1, LeftQueue DEF s
  <2> QED
    BY <1>1, <2>1, <2>2, <2>7, RemovesIt
<1>3. CASE t \notin On(q)
  <2>1. /\ qnxt' = [qnxt EXCEPT ![t] = NoThread] /\ UNCHANGED <<next, last>>
        /\ queue' = [queue EXCEPT ![t] = NoQueue] /\ answer' = -1
    BY <1>3 DEF Remove, RemoveAnswer
  <2>2. IsFree(t)
    BY <1>1, <1>3 DEF Remove, QueueInv, Owned
  <2>3. queue' = queue
    BY <2>1, <2>2 DEF IsFree, QueueInv, QueueTypeOK
  <2>4. \A m \in AllLists : \A x \in Elems(Contents(m)) : qnxt'[x] = qnxt[x]
    <3>1. \A m \in AllLists : t \notin Elems(Contents(m)) /\ Elems(Contents(m)) \subseteq Threads
      BY <2>2, FreeIsNowhere, ListsAre DEF QueueInv
    <3> QED
      BY <2>1, <3>1 DEF QueueInv, QueueTypeOK
  <2>5. Becomes(q, s)
    <3>1. IsList(qnxt', next'[q], s)
      <4>1. IsList(qnxt, next[q], s)
        BY <1>1 DEF QueueInv, Listed
      <4> QED
        BY <1>1, <2>1, <2>4, <4>1, SameList
    <3>2. \A m \in AllLists \ {q} :
            /\ next'[m] = next[m]
            /\ \A x \in Elems(Contents(m)) : qnxt'[x] = qnxt[x] /\ x \notin Elems(s)
      BY <1>1, <2>1, <2>4 DEF QueueInv, Apart
    <3> QED
      BY <1>1, <3>1, <3>2, Change DEF QueueInv
  <2>6. QueueInv'
    <3>1. QueueTypeOK'
      BY <2>1, <2>3 DEF QueueInv, QueueTypeOK
    <3>2. Owned' /\ Ends'
      BY <2>1, <2>3, <2>5, QueuesKept DEF Becomes, AllLists
    <3> QED
      BY <2>5, <3>1, <3>2 DEF QueueInv, Becomes
  <2>7. F!Put(q, s, -1)
    BY <1>1, <2>1, <2>5, BecomesPut
  <2> QED
    BY <1>1, <1>3, <2>6, <2>7, ContentsAre DEF F!FifoRemove
<1> QED
  BY <1>2, <1>3

LEMMA PushDoes ==
  ASSUME IsFiniteSet(Threads), QueueInv, NEW l \in PlainLists, NEW t \in Threads, Push(l, t)
  PROVE  QueueInv' /\ F!FifoPush(l, t)
<1> DEFINE s == Contents(l)
           r == <<t>> \o s
<1>1. l \in AllLists /\ l \notin Queues /\ IsList(qnxt, next[l], s)
  BY QueueAssumption DEF QueueInv, Listed, AllLists
<1>2. \A m \in AllLists : t \notin Elems(Contents(m)) /\ Elems(Contents(m)) \subseteq Threads
  BY FreeIsNowhere, ListsAre DEF Push, QueueInv
<1>3. /\ next' = [next EXCEPT ![l] = t] /\ qnxt' = [qnxt EXCEPT ![t] = next[l]]
      /\ answer' = NoThread /\ UNCHANGED <<last, queue>>
  BY DEF Push
<1>4. /\ next'[l] = t /\ \A m \in AllLists \ {l} : next'[m] = next[m]
      /\ qnxt'[t] = next[l] /\ \A x \in Threads \ {t} : qnxt'[x] = qnxt[x]
  BY <1>1, <1>3 DEF QueueInv, QueueTypeOK, AllLists
<1>5. QueueTypeOK'
  <2>1. next[l] \in Threads \cup {NoThread}
    BY <1>1 DEF QueueInv, QueueTypeOK, AllLists
  <2> QED
    BY <1>3, <2>1 DEF QueueInv, QueueTypeOK
<1>6. IsList(qnxt', t, r) /\ Elems(r) = Elems(s) \cup {t}
  <2>1. /\ IsList(qnxt, next[l], s) /\ t \notin Elems(s) /\ qnxt'[t] = next[l]
        /\ \A x \in Elems(s) : qnxt'[x] = qnxt[x]
    BY <1>1, <1>2, <1>4
  <2> HIDE DEF s
  <2> QED
    BY <2>1, PushList
<1> HIDE DEF r
<1>7. Becomes(l, r)
  <2>1. \A m \in AllLists \ {l} : \A x \in Elems(Contents(m)) :
          qnxt'[x] = qnxt[x] /\ x \notin Elems(r)
    BY <1>1, <1>2, <1>4, <1>6 DEF QueueInv, Apart
  <2>2. IsList(qnxt', next'[l], r)
    BY <1>4, <1>6
  <2> QED
    BY <1>1, <1>4, <2>1, <2>2, Change DEF QueueInv
<1>8. Owned' /\ Ends'
  <2>1. \A q \in Queues : Contents(q)' = Contents(q)
    BY <1>1, <1>7 DEF Becomes, AllLists
  <2> QED
    BY <1>3, <2>1, QueuesKept
<1>9. F!FifoPush(l, t)
  <2>1. F!Put(l, r, NoThread)
    BY <1>1, <1>3, <1>7, BecomesPut
  <2>2. F!IsFree(t)
    BY <1>2, ListsAre, ContentsAre DEF F!IsFree, AllLists, QueueInv
  <2> QED
    BY <1>1, <2>1, <2>2, ContentsAre DEF F!FifoPush, r
<1> QED
  BY <1>5, <1>7, <1>8, <1>9 DEF QueueInv, Becomes

LEMMA LlistRemoveDoes ==
  ASSUME IsFiniteSet(Threads), QueueInv, NEW l \in PlainLists, NEW t \in Threads,
         LlistRemove(l, t)
  PROVE  QueueInv' /\ F!FifoRemove(l, t)
<1> DEFINE s == Contents(l)
<1>1. /\ l \in AllLists /\ l \notin Queues /\ On(l) = Elems(s) /\ F!Members(s) = Elems(s)
  BY ListsAre, QueueAssumption DEF AllLists, QueueInv
<1>2. UNCHANGED <<last, queue>>
  BY DEF LlistRemove
<1>3. CASE t \in On(l)
  <2>1. PICK k \in 1..Len(s) : s[k] = t
    BY <1>1, <1>3 DEF Elems
  <2>2. PointPast(l, t, qnxt[t]) /\ answer' = 0
    BY <1>3 DEF LlistRemove, RemoveAnswer
  <2>3. Leaves(l, t)
    BY <1>1, <2>2, PointPastLeaves DEF QueueInv, QueueTypeOK
  <2>4. Becomes(l, Without(s, k)) /\ next' \in [AllLists -> Threads \cup {NoThread}]
    BY <1>1, <2>1, <2>3, LeavesDoes
  <2>5. QueueTypeOK'
    BY <1>2, <2>2, <2>3, <2>4 DEF QueueInv, QueueTypeOK, Leaves, AllLists
  <2>6. Owned' /\ Ends'
    <3>1. \A q \in Queues : Contents(q)' = Contents(q)
      BY <1>1, <2>4 DEF Becomes, AllLists
    <3> QED
      BY <1>2, <3>1, QueuesKept
  <2>7. F!FifoRemove(l, t)
    BY <1>1, <2>1, <2>2, <2>4, RemovesIt
  <2> QED
    BY <2>4, <2>5, <2>6, <2>7 DEF QueueInv, Becomes
<1>4. CASE t \notin On(l)
  <2>1. UNCHANGED <<next, last, qnxt, queue>> /\ answer' = -1
    BY <1>4 DEF LlistRemove, RemoveAnswer
  <2>2. QueueInv' /\ F!Put(l, s, -1)
    BY <1>1, <2>1, OnlyAnswers
  <2> QED
    BY <1>1, <1>4, <2>2, ContentsAre DEF F!FifoRemove
<1> QED
  BY <1>3, <1>4

-----------------------------------------------------------------------------
\* Every step keeps the invariant and is one of Fifo's, or nothing to it.
LEMMA QueueStep ==
  ASSUME IsFiniteSet(Threads), QueueInv, [QueueNext]_queueVars
  PROVE  QueueInv' /\ [F!FifoNext]_(F!fifoVars)
<1>1. ASSUME NEW q \in Queues, Get(q) PROVE QueueInv' /\ F!FifoNext
  BY <1>1, GetDoes DEF F!FifoNext
<1>2. ASSUME NEW q \in Queues, Deq(q) PROVE QueueInv' /\ F!FifoNext
  BY <1>2, DeqDoes DEF F!FifoNext
<1>3. ASSUME NEW q \in Queues, NEW t \in Threads, Enq(q, t) PROVE QueueInv' /\ F!FifoNext
  BY <1>3, EnqDoes DEF F!FifoNext
<1>4. ASSUME NEW q \in Queues, NEW t \in Threads, Remove(q, t) PROVE QueueInv' /\ F!FifoNext
  BY <1>4, RemoveDoes DEF F!FifoNext
<1>5. ASSUME NEW l \in PlainLists, NEW t \in Threads, Push(l, t) PROVE QueueInv' /\ F!FifoNext
  BY <1>5, PushDoes DEF F!FifoNext
<1>6. ASSUME NEW l \in PlainLists, NEW t \in Threads, LlistRemove(l, t)
      PROVE  QueueInv' /\ F!FifoNext
  BY <1>6, LlistRemoveDoes DEF F!FifoNext
<1>7. CASE UNCHANGED queueVars
  <2>1. UNCHANGED <<next, last, qnxt, queue, answer>>
    BY <1>7 DEF queueVars
  <2>2. answer' \in Threads \cup {NoThread, 0, -1}
    BY <2>1 DEF QueueInv, QueueTypeOK
  <2>3. QueueInv'
    BY <2>1, <2>2, OnlyAnswers
  <2>4. UNCHANGED F!fifoVars
    BY <2>1 DEF F!fifoVars
  <2> QED
    BY <2>3, <2>4
<1> QED
  BY <1>1, <1>2, <1>3, <1>4, <1>5, <1>6, <1>7 DEF QueueNext

\* What the invariant says of the ends of a queue.
LEMMA InvLinks == QueueInv => WellLinked
<1> SUFFICES ASSUME QueueInv, NEW q \in Queues
             PROVE  /\ \A t \in Threads : queue[t] = q <=> t \in On(q)
                    /\ IF next[q] = NoThread THEN last[q] = NoThread
                       ELSE last[q] \in On(q) /\ qnxt[last[q]] = NoThread
  BY DEF WellLinked
<1> DEFINE s == Contents(q)
<1>1. /\ q \in AllLists /\ s \in Seq(Threads) /\ Len(s) \in Nat /\ On(q) = Elems(s)
      /\ next[q] = NoThread <=> s = <<>>
  BY ListsAre DEF AllLists, QueueInv
<1>2. \A t \in Threads : queue[t] = q <=> t \in On(q)
  BY <1>1 DEF QueueInv, Owned
<1>3. last[q] = LastOf(s)
  BY DEF QueueInv, Ends
<1>4. CASE s = <<>>
  BY <1>1, <1>2, <1>3, <1>4 DEF LastOf
<1>5. CASE s # <<>>
  <2>1. Len(s) \in 1..Len(s) /\ Len(s) # 0
    BY <1>1, <1>5
  <2>2. last[q] = s[Len(s)] /\ s[Len(s)] \in Elems(s)
    BY <1>3, <2>1 DEF LastOf, Elems
  <2>3. qnxt[s[Len(s)]] = NoThread
    BY <1>1, <2>1, PlaceOf
  <2> QED
    BY <1>1, <1>2, <1>5, <2>2, <2>3
<1> QED
  BY <1>4, <1>5

LEMMA QueueInvAlways == IsFiniteSet(Threads) /\ QueueSpec => []QueueInv
<1> SUFFICES ASSUME IsFiniteSet(Threads) PROVE QueueSpec => []QueueInv
  OBVIOUS
<1>1. QueueInit => QueueInv
  BY InitInv
<1>2. QueueInv /\ [QueueNext]_queueVars => QueueInv'
  BY QueueStep
<1> QED
  BY <1>1, <1>2, PTL DEF QueueSpec

(***************************************************************************)
(* The pointers of the queues and the fields of the threads keep to their  *)
(* types: _thread_queue_enq, _thread_queue_deq, _thread_queue_remove and   *)
(* pthread_llist_remove never follow a NULL, so what they store is a       *)
(* thread or NULL.                                                         *)
(***************************************************************************)
THEOREM QueueTypeCorrect == IsFiniteSet(Threads) /\ QueueSpec => []QueueTypeOK
<1>1. QueueInv => QueueTypeOK
  BY DEF QueueInv
<1> QED
  BY <1>1, QueueInvAlways, PTL

(***************************************************************************)
(* The field queue of a thread names the queue it is on, and q_last points *)
(* to the thread at the end, whatever mixture of _thread_queue_enq,        *)
(* _thread_queue_deq and _thread_queue_remove has led there.               *)
(***************************************************************************)
THEOREM WellLinkedAlways == IsFiniteSet(Threads) /\ QueueSpec => []WellLinked
<1>1. QueueInv => WellLinked
  BY InvLinks
<1> QED
  BY <1>1, QueueInvAlways, PTL

(***************************************************************************)
(* What the operations of uthread_queue.c do to the linked threads is what *)
(* Fifo says of sequences: first in, first out, removal from the middle,   *)
(* and each returns what Fifo says it returns.                             *)
(***************************************************************************)
THEOREM QueueImplementsFifo == IsFiniteSet(Threads) /\ QueueSpec => ImplementsFifo
<1> SUFFICES ASSUME IsFiniteSet(Threads) PROVE QueueSpec => ImplementsFifo
  OBVIOUS
<1>1. QueueInit => F!FifoInit
  BY InitInv
<1>2. QueueInv /\ [QueueNext]_queueVars => [F!FifoNext]_(F!fifoVars)
  BY QueueStep
<1>3. QueueSpec => []QueueInv
  BY QueueInvAlways
<1> QED
  BY <1>1, <1>2, <1>3, PTL DEF QueueSpec, F!FifoSpec, ImplementsFifo
=============================================================================
