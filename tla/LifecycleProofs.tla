--------------------------- MODULE LifecycleProofs ---------------------------
(***************************************************************************)
(* Proofs about Lifecycle, for every set of threads, whoever creates and   *)
(* controls the others, and whatever malloc leaves in a record.            *)
(***************************************************************************)
EXTENDS Lifecycle, ListProofs

\* What of the type invariant the proof needs.
Shapes ==
  /\ frozen \in [Threads -> BOOLEAN]
  /\ state \in [Threads -> States]
  /\ pc = [t \in Threads |-> pc[t]]
  /\ alive = [t \in Threads |-> alive[t]]
  /\ arg \in [Threads -> Threads \cup {NoThread}]

\* A thread that nobody has created is nowhere.
Unborn == \A t \in Threads : alive[t] = "none" => pc[t] = "none"

StrandInv == Shapes /\ Unborn /\ OnlyOneselfStranded

\* A thread in a walk is in one of four places, and is sent to one of three.
LEMMA WalksLead ==
  ASSUME NEW l \in DOMAIN Found
  PROVE  /\ l \in {"joinwalk", "deadwalk", "suspendwalk", "resumewalk"}
         /\ Found[l] \in {"joincheck", "suspend", "resume"}
BY DEF Found

-----------------------------------------------------------------------------
LEMMA StrandInit == LifeInit => StrandInv
BY ThreadAssumption, MainAssumption
DEF LifeInit, StrandInv, Shapes, Unborn, OnlyOneselfStranded, States, Nobody

LEMMA CreateStep ==
  ASSUME StrandInv, NEW t \in Threads, NEW u \in Threads, Create(t, u)
  PROVE  StrandInv'
<1>1. /\ pc[t] \notin {"mark", "thawing"} /\ alive[t] = "runs"
      /\ alive[u] = "none" /\ pc[u] = "none"
      /\ alive' = [alive EXCEPT ![u] = "runs"]
      /\ arg' = [arg EXCEPT ![t] = u]
      /\ pc' = [pc EXCEPT ![t] = "ack", ![u] = "malloc"]
      /\ UNCHANGED <<state, frozen>>
  BY DEF Create, Idle, Runs, StrandInv, Unborn, record
<1>2. Shapes'
  BY <1>1 DEF StrandInv, Shapes
<1>3. \A x \in Threads : pc[x] \in {"mark", "thawing"} => pc'[x] = pc[x] /\ arg'[x] = arg[x]
  BY <1>1 DEF StrandInv, Shapes
<1>4. Unborn'
  <2> SUFFICES ASSUME NEW v \in Threads, alive'[v] = "none"
               PROVE  pc'[v] = "none"
    BY DEF Unborn
  <2>1. v # u /\ alive[v] = "none"
    BY <1>1 DEF StrandInv, Shapes
  <2>2. v # t
    BY <1>1, <2>1
  <2>3. pc'[v] = pc[v]
    BY <1>1, <2>1, <2>2 DEF StrandInv, Shapes
  <2> QED
    BY <2>1, <2>3 DEF StrandInv, Unborn
<1>5. OnlyOneselfStranded'
  <2> SUFFICES ASSUME NEW v \in Threads, frozen[v], state[v] # "PS_SUSPENDED", pc'[v] # "thaw",
                      \A x \in Threads : arg'[x] = v => pc'[x] \notin {"mark", "thawing"}
               PROVE  FALSE
    BY <1>1 DEF OnlyOneselfStranded
  <2>1. \A x \in Threads : arg[x] = v => pc[x] \notin {"mark", "thawing"}
    BY <1>3
  <2>2. pc[v] # "thaw"
    <3>1. v = t => pc[v] # "thaw"
      BY DEF Create, Idle
    <3>2. v = u => pc[v] # "thaw"
      BY <1>1
    <3>3. v # t /\ v # u => pc'[v] = pc[v]
      BY <1>1 DEF StrandInv, Shapes
    <3> QED
      BY <3>1, <3>2, <3>3
  <2> QED
    BY <2>1, <2>2 DEF StrandInv, OnlyOneselfStranded
<1> QED
  BY <1>2, <1>4, <1>5 DEF StrandInv

LEMMA WalkStep ==
  ASSUME StrandInv, NEW t \in Threads, Walk(t)
  PROVE  StrandInv'
<1>1. /\ pc[t] \in {"joinwalk", "deadwalk", "suspendwalk", "resumewalk"}
      /\ Found[pc[t]] \in {"joincheck", "suspend", "resume"}
  BY WalksLead DEF Walk
<1>2. /\ UNCHANGED <<state, frozen, alive>>
      /\ arg' = arg \/ arg' = [arg EXCEPT ![t] = NoThread]
      /\ \/ pc' = pc
         \/ \E l \in {"joincheck", "suspend", "resume", "deadwalk", "ESRCH", "routine"} :
              pc' = [pc EXCEPT ![t] = l]
  BY <1>1 DEF Walk, Goto, ReturnTo, Return, record, kernel
<1> QED
  BY <1>1, <1>2 DEF StrandInv, Shapes, Unborn, OnlyOneselfStranded

LEMMA CallStep ==
  ASSUME StrandInv, NEW t \in Threads, LifeCall(t) \/ Exit(t)
  PROVE  StrandInv'
<1> USE DEF StrandInv, Shapes, Unborn, OnlyOneselfStranded, States, At, Runs, Idle,
            ReturnTo, Return, Goto, lists, record, kernel, creation
<1>1. ASSUME NEW u \in Threads, Create(t, u) PROVE StrandInv'
  BY <1>1, CreateStep
<1>2. CASE CreateFails(t)
  BY <1>2, ThreadAssumption DEF CreateFails
<1>3. ASSUME NEW u \in Threads, Join(t, u) PROVE StrandInv'
  BY <1>3 DEF Join, LookUp
<1>4. ASSUME NEW u \in Threads, Detach(t, u) PROVE StrandInv'
  BY <1>4 DEF Detach
<1>5. ASSUME NEW u \in Threads, LookUp(t, u, "suspendwalk") PROVE StrandInv'
  BY <1>5 DEF LookUp
<1>6. ASSUME NEW u \in Threads, LookUp(t, u, "resumewalk") PROVE StrandInv'
  BY <1>6 DEF LookUp
<1>7. CASE Exit(t)
  BY <1>7 DEF Exit
<1> QED
  BY <1>1, <1>2, <1>3, <1>4, <1>5, <1>6, <1>7 DEF LifeCall

LEMMA InsideStep ==
  ASSUME StrandInv, NEW t \in Threads, LifeStep(t)
  PROVE  StrandInv'
<1> USE DEF StrandInv, Shapes, Unborn, OnlyOneselfStranded, States, At, Runs,
            ReturnTo, Return, Goto, NewState, lists, record, kernel, creation
<1>1. CASE CreateReturns(t)
  BY <1>1 DEF CreateReturns
<1>2. CASE NewRecord(t)
  BY <1>2, FreshAssumption DEF NewRecord, Lost
<1>3. CASE NewPost(t)
  BY <1>3 DEF NewPost
<1>4. CASE NewAttr(t)
  BY <1>4 DEF NewAttr, Lost
<1>5. CASE NewLink(t)
  BY <1>5 DEF NewLink
<1>6. CASE NewStart(t)
  BY <1>6 DEF NewStart
<1>7. CASE NewFreeze(t)
  BY <1>7 DEF NewFreeze
<1>8. CASE NewThaw(t)
  BY <1>8 DEF NewThaw
<1>9. CASE ExitUnlink(t)
  BY <1>9 DEF ExitUnlink
<1>10. CASE ExitDie(t)
  BY <1>10 DEF ExitDie
<1>11. CASE ExitEnd(t)
  BY <1>11 DEF ExitEnd
<1>12. CASE Walk(t)
  BY <1>12, WalkStep
<1>13. CASE JoinCheck(t)
  BY <1>13 DEF JoinCheck, Joined
<1>14. CASE JoinTid(t)
  BY <1>14 DEF JoinTid
<1>15. CASE JoinWake(t)
  BY <1>15 DEF JoinWake, Joined
<1>16. CASE Suspend(t)
  BY <1>16 DEF Suspend
<1>17. CASE SuspendFreeze(t)
  BY <1>17 DEF SuspendFreeze
<1>18. CASE SuspendMark(t)
  BY <1>18 DEF SuspendMark
<1>19. CASE Resume(t)
  BY <1>19 DEF Resume
<1>20. CASE ResumeThaw(t)
  BY <1>20 DEF ResumeThaw
<1> QED
  BY <1>1, <1>2, <1>3, <1>4, <1>5, <1>6, <1>7, <1>8, <1>9, <1>10, <1>11, <1>12,
     <1>13, <1>14, <1>15, <1>16, <1>17, <1>18, <1>19, <1>20
  DEF LifeStep

-----------------------------------------------------------------------------
\* pthread_suspend_np and pthread_resume_np test the state, change it and
\* freeze or thaw in separate steps; however many controllers work on a
\* thread at once, only a thread that has frozen itself can be left frozen
\* in a state that no resume acts on.
THEOREM OnlyOneselfStrandedAlways == LifeSpec => []OnlyOneselfStranded
<1>1. StrandInv /\ [LifeNext]_lifeVars => StrandInv'
  <2> SUFFICES ASSUME StrandInv, [LifeNext]_lifeVars PROVE StrandInv'
    OBVIOUS
  <2>1. CASE UNCHANGED lifeVars
    BY <2>1 DEF StrandInv, Shapes, Unborn, OnlyOneselfStranded, lifeVars, record,
                kernel
  <2>2. CASE LifeNext
    BY <2>2, CallStep, InsideStep DEF LifeNext
  <2> QED
    BY <2>1, <2>2
<1>2. StrandInv => OnlyOneselfStranded
  BY DEF StrandInv
<1> QED
  BY StrandInit, <1>1, <1>2, PTL DEF LifeSpec

-----------------------------------------------------------------------------
(***************************************************************************)
(* The types, where each thread is in its life, and what a join relies on. *)
(***************************************************************************)
Typed ==
  /\ link \in Threads \cup {NoThread}
  /\ dead \in Threads \cup {NoThread}
  /\ nxt \in [Threads -> Threads \cup {NoThread}]
  /\ state \in [Threads -> States]
  /\ detached \in [Threads -> BOOLEAN]
  /\ saved \in [Threads -> BOOLEAN]
  /\ alive \in [Threads -> {"none", "runs", "ended"}]
  /\ frozen \in [Threads -> BOOLEAN]
  /\ creator \in [Threads -> Threads \cup {NoThread}]
  /\ attr \in [Threads -> [detached : BOOLEAN, suspended : BOOLEAN]]
  /\ frame \in [Threads -> BOOLEAN]
  /\ known \in [Threads -> BOOLEAN]
  /\ pc \in [Threads -> Places]
  /\ arg \in [Threads -> Threads \cup {NoThread}]
  /\ walk \in [Threads -> Threads \cup {NoThread}]

Early == {"none", "malloc", "post", "attr", "link", "lost"}

Walking == {"joinwalk", "deadwalk", "suspendwalk", "resumewalk"}
Joining == {"joincheck", "jointid", "joinwait"}

\* The threads that are, or have been, on a list.
PastLink == {u \in Threads : pc[u] \notin Early}

\* A thread ends in one of two places, with its result set when it was on a
\* list; a record that looks dead is that of an exited thread, or its
\* thread has not set the state yet.
Stages ==
  \A u \in Threads :
    /\ alive[u] = "none" => pc[u] = "none"
    /\ alive[u] = "ended" => pc[u] \in {"lost", "end"}
    /\ pc[u] \in {"exit", "die", "end"} => saved[u]
    /\ state[u] = "PS_DEAD" => saved[u] \/ pc[u] \in Early \cup {"state"}

\* What can be found by walking has been put on a list.
FoundPast ==
  /\ {link, dead} \subseteq PastLink \cup {NoThread}
  /\ \A x \in Threads : nxt[x] \in PastLink \cup {NoThread}
  /\ \A t \in Threads :
       /\ pc[t] \in Walking => arg[t] \in Threads /\ walk[t] \in PastLink \cup {NoThread}
       /\ pc[t] \in Joining => arg[t] \in PastLink

\* A join that does not wait for the thread it is about joins one that has
\* exited.
WaitsForIt ==
  \A t \in Threads : pc[t] = "joinwait" => walk[t] = arg[t] \/ saved[arg[t]]

\* The kernel's numbers.
Numbers ==
  /\ tid \in [Threads -> 0..Cardinality(Threads)]
  /\ \A u, v \in Threads : alive[u] = "runs" /\ alive[v] = "runs" /\ tid[u] = tid[v] => u = v

LifeInv == Typed /\ Stages /\ FoundPast /\ WaitsForIt /\ Numbers

LEMMA TypedInit == IsFiniteSet(Threads) /\ LifeInit => LifeInv
<1> SUFFICES ASSUME IsFiniteSet(Threads), LifeInit PROVE LifeInv
  OBVIOUS
<1>1. Cardinality(Threads) \in Nat /\ Cardinality(Threads) # 0
  BY FS_CardinalityType, FS_EmptySet, MainAssumption
<1>2. Typed
  BY MainAssumption DEF LifeInit, Typed, States, Places, Nobody, Default
<1>3. Numbers
  BY <1>1 DEF LifeInit, Numbers
<1>4. Stages /\ FoundPast /\ WaitsForIt
  BY ThreadAssumption, MainAssumption
  DEF LifeInit, Stages, FoundPast, PastLink, WaitsForIt, Early, Nobody, Walking, Joining
<1> QED
  BY <1>2, <1>3, <1>4 DEF LifeInv

LEMMA FreeNumberIsFree ==
  ASSUME IsFiniteSet(Threads), NEW u \in Threads, alive[u] # "runs"
  PROVE  /\ FreeNumber \in 1..Cardinality(Threads)
         /\ \A v \in Threads : alive[v] = "runs" => tid[v] # FreeNumber
<1> DEFINE N == Cardinality(Threads)
           Free == {n \in 1..N : \A v \in Threads : alive[v] = "runs" => tid[v] # n}
<1>1. N \in Nat
  BY FS_CardinalityType
<1>2. Free # {}
  <2> SUFFICES ASSUME \A n \in 1..N : \E v \in Threads : alive[v] = "runs" /\ tid[v] = n
               PROVE  FALSE
    OBVIOUS
  <2> DEFINE e == [n \in 1..N |-> CHOOSE v \in Threads : alive[v] = "runs" /\ tid[v] = n]
  <2>1. \A n \in 1..N : e[n] \in Threads \ {u} /\ tid[e[n]] = n
    OBVIOUS
  <2>2. e \in Injection(1..N, Threads \ {u})
    <3>1. e \in [1..N -> Threads \ {u}]
      BY <2>1
    <3>2. \A a, b \in 1..N : e[a] = e[b] => a = b
      BY <2>1
    <3> HIDE DEF e
    <3> QED
      BY <3>1, <3>2 DEF Injection, IsInjective
  <2> HIDE DEF e
  <2>3. IsFiniteSet(Threads \ {u}) /\ Cardinality(Threads \ {u}) = N - 1
    BY FS_RemoveElement
  <2>4. Cardinality(1..N) <= Cardinality(Threads \ {u})
    BY <2>2, <2>3, FS_Injection
  <2>5. Cardinality(1..N) = IF 1 > N THEN 0 ELSE N - 1 + 1
    BY <1>1, FS_Interval
  <2>6. 0 <= N - 1
    BY <2>3, FS_CardinalityType
  <2> QED
    BY <1>1, <2>3, <2>4, <2>5, <2>6
<1>3. PICK n \in Free : \A m \in Free : n <= m
  <2>1. Free \subseteq Nat
    OBVIOUS
  <2> HIDE DEF Free
  <2> QED
    BY <1>2, <2>1, LeastNat
<1>4. \A m \in 1..(n-1) : m \in 1..N /\ ~(n <= m)
  BY <1>1
<1>5. \A m \in 1..(n-1) : \E v \in Threads : alive[v] = "runs" /\ tid[v] = m
  BY <1>3, <1>4
<1>6. \E m \in 1..N : /\ \A v \in Threads : alive[v] = "runs" => tid[v] # m
                      /\ \A k \in 1..(m-1) : \E v \in Threads : alive[v] = "runs" /\ tid[v] = k
  BY <1>5
<1> QED
  BY <1>6 DEF FreeNumber

LEMMA WalkDoes ==
  ASSUME Typed, NEW t \in Threads, Walk(t)
  PROVE  /\ pc[t] \in Walking /\ UNCHANGED <<lists, record, kernel, creation>>
         /\ \/ /\ walk[t] = arg[t] /\ UNCHANGED <<arg, walk>>
               /\ \E l \in {"joincheck", "suspend", "resume"} : pc' = [pc EXCEPT ![t] = l]
            \/ /\ walk[t] \in Threads /\ UNCHANGED <<arg, pc>>
               /\ walk' = [walk EXCEPT ![t] = nxt[walk[t]]]
            \/ /\ UNCHANGED arg
               /\ pc' = [pc EXCEPT ![t] = "deadwalk"]
               /\ walk' = [walk EXCEPT ![t] = dead]
            \/ \E l \in {"ESRCH", "routine"} : ReturnTo(t, l)
<1>1. pc[t] \in Walking /\ Found[pc[t]] \in {"joincheck", "suspend", "resume"}
  BY WalksLead DEF Walk, Walking
<1>2. UNCHANGED <<lists, record, kernel, creation>>
  BY DEF Walk
<1>3. CASE walk[t] = arg[t] /\ Goto(t, Found[pc[t]])
  BY <1>1, <1>2, <1>3 DEF Goto
<1>4. CASE /\ walk[t] \notin {arg[t], NoThread}
           /\ walk' = [walk EXCEPT ![t] = nxt[walk[t]]]
           /\ UNCHANGED <<pc, arg>>
  BY <1>1, <1>2, <1>4 DEF Typed
<1>5. CASE /\ walk' = [walk EXCEPT ![t] = dead]
           /\ pc' = [pc EXCEPT ![t] = "deadwalk"]
           /\ UNCHANGED arg
  BY <1>1, <1>2, <1>5
<1>6. CASE ReturnTo(t, "ESRCH") \/ Return(t)
  BY <1>1, <1>2, <1>6 DEF Return
<1> QED
  BY <1>3, <1>4, <1>5, <1>6 DEF Walk

LEMMA TypedStep ==
  ASSUME LifeInv, NEW t \in Threads, LifeStep(t)
  PROVE  Typed'
<1> USE DEF LifeInv, At, Runs, ReturnTo, Return, Goto, NewState, lists, record, kernel,
            creation, Typed, States, Places, Default
<1>1. CASE CreateReturns(t)
  BY <1>1, ThreadAssumption DEF CreateReturns
<1>2. CASE NewRecord(t)
  <2>1. CASE Lost(t)
    BY <1>2, <2>1 DEF Lost
  <2>2. CASE /\ \E s \in FreshStates : NewState(t, s)
             /\ \E d \in FreshDetached : detached' = [detached EXCEPT ![t] = d]
             /\ Goto(t, "post")
             /\ UNCHANGED <<lists, saved, kernel, creation>>
    <3>1. state' \in [Threads -> States] /\ detached' \in [Threads -> BOOLEAN]
      BY <2>2, FreshAssumption
    <3> QED
      BY <2>2, <3>1
  <2> QED
    BY <1>2, <2>1, <2>2 DEF NewRecord
<1>3. CASE NewPost(t)
  BY <1>3, ThreadAssumption DEF NewPost
<1>4. CASE NewAttr(t)
  <2>1. CASE Lost(t)
    BY <1>4, <2>1 DEF Lost
  <2>2. CASE /\ \E d, s \in BOOLEAN :
                  /\ attr' = [attr EXCEPT ![t] = [detached |-> d, suspended |-> s]]
                  /\ detached' = [detached EXCEPT ![t] = d]
             /\ Goto(t, "link")
             /\ UNCHANGED <<lists, state, saved, kernel, creator, frame, known>>
    <3>1. /\ attr' \in [Threads -> [detached : BOOLEAN, suspended : BOOLEAN]]
          /\ detached' \in [Threads -> BOOLEAN]
      BY <2>2
    <3> QED
      BY <2>2, <3>1
  <2> QED
    BY <1>4, <2>1, <2>2 DEF NewAttr
<1>5. CASE NewLink(t)
  BY <1>5, ThreadAssumption DEF NewLink
<1>6. CASE NewStart(t)
  BY <1>6, ThreadAssumption DEF NewStart
<1>7. CASE NewFreeze(t)
  BY <1>7, ThreadAssumption DEF NewFreeze
<1>8. CASE NewThaw(t)
  BY <1>8, ThreadAssumption DEF NewThaw
<1>9. CASE ExitUnlink(t)
  BY <1>9, ThreadAssumption DEF ExitUnlink
<1>10. CASE ExitDie(t)
  BY <1>10, ThreadAssumption DEF ExitDie
<1>11. CASE ExitEnd(t)
  BY <1>11, ThreadAssumption DEF ExitEnd
<1>12. CASE Walk(t)
  <2>1. link' = link /\ dead' = dead /\ nxt' = nxt /\ UNCHANGED <<record, kernel, creation>>
    BY <1>12, WalkDoes
  <2>2. /\ pc' \in [Threads -> Places]
        /\ arg' \in [Threads -> Threads \cup {NoThread}]
        /\ walk' \in [Threads -> Threads \cup {NoThread}]
    <3>1. CASE /\ walk[t] = arg[t] /\ UNCHANGED <<arg, walk>>
               /\ \E l \in {"joincheck", "suspend", "resume"} : pc' = [pc EXCEPT ![t] = l]
      BY <3>1
    <3>2. CASE /\ walk[t] \in Threads /\ UNCHANGED <<arg, pc>>
               /\ walk' = [walk EXCEPT ![t] = nxt[walk[t]]]
      <4>1. nxt[walk[t]] \in Threads \cup {NoThread}
        BY <3>2
      <4> QED
        BY <3>2, <4>1
    <3>3. CASE /\ UNCHANGED arg
               /\ pc' = [pc EXCEPT ![t] = "deadwalk"]
               /\ walk' = [walk EXCEPT ![t] = dead]
      BY <3>3 DEF Found
    <3>4. CASE \E l \in {"ESRCH", "routine"} : ReturnTo(t, l)
      BY <3>4
    <3> QED
      BY <1>12, WalkDoes, <3>1, <3>2, <3>3, <3>4
  <2> QED
    BY <2>1, <2>2
<1>13. CASE JoinCheck(t)
  BY <1>13, ThreadAssumption DEF JoinCheck, Joined
<1>14. CASE JoinTid(t)
  <2>1. walk' \in [Threads -> Threads \cup {NoThread}]
    BY <1>14 DEF JoinTid
  <2> QED
    BY <1>14, <2>1 DEF JoinTid
<1>15. CASE JoinWake(t)
  BY <1>15, ThreadAssumption DEF JoinWake, Joined
<1>16. CASE Suspend(t)
  BY <1>16, ThreadAssumption DEF Suspend
<1>17. CASE SuspendFreeze(t)
  BY <1>17, ThreadAssumption DEF SuspendFreeze
<1>18. CASE SuspendMark(t)
  BY <1>18, ThreadAssumption DEF SuspendMark
<1>19. CASE Resume(t)
  BY <1>19, ThreadAssumption DEF Resume
<1>20. CASE ResumeThaw(t)
  BY <1>20, ThreadAssumption DEF ResumeThaw
<1> QED
  BY <1>1, <1>2, <1>3, <1>4, <1>5, <1>6, <1>7, <1>8, <1>9, <1>10, <1>11, <1>12, <1>13,
     <1>14, <1>15, <1>16, <1>17, <1>18, <1>19, <1>20
  DEF LifeStep

LEMMA StagesStep ==
  ASSUME LifeInv, NEW t \in Threads, LifeStep(t)
  PROVE  Stages'
<1> USE DEF LifeInv, At, Runs, ReturnTo, Return, Goto, NewState, lists, record, kernel,
            creation, Typed, Stages, Early
<1>1. CASE CreateReturns(t)
  BY <1>1, ThreadAssumption DEF CreateReturns
<1>2. CASE NewRecord(t)
  BY <1>2, FreshAssumption, ThreadAssumption DEF NewRecord, Lost
<1>3. CASE NewPost(t)
  BY <1>3, ThreadAssumption DEF NewPost
<1>4. CASE NewAttr(t)
  BY <1>4, ThreadAssumption DEF NewAttr, Lost
<1>5. CASE NewLink(t)
  BY <1>5, ThreadAssumption DEF NewLink
<1>6. CASE NewStart(t)
  BY <1>6, ThreadAssumption DEF NewStart
<1>7. CASE NewFreeze(t)
  BY <1>7, ThreadAssumption DEF NewFreeze
<1>8. CASE NewThaw(t)
  BY <1>8, ThreadAssumption DEF NewThaw
<1>9. CASE ExitUnlink(t)
  BY <1>9, ThreadAssumption DEF ExitUnlink
<1>10. CASE ExitDie(t)
  BY <1>10, ThreadAssumption DEF ExitDie
<1>11. CASE ExitEnd(t)
  BY <1>11, ThreadAssumption DEF ExitEnd
<1>12. CASE Walk(t)
  BY <1>12, WalksLead, ThreadAssumption DEF Walk
<1>13. CASE JoinCheck(t)
  BY <1>13, ThreadAssumption DEF JoinCheck, Joined
<1>14. CASE JoinTid(t)
  BY <1>14, ThreadAssumption DEF JoinTid
<1>15. CASE JoinWake(t)
  BY <1>15, ThreadAssumption DEF JoinWake, Joined
<1>16. CASE Suspend(t)
  BY <1>16, ThreadAssumption DEF Suspend
<1>17. CASE SuspendFreeze(t)
  BY <1>17, ThreadAssumption DEF SuspendFreeze
<1>18. CASE SuspendMark(t)
  BY <1>18, ThreadAssumption DEF SuspendMark
<1>19. CASE Resume(t)
  BY <1>19, ThreadAssumption DEF Resume
<1>20. CASE ResumeThaw(t)
  BY <1>20, ThreadAssumption DEF ResumeThaw
<1> QED
  BY <1>1, <1>2, <1>3, <1>4, <1>5, <1>6, <1>7, <1>8, <1>9, <1>10, <1>11, <1>12, <1>13,
     <1>14, <1>15, <1>16, <1>17, <1>18, <1>19, <1>20
  DEF LifeStep

\* A step of t that puts no record on a list, takes none off, and leads t to
\* a place outside of the searches.
Moves(t, l) ==
  /\ pc' = [pc EXCEPT ![t] = l]
  /\ l \notin Walking \cup Joining
  /\ pc[t] \notin Early => l \notin Early
  /\ \A x \in Threads \ {t} : arg'[x] = arg[x] /\ walk'[x] = walk[x]
  /\ UNCHANGED lists

LEMMA MovesKeep ==
  ASSUME Typed, FoundPast, NEW t \in Threads, NEW l, Moves(t, l)
  PROVE  FoundPast'
<1>1. PastLink \subseteq PastLink'
  BY DEF PastLink, Moves, Typed
<1>2. UNCHANGED <<link, dead, nxt>>
  BY DEF Moves, lists
<1>3. \A x \in Threads \ {t} : pc'[x] = pc[x] /\ arg'[x] = arg[x] /\ walk'[x] = walk[x]
  BY DEF Moves, Typed
<1>4. pc'[t] \notin Walking /\ pc'[t] \notin Joining
  BY DEF Moves, Typed
<1> QED
  BY <1>1, <1>2, <1>3, <1>4 DEF FoundPast

LEMMA FoundPastStep ==
  ASSUME LifeInv, NEW t \in Threads, LifeStep(t)
  PROVE  FoundPast'
<1> USE DEF LifeInv
<1>1. CASE CreateReturns(t)
  <2>1. \E l \in {"routine"} : Moves(t, l)
    BY <1>1
    DEF CreateReturns, Moves, At, Goto, Return, ReturnTo, lists, Early, Walking, Joining,
        Typed
  <2> QED
    BY <2>1, MovesKeep
<1>2. CASE NewRecord(t)
  <2>1. \E l \in {"post", "lost"} : Moves(t, l)
    BY <1>2
    DEF NewRecord, Lost, Moves, At, Goto, Return, ReturnTo, lists, Early, Walking, Joining,
        Typed
  <2> QED
    BY <2>1, MovesKeep
<1>3. CASE NewPost(t)
  <2>1. \E l \in {"attr"} : Moves(t, l)
    BY <1>3
    DEF NewPost, Moves, At, Goto, Return, ReturnTo, lists, Early, Walking, Joining, Typed
  <2> QED
    BY <2>1, MovesKeep
<1>4. CASE NewAttr(t)
  <2>1. \E l \in {"link", "lost"} : Moves(t, l)
    BY <1>4
    DEF NewAttr, Lost, Moves, At, Goto, Return, ReturnTo, lists, Early, Walking, Joining,
        Typed
  <2> QED
    BY <2>1, MovesKeep
<1>5. CASE NewLink(t)
  <2>1. /\ pc' = [pc EXCEPT ![t] = "state"] /\ pc[t] = "link"
        /\ link' = t /\ dead' = dead /\ nxt' = [nxt EXCEPT ![t] = link]
        /\ UNCHANGED <<arg, walk>>
    BY <1>5 DEF NewLink, At, Goto
  <2>2. t \in PastLink' /\ PastLink \subseteq PastLink'
    BY <2>1 DEF PastLink, Early, Typed
  <2>3. \A x \in Threads : nxt'[x] \in {link, nxt[x]}
    BY <2>1 DEF Typed
  <2>4. \A x \in Threads : pc'[x] \in Walking \cup Joining => pc'[x] = pc[x]
    BY <2>1 DEF Typed, Walking, Joining
  <2> QED
    BY <2>1, <2>2, <2>3, <2>4 DEF FoundPast
<1>6. CASE NewStart(t)
  <2>1. \E l \in {"freeze", "routine"} : Moves(t, l)
    BY <1>6
    DEF NewStart, Moves, At, Goto, Return, ReturnTo, lists, Early, Walking, Joining, Typed
  <2> QED
    BY <2>1, MovesKeep
<1>7. CASE NewFreeze(t)
  <2>1. \E l \in {"thaw"} : Moves(t, l)
    BY <1>7
    DEF NewFreeze, Moves, At, Goto, Return, ReturnTo, lists, Early, Walking, Joining, Typed
  <2> QED
    BY <2>1, MovesKeep
<1>8. CASE NewThaw(t)
  <2>1. \E l \in {"routine"} : Moves(t, l)
    BY <1>8
    DEF NewThaw, Moves, At, Goto, Return, ReturnTo, lists, Early, Walking, Joining, Typed
  <2> QED
    BY <2>1, MovesKeep
<1>9. CASE ExitUnlink(t)
  <2>1. /\ pc' = [pc EXCEPT ![t] = "die"] /\ pc[t] = "exit"
        /\ link' \in {link, nxt[t]} /\ dead' = t
        /\ UNCHANGED <<arg, walk>>
    BY <1>9 DEF ExitUnlink, At, Goto
  <2>2. t \in PastLink /\ PastLink \subseteq PastLink'
    BY <2>1 DEF PastLink, Early, Typed
  <2>3. \A x \in Threads : nxt'[x] \in {dead, nxt[t], nxt[x]}
    <3> DEFINE r == IF link = t THEN nxt
                    ELSE [p \in Threads |-> IF p \in Chain(link) /\ nxt[p] = t THEN nxt[t] ELSE nxt[p]]
    <3>1. nxt' = [r EXCEPT ![t] = dead]
      BY <1>9 DEF ExitUnlink
    <3>2. DOMAIN r = Threads /\ \A x \in Threads : r[x] \in {nxt[t], nxt[x]}
      BY DEF Typed
    <3> HIDE DEF r
    <3> QED
      BY <3>1, <3>2
  <2>4. \A x \in Threads : pc'[x] \in Walking \cup Joining => pc'[x] = pc[x]
    BY <2>1 DEF Typed, Walking, Joining
  <2> QED
    BY <2>1, <2>2, <2>3, <2>4 DEF FoundPast
<1>10. CASE ExitDie(t)
  <2>1. \E l \in {"end"} : Moves(t, l)
    BY <1>10
    DEF ExitDie, Moves, At, Goto, Return, ReturnTo, lists, Early, Walking, Joining, Typed
  <2> QED
    BY <2>1, MovesKeep
<1>11. CASE ExitEnd(t)
  BY <1>11 DEF ExitEnd, FoundPast, PastLink, lists
<1>12. CASE Walk(t)
  <2>1. pc[t] \in Walking /\ UNCHANGED lists
    BY <1>12, WalkDoes
  <2>2. CASE /\ walk[t] = arg[t] /\ UNCHANGED <<arg, walk>>
             /\ \E l \in {"joincheck", "suspend", "resume"} : pc' = [pc EXCEPT ![t] = l]
    BY <2>1, <2>2, ThreadAssumption
    DEF FoundPast, PastLink, Walking, Joining, Early, Typed, lists
  <2>3. CASE /\ walk[t] \in Threads /\ UNCHANGED <<arg, pc>>
             /\ walk' = [walk EXCEPT ![t] = nxt[walk[t]]]
    BY <2>1, <2>3 DEF FoundPast, PastLink, Typed, lists
  <2>4. CASE /\ UNCHANGED arg
             /\ pc' = [pc EXCEPT ![t] = "deadwalk"]
             /\ walk' = [walk EXCEPT ![t] = dead]
    BY <2>1, <2>4 DEF FoundPast, PastLink, Walking, Joining, Early, Typed, lists
  <2>5. CASE \E l \in {"ESRCH", "routine"} : ReturnTo(t, l)
    <3>1. \E l \in {"ESRCH", "routine"} : Moves(t, l)
      BY <2>1, <2>5 DEF ReturnTo, Moves, Early, Walking, Joining, Typed
    <3> QED
      BY <3>1, MovesKeep
  <2> QED
    BY <1>12, WalkDoes, <2>2, <2>3, <2>4, <2>5
<1>13. CASE JoinCheck(t)
  <2>1. CASE \E l \in {"ESRCH", "routine", "garbage"} : ReturnTo(t, l)
    <3>1. \E l \in {"ESRCH", "routine", "garbage"} : Moves(t, l)
      BY <1>13, <2>1 DEF JoinCheck, ReturnTo, Moves, Early, Walking, Joining, Typed
    <3> QED
      BY <3>1, MovesKeep
  <2>2. CASE Goto(t, "jointid")
    BY <1>13, <2>2
    DEF JoinCheck, At, Goto, FoundPast, PastLink, Walking, Joining, Early, Typed, lists
  <2> QED
    BY <1>13, <2>1, <2>2 DEF JoinCheck, Joined
<1>14. CASE JoinTid(t)
  <2>1. /\ pc[t] = "jointid" /\ pc' = [pc EXCEPT ![t] = "joinwait"]
        /\ UNCHANGED <<lists, arg>>
        /\ \A x \in Threads : x # t => walk'[x] = walk[x]
    BY <1>14 DEF JoinTid, At, Typed
  <2>2. PastLink' = PastLink
    BY <2>1 DEF PastLink, Early, Typed
  <2> QED
    BY <2>1, <2>2 DEF FoundPast, Walking, Joining, Typed, lists
<1>15. CASE JoinWake(t)
  <2>1. \E l \in {"ESRCH", "routine", "garbage"} : Moves(t, l)
    BY <1>15
    DEF JoinWake, Joined, Moves, At, Goto, Return, ReturnTo, lists, Early, Walking, Joining,
        Typed
  <2> QED
    BY <2>1, MovesKeep
<1>16. CASE Suspend(t)
  <2>1. \E l \in {"freezing", "mark"} : Moves(t, l)
    BY <1>16
    DEF Suspend, Moves, At, Goto, Return, ReturnTo, lists, Early, Walking, Joining, Typed
  <2> QED
    BY <2>1, MovesKeep
<1>17. CASE SuspendFreeze(t)
  <2>1. \E l \in {"mark"} : Moves(t, l)
    BY <1>17
    DEF SuspendFreeze, Moves, At, Goto, Return, ReturnTo, lists, Early, Walking, Joining,
        Typed
  <2> QED
    BY <2>1, MovesKeep
<1>18. CASE SuspendMark(t)
  <2>1. \E l \in {"routine"} : Moves(t, l)
    BY <1>18
    DEF SuspendMark, Moves, At, Goto, Return, ReturnTo, lists, Early, Walking, Joining,
        Typed
  <2> QED
    BY <2>1, MovesKeep
<1>19. CASE Resume(t)
  <2>1. \E l \in {"thawing", "routine"} : Moves(t, l)
    BY <1>19
    DEF Resume, Moves, At, Goto, Return, ReturnTo, lists, Early, Walking, Joining, Typed
  <2> QED
    BY <2>1, MovesKeep
<1>20. CASE ResumeThaw(t)
  <2>1. \E l \in {"routine"} : Moves(t, l)
    BY <1>20
    DEF ResumeThaw, Moves, At, Goto, Return, ReturnTo, lists, Early, Walking, Joining, Typed
  <2> QED
    BY <2>1, MovesKeep
<1> QED
  BY <1>1, <1>2, <1>3, <1>4, <1>5, <1>6, <1>7, <1>8, <1>9, <1>10, <1>11, <1>12, <1>13,
     <1>14, <1>15, <1>16, <1>17, <1>18, <1>19, <1>20
  DEF LifeStep

LEMMA WaitsForItStep ==
  ASSUME LifeInv, NEW t \in Threads, LifeStep(t)
  PROVE  WaitsForIt'
<1> USE DEF LifeInv, At, Runs, ReturnTo, Return, Goto, NewState, lists, record, kernel,
            creation, Typed, WaitsForIt, FoundPast, Stages, PastLink, Early
<1>1. CASE CreateReturns(t)
  BY <1>1, ThreadAssumption DEF CreateReturns
<1>2. CASE NewRecord(t)
  BY <1>2, FreshAssumption, ThreadAssumption DEF NewRecord, Lost
<1>3. CASE NewPost(t)
  BY <1>3, ThreadAssumption DEF NewPost
<1>4. CASE NewAttr(t)
  BY <1>4, ThreadAssumption DEF NewAttr, Lost
<1>5. CASE NewLink(t)
  BY <1>5, ThreadAssumption DEF NewLink
<1>6. CASE NewStart(t)
  BY <1>6, ThreadAssumption DEF NewStart
<1>7. CASE NewFreeze(t)
  BY <1>7, ThreadAssumption DEF NewFreeze
<1>8. CASE NewThaw(t)
  BY <1>8, ThreadAssumption DEF NewThaw
<1>9. CASE ExitUnlink(t)
  BY <1>9, ThreadAssumption DEF ExitUnlink
<1>10. CASE ExitDie(t)
  BY <1>10, ThreadAssumption DEF ExitDie
<1>11. CASE ExitEnd(t)
  BY <1>11, ThreadAssumption DEF ExitEnd
<1>12. CASE Walk(t)
  BY <1>12, WalksLead, ThreadAssumption DEF Walk
<1>13. CASE JoinCheck(t)
  BY <1>13, ThreadAssumption DEF JoinCheck, Joined
<1>14. CASE JoinTid(t)
  <2>1. /\ pc[t] = "jointid" /\ pc' = [pc EXCEPT ![t] = "joinwait"]
        /\ UNCHANGED <<saved, arg>>
        /\ \A x \in Threads : x # t => walk'[x] = walk[x]
    BY <1>14 DEF JoinTid
  <2>2. arg[t] \in Threads /\ pc[arg[t]] \notin Early
    BY <2>1 DEF Joining
  <2>3. alive[arg[t]] = "runs" \/ saved[arg[t]]
    BY <2>2
  <2>4. CASE saved[arg[t]]
    BY <2>1, <2>4
  <2>5. CASE alive[arg[t]] = "runs"
    <3>1. PICK u \in Threads : /\ alive[u] = "runs" /\ tid[u] = tid[arg[t]]
                               /\ walk' = [walk EXCEPT ![t] = u]
      BY <1>14, <2>2, <2>5 DEF JoinTid
    <3>2. u = arg[t]
      BY <2>2, <2>5, <3>1 DEF Numbers
    <3> QED
      BY <2>1, <3>1, <3>2
  <2> QED
    BY <2>3, <2>4, <2>5
<1>15. CASE JoinWake(t)
  BY <1>15, ThreadAssumption DEF JoinWake, Joined
<1>16. CASE Suspend(t)
  BY <1>16, ThreadAssumption DEF Suspend
<1>17. CASE SuspendFreeze(t)
  BY <1>17, ThreadAssumption DEF SuspendFreeze
<1>18. CASE SuspendMark(t)
  BY <1>18, ThreadAssumption DEF SuspendMark
<1>19. CASE Resume(t)
  BY <1>19, ThreadAssumption DEF Resume
<1>20. CASE ResumeThaw(t)
  BY <1>20, ThreadAssumption DEF ResumeThaw
<1> QED
  BY <1>1, <1>2, <1>3, <1>4, <1>5, <1>6, <1>7, <1>8, <1>9, <1>10, <1>11, <1>12, <1>13,
     <1>14, <1>15, <1>16, <1>17, <1>18, <1>19, <1>20
  DEF LifeStep

LEMMA NumbersStep ==
  ASSUME LifeInv, NEW t \in Threads, LifeStep(t)
  PROVE  Numbers'
<1> USE DEF LifeInv, At, Runs, ReturnTo, Return, Goto, NewState, lists, record, kernel,
            creation, Typed, Numbers
<1>1. CASE CreateReturns(t)
  BY <1>1, ThreadAssumption DEF CreateReturns
<1>2. CASE NewRecord(t)
  BY <1>2, FreshAssumption, ThreadAssumption DEF NewRecord, Lost
<1>3. CASE NewPost(t)
  BY <1>3, ThreadAssumption DEF NewPost
<1>4. CASE NewAttr(t)
  BY <1>4, ThreadAssumption DEF NewAttr, Lost
<1>5. CASE NewLink(t)
  BY <1>5, ThreadAssumption DEF NewLink
<1>6. CASE NewStart(t)
  BY <1>6, ThreadAssumption DEF NewStart
<1>7. CASE NewFreeze(t)
  BY <1>7, ThreadAssumption DEF NewFreeze
<1>8. CASE NewThaw(t)
  BY <1>8, ThreadAssumption DEF NewThaw
<1>9. CASE ExitUnlink(t)
  BY <1>9, ThreadAssumption DEF ExitUnlink
<1>10. CASE ExitDie(t)
  BY <1>10, ThreadAssumption DEF ExitDie
<1>11. CASE ExitEnd(t)
  BY <1>11, ThreadAssumption DEF ExitEnd
<1>12. CASE Walk(t)
  BY <1>12, WalksLead, ThreadAssumption DEF Walk
<1>13. CASE JoinCheck(t)
  BY <1>13, ThreadAssumption DEF JoinCheck, Joined
<1>14. CASE JoinTid(t)
  BY <1>14, ThreadAssumption DEF JoinTid
<1>15. CASE JoinWake(t)
  BY <1>15, ThreadAssumption DEF JoinWake, Joined
<1>16. CASE Suspend(t)
  BY <1>16, ThreadAssumption DEF Suspend
<1>17. CASE SuspendFreeze(t)
  BY <1>17, ThreadAssumption DEF SuspendFreeze
<1>18. CASE SuspendMark(t)
  BY <1>18, ThreadAssumption DEF SuspendMark
<1>19. CASE Resume(t)
  BY <1>19, ThreadAssumption DEF Resume
<1>20. CASE ResumeThaw(t)
  BY <1>20, ThreadAssumption DEF ResumeThaw
<1> QED
  BY <1>1, <1>2, <1>3, <1>4, <1>5, <1>6, <1>7, <1>8, <1>9, <1>10, <1>11, <1>12, <1>13,
     <1>14, <1>15, <1>16, <1>17, <1>18, <1>19, <1>20
  DEF LifeStep

LEMMA CreateKeeps ==
  ASSUME IsFiniteSet(Threads), LifeInv, NEW t \in Threads, NEW u \in Threads, Create(t, u)
  PROVE  LifeInv'
<1>1. /\ pc[t] \in {"routine", "garbage", "ESRCH"} /\ alive[t] = "runs"
      /\ alive[u] = "none"
      /\ alive' = [alive EXCEPT ![u] = "runs"]
      /\ tid' = [tid EXCEPT ![u] = FreeNumber]
      /\ arg' = [arg EXCEPT ![t] = u]
      /\ pc' = [pc EXCEPT ![t] = "ack", ![u] = "malloc"]
      /\ UNCHANGED <<lists, record, frozen, known, walk>>
  BY DEF Create, Idle, Runs
<1>2. t # u /\ pc[u] = "none"
  BY <1>1 DEF LifeInv, Stages
<1>3. /\ pc'[t] = "ack" /\ pc'[u] = "malloc"
      /\ \A x \in Threads \ {t, u} : pc'[x] = pc[x]
      /\ \A x \in Threads \ {t} : arg'[x] = arg[x]
  BY <1>1, <1>2 DEF LifeInv, Typed
<1>4. Typed'
  <2>1. /\ creator' \in [Threads -> Threads \cup {NoThread}]
        /\ frame' \in [Threads -> BOOLEAN]
    BY DEF Create, LifeInv, Typed
  <2>2. attr' \in [Threads -> [detached : BOOLEAN, suspended : BOOLEAN]]
    BY DEF Create, LifeInv, Typed
  <2>3. pc' \in [Threads -> Places] /\ alive' \in [Threads -> {"none", "runs", "ended"}]
    BY <1>1 DEF LifeInv, Typed, Places
  <2>4. arg' \in [Threads -> Threads \cup {NoThread}]
    BY <1>1 DEF LifeInv, Typed
  <2> QED
    BY <1>1, <2>1, <2>2, <2>3, <2>4 DEF LifeInv, Typed, lists, record
<1>5. Stages'
  <2>1. alive'[u] = "runs" /\ \A x \in Threads \ {u} : alive'[x] = alive[x]
    BY <1>1 DEF LifeInv, Typed
  <2>2. UNCHANGED <<state, saved>>
    BY <1>1 DEF record
  <2> SUFFICES ASSUME NEW x \in Threads
               PROVE  /\ alive'[x] = "none" => pc'[x] = "none"
                      /\ alive'[x] = "ended" => pc'[x] \in {"lost", "end"}
                      /\ pc'[x] \in {"exit", "die", "end"} => saved'[x]
                      /\ state'[x] = "PS_DEAD" => saved'[x] \/ pc'[x] \in Early \cup {"state"}
    BY DEF Stages
  <2>3. CASE x = u
    BY <1>3, <2>1, <2>3 DEF Early
  <2>4. CASE x = t
    BY <1>1, <1>2, <1>3, <2>1, <2>2, <2>4 DEF LifeInv, Stages, Early
  <2>5. CASE x \notin {t, u}
    BY <1>3, <2>1, <2>2, <2>5 DEF LifeInv, Stages
  <2> QED
    BY <2>3, <2>4, <2>5
<1>6. FoundPast'
  <2>1. PastLink' = PastLink
    <3>1. ASSUME NEW x \in Threads PROVE pc'[x] \in Early <=> pc[x] \in Early
      <4>1. CASE x = t
        BY <1>1, <1>3, <4>1 DEF Early
      <4>2. CASE x = u
        BY <1>2, <1>3, <4>2 DEF Early
      <4> QED
        BY <1>3, <4>1, <4>2
    <3> QED
      BY <3>1 DEF PastLink
  <2>2. \A x \in Threads : /\ pc'[x] \in Walking => pc[x] \in Walking /\ x # t
                           /\ pc'[x] \in Joining => pc[x] \in Joining /\ x # t
    BY <1>3 DEF Walking, Joining
  <2>3. UNCHANGED <<link, dead, nxt, walk>>
    BY <1>1 DEF lists
  <2> QED
    BY <1>3, <2>1, <2>2, <2>3 DEF LifeInv, FoundPast
<1>7. WaitsForIt'
  <2>1. \A x \in Threads : pc'[x] = "joinwait" => pc[x] = "joinwait" /\ x # t
    BY <1>3
  <2> QED
    BY <1>1, <1>3, <2>1 DEF LifeInv, WaitsForIt, record
<1>8. Numbers'
  <2>1. /\ FreeNumber \in 1..Cardinality(Threads)
        /\ \A v \in Threads : alive[v] = "runs" => tid[v] # FreeNumber
    BY <1>1, FreeNumberIsFree
  <2>2. tid' \in [Threads -> 0..Cardinality(Threads)]
    <3>1. FreeNumber \in 0..Cardinality(Threads)
      BY <2>1, FS_CardinalityType
    <3> QED
      BY <1>1, <3>1 DEF LifeInv, Numbers
  <2>3. /\ alive'[u] = "runs" /\ tid'[u] = FreeNumber
        /\ \A x \in Threads \ {u} : alive'[x] = alive[x] /\ tid'[x] = tid[x]
    BY <1>1 DEF LifeInv, Typed, Numbers
  <2> QED
    BY <2>1, <2>2, <2>3 DEF LifeInv, Numbers
<1> QED
  BY <1>4, <1>5, <1>6, <1>7, <1>8 DEF LifeInv

LEMMA LookUpKeeps ==
  ASSUME LifeInv, NEW t \in Threads, NEW u \in Threads, NEW l \in Walking, LookUp(t, u, l)
  PROVE  LifeInv'
<1>1. /\ pc[t] \in {"routine", "garbage", "ESRCH"} /\ alive[t] = "runs"
      /\ arg' = [arg EXCEPT ![t] = u]
      /\ walk' = [walk EXCEPT ![t] = link]
      /\ pc' = [pc EXCEPT ![t] = l]
      /\ UNCHANGED <<lists, record, kernel, creation>>
  BY DEF LookUp, Idle, Runs
<1> USE DEF LifeInv
<1>2. Typed'
  BY <1>1 DEF Typed, Places, Found, Walking, lists, record, kernel, creation
<1>3. Stages'
  BY <1>1 DEF Typed, Stages, Walking, Early, record, kernel
<1>4. FoundPast'
  <2>1. PastLink' = PastLink
    BY <1>1 DEF PastLink, Typed, Early, Walking
  <2> QED
    BY <1>1, <2>1 DEF FoundPast, Typed, Walking, Joining, lists
<1>5. WaitsForIt'
  BY <1>1 DEF WaitsForIt, Typed, Walking, record
<1>6. Numbers'
  BY <1>1 DEF Numbers, kernel
<1> QED
  BY <1>2, <1>3, <1>4, <1>5, <1>6

LEMMA OtherCallKeeps ==
  ASSUME LifeInv, NEW t \in Threads,
         Exit(t) \/ CreateFails(t) \/ \E u \in Threads : Detach(t, u)
  PROVE  LifeInv'
<1>1. /\ pc[t] \in {"routine", "garbage", "ESRCH"} /\ alive[t] = "runs"
      /\ \/ ReturnTo(t, "routine") /\ UNCHANGED saved
         \/ Goto(t, "exit") /\ saved' = [saved EXCEPT ![t] = TRUE]
      /\ UNCHANGED <<lists, state, kernel, creator, attr, frame>>
      /\ \/ UNCHANGED <<detached, known>>
         \/ \E u \in Threads : /\ detached' = [detached EXCEPT ![u] = TRUE]
                               /\ known' = [known EXCEPT ![u] = FALSE]
  BY DEF Exit, CreateFails, Detach, Return, Idle, Runs, record, creation
<1> USE DEF LifeInv, ReturnTo, Goto
<1>2. Typed'
  BY <1>1 DEF Typed, Places, lists, kernel
<1>3. Stages'
  BY <1>1 DEF Typed, Stages, Early, kernel
<1>4. FoundPast'
  <2>1. \E l \in {"routine", "exit"} : Moves(t, l)
    BY <1>1 DEF Moves, Typed, Early, Walking, Joining
  <2> QED
    BY <2>1, MovesKeep
<1>5. WaitsForIt'
  <2>1. \A x \in Threads : pc'[x] = "joinwait" => x # t /\ pc[x] = "joinwait"
    BY <1>1 DEF Typed
  <2>2. \A x \in Threads : x # t => arg'[x] = arg[x] /\ walk'[x] = walk[x]
    BY <1>1 DEF Typed
  <2>3. \A x \in Threads : saved[x] => saved'[x]
    BY <1>1 DEF Typed
  <2>4. \A x \in Threads : pc[x] = "joinwait" => arg[x] \in Threads
    BY DEF FoundPast, PastLink, Joining
  <2> QED
    BY <2>1, <2>2, <2>3, <2>4 DEF WaitsForIt
<1>6. Numbers'
  BY <1>1 DEF Numbers, kernel
<1> QED
  BY <1>2, <1>3, <1>4, <1>5, <1>6

LEMMA LifeInvStep ==
  ASSUME IsFiniteSet(Threads), LifeInv, [LifeNext]_lifeVars
  PROVE  LifeInv'
<1>1. ASSUME NEW t \in Threads, LifeStep(t) PROVE LifeInv'
  BY <1>1, TypedStep, StagesStep, FoundPastStep, WaitsForItStep, NumbersStep DEF LifeInv
<1>2. ASSUME NEW t \in Threads, LifeCall(t) PROVE LifeInv'
  <2>1. "joinwalk" \in Walking /\ "suspendwalk" \in Walking /\ "resumewalk" \in Walking
    BY DEF Walking
  <2> QED
    BY <1>2, <2>1, CreateKeeps, LookUpKeeps, OtherCallKeeps DEF LifeCall, Join
<1>3. ASSUME NEW t \in Threads, Exit(t) PROVE LifeInv'
  BY <1>3, OtherCallKeeps
<1>4. CASE UNCHANGED lifeVars
  <2>1. /\ UNCHANGED <<link, dead, nxt, state, detached, saved, alive, frozen, tid>>
        /\ UNCHANGED <<creator, attr, frame, known, pc, arg, walk>>
    BY <1>4 DEF lifeVars, lists, record, kernel, creation
  <2> QED
    BY <2>1 DEF LifeInv, Typed, Stages, FoundPast, PastLink, WaitsForIt, Numbers
<1> QED
  BY <1>1, <1>2, <1>3, <1>4 DEF LifeNext

LEMMA LifeInvAlways == IsFiniteSet(Threads) /\ LifeSpec => []LifeInv
<1> SUFFICES ASSUME IsFiniteSet(Threads) PROVE LifeSpec => []LifeInv
  OBVIOUS
<1> QED
  BY TypedInit, LifeInvStep, PTL DEF LifeSpec

\* Every field and every thread's place stay well typed; in particular the
\* kernel always finds a free number for a new thread.
THEOREM LifeTypeCorrect == IsFiniteSet(Threads) /\ LifeSpec => []LifeTypeOK
<1>1. LifeInv => LifeTypeOK
  BY DEF LifeInv, Typed, Numbers, LifeTypeOK
<1> QED
  BY LifeInvAlways, <1>1, PTL

LEMMA OnlyJoinsGiveGarbage ==
  ASSUME LifeInv, [LifeNext]_lifeVars, NEW t \in Threads,
         pc'[t] = "garbage", pc[t] # "garbage"
  PROVE  JoinCheck(t) \/ JoinWake(t)
<1>1. ~UNCHANGED lifeVars
  BY DEF lifeVars
<1>2. ASSUME NEW x \in Threads, LifeCall(x) \/ Exit(x) PROVE FALSE
  BY <1>2 DEF LifeCall, Exit, Create, CreateFails, Join, LookUp, Detach, Goto, Return,
              ReturnTo, LifeInv, Typed
<1>3. ASSUME NEW x \in Threads, LifeStep(x), ~JoinCheck(x), ~JoinWake(x) PROVE FALSE
  <2>1. CASE Walk(x)
    BY <2>1, WalkDoes DEF ReturnTo, LifeInv, Typed
  <2>2. CASE \/ CreateReturns(x) \/ NewRecord(x) \/ NewPost(x) \/ NewAttr(x) \/ NewLink(x)
             \/ NewStart(x) \/ NewFreeze(x) \/ NewThaw(x)
    BY <2>2 DEF CreateReturns, NewRecord, NewPost, NewAttr, NewLink, NewStart, NewFreeze,
                NewThaw, Lost, Goto, Return, ReturnTo, LifeInv, Typed
  <2>3. CASE \/ ExitUnlink(x) \/ ExitDie(x) \/ ExitEnd(x) \/ JoinTid(x) \/ Suspend(x)
             \/ SuspendFreeze(x) \/ SuspendMark(x) \/ Resume(x) \/ ResumeThaw(x)
    BY <2>3 DEF ExitUnlink, ExitDie, ExitEnd, JoinTid, Suspend, SuspendFreeze, SuspendMark,
                Resume, ResumeThaw, Goto, Return, ReturnTo, LifeInv, Typed
  <2> QED
    BY <1>3, <2>1, <2>2, <2>3 DEF LifeStep
<1>4. ASSUME NEW x \in Threads, JoinCheck(x) \/ JoinWake(x) PROVE x = t
  BY <1>4 DEF JoinCheck, JoinWake, Goto, ReturnTo, LifeInv, Typed
<1> QED
  BY <1>1, <1>2, <1>3, <1>4 DEF LifeNext

\* A join returns 0 by one of two ways: it finds the record dead, which a
\* thread past its creation is only with its result set; or the thread it
\* waited for has ended, and where that was another one, with the number of
\* the one it is about, this one had exited already.
THEOREM JoinAlwaysGivesResult == IsFiniteSet(Threads) /\ LifeSpec => JoinGivesResult
<1>1. ASSUME LifeInv, [LifeNext]_lifeVars, NEW t \in Threads,
             pc'[t] = "garbage", pc[t] # "garbage"
      PROVE  pc[arg[t]] = "state"
  <2>1. JoinCheck(t) \/ JoinWake(t)
    BY <1>1, OnlyJoinsGiveGarbage
  <2>2. arg[t] \in Threads /\ pc[arg[t]] \notin Early /\ ~saved[arg[t]]
    <3>1. pc[t] \in Joining
      BY <2>1 DEF JoinCheck, JoinWake, At, Joining
    <3>2. ~saved[arg[t]]
      BY <1>1, <2>1 DEF JoinCheck, JoinWake, Joined, ReturnTo, Goto, LifeInv, Typed
    <3> QED
      BY <1>1, <3>1, <3>2 DEF LifeInv, FoundPast, PastLink
  <2>3. CASE JoinCheck(t)
    <3>1. state[arg[t]] = "PS_DEAD"
      BY <1>1, <2>3 DEF JoinCheck, ReturnTo, Goto, LifeInv, Typed
    <3> QED
      BY <1>1, <2>2, <3>1 DEF LifeInv, Stages
  <2>4. CASE JoinWake(t)
    <3>1. pc[t] = "joinwait" /\ walk[t] # NoThread => alive[walk[t]] = "ended"
      BY <2>4 DEF JoinWake
    <3>2. walk[t] = arg[t]
      BY <1>1, <2>2, <2>4 DEF JoinWake, At, LifeInv, WaitsForIt
    <3>3. alive[arg[t]] = "ended"
      BY <2>2, <2>4, <3>2, ThreadAssumption DEF JoinWake
    <3> QED
      BY <1>1, <2>2, <3>3 DEF LifeInv, Stages, Early
  <2> QED
    BY <2>1, <2>3, <2>4
<1>2. LifeInv /\ [LifeNext]_lifeVars =>
        [\A t \in Threads :
           pc'[t] = "garbage" /\ pc[t] # "garbage" => pc[arg[t]] = "state"]_lifeVars
  BY <1>1
<1> QED
  BY LifeInvAlways, <1>2, PTL DEF LifeSpec, JoinGivesResult

-----------------------------------------------------------------------------
(***************************************************************************)
(* The two lists.                                                          *)
(***************************************************************************)
\* What Chain collects from the head of a list are the elements of it.
LEMMA ChainOfList ==
  ASSUME IsFiniteSet(Threads), NEW h, NEW s, IsList(nxt, h, s)
  PROVE  Chain(h) = Elems(s)
<1> DEFINE N == Cardinality(Threads)
           Onward(S) == S \cup ({nxt[x] : x \in S} \ {NoThread})
           reach[n \in 0..N] == IF n = 0 THEN {h} \ {NoThread} ELSE Onward(reach[n-1])
           Upto(n) == {s[i] : i \in {j \in 1..Len(s) : j <= n+1}}
           r == [n \in 0..N |-> Upto(n)]
<1>1. /\ Len(s) \in Nat /\ N \in Nat /\ Len(s) <= N
      /\ s \in Seq(Threads) /\ \A i \in 1..Len(s) : s[i] # NoThread
  BY ListBound, ThreadAssumption DEF IsList
<1>2. Upto(0) = {h} \ {NoThread}
  <2>1. CASE Len(s) = 0
    BY <1>1, <2>1 DEF IsList
  <2>2. CASE Len(s) # 0
    <3>1. {j \in 1..Len(s) : j <= 0+1} = {1}
      BY <1>1, <2>2
    <3>2. h = s[1] /\ h # NoThread
      <4>1. 1 \in 1..Len(s)
        BY <1>1, <2>2
      <4> QED
        BY <1>1, <2>2, <4>1 DEF IsList
    <3> QED
      BY <3>1, <3>2
  <2> QED
    BY <2>1, <2>2
<1>3. ASSUME NEW n \in Nat \ {0} PROVE Upto(n) = Onward(Upto(n-1))
  <2>1. n-1 \in Nat /\ (n-1)+1 = n
    OBVIOUS
  <2>2. ASSUME NEW x \in Upto(n) PROVE x \in Onward(Upto(n-1))
    <3>1. PICK i \in 1..Len(s) : i <= n+1 /\ x = s[i]
      BY <2>2
    <3>2. CASE i <= n
      BY <2>1, <3>1, <3>2
    <3>3. CASE ~(i <= n)
      <4>1. i-1 \in 1..Len(s) /\ i-1 <= (n-1)+1 /\ i-1 # Len(s) /\ (i-1)+1 = i
        BY <1>1, <3>1, <3>3
      <4>2. nxt[s[i-1]] = x
        BY <3>1, <4>1 DEF IsList
      <4>3. s[i-1] \in Upto(n-1)
        BY <4>1
      <4>4. x # NoThread
        BY <1>1, <3>1
      <4> HIDE DEF Upto
      <4> QED
        BY <4>2, <4>3, <4>4
    <3> QED
      BY <3>2, <3>3
  <2>3. ASSUME NEW x \in Onward(Upto(n-1)) PROVE x \in Upto(n)
    <3>1. CASE x \in Upto(n-1)
      <4>1. PICK i \in 1..Len(s) : i <= (n-1)+1 /\ x = s[i]
        BY <3>1
      <4>2. i <= n+1
        BY <4>1, <2>1
      <4> QED
        BY <4>1, <4>2
    <3>2. CASE x \notin Upto(n-1)
      <4>1. PICK y \in Upto(n-1) : x = nxt[y] /\ x # NoThread
        BY <2>3, <3>2
      <4>2. PICK i \in 1..Len(s) : i <= (n-1)+1 /\ y = s[i]
        OBVIOUS
      <4>3. i # Len(s) /\ x = s[i+1]
        BY <4>1, <4>2 DEF IsList
      <4>4. i+1 \in 1..Len(s) /\ i+1 <= n+1
        BY <1>1, <4>2, <4>3
      <4> QED
        BY <4>3, <4>4
    <3> QED
      BY <3>1, <3>2
  <2> QED
    BY <2>2, <2>3
<1> HIDE DEF Onward, Upto
<1>4. r = [n \in 0..N |-> IF n = 0 THEN {h} \ {NoThread} ELSE Onward(r[n-1])]
  <2>1. \A n \in 0..N : n # 0 => n-1 \in 0..N /\ n \in Nat \ {0}
    BY <1>1
  <2>2. \A n \in 0..N : r[n] = IF n = 0 THEN {h} \ {NoThread} ELSE Onward(r[n-1])
    BY <1>2, <1>3, <2>1
  <2> QED
    BY <2>2
<1>5. reach = [n \in 0..N |-> IF n = 0 THEN {h} \ {NoThread} ELSE Onward(reach[n-1])]
  <2> HIDE DEF r
  <2> QED
    BY <1>4
<1>6. Chain(h) = reach[N]
  BY DEF Chain, Onward
<1> HIDE DEF reach
<1> DEFINE S == {n \in 0..N : reach[n] = Upto(n)}
<1>7. 0 \in S
  BY <1>1, <1>2, <1>5
<1>8. \A n \in 0..(N-1) : n \in S => n+1 \in S
  <2> SUFFICES ASSUME NEW n \in 0..(N-1), reach[n] = Upto(n)
               PROVE  reach[n+1] = Upto(n+1) /\ n+1 \in 0..N
    OBVIOUS
  <2>1. n+1 \in 0..N /\ n+1 # 0 /\ (n+1)-1 = n /\ n+1 \in Nat \ {0}
    BY <1>1
  <2>2. reach[n+1] = Onward(reach[n])
    BY <1>5, <2>1
  <2>3. Upto(n+1) = Onward(Upto(n))
    BY <1>3, <2>1
  <2> QED
    BY <2>1, <2>2, <2>3
<1>9. N \in S
  <2> HIDE DEF S
  <2>1. 0..N \subseteq S
    BY <1>1, <1>7, <1>8, UpTo
  <2>2. N \in 0..N
    BY <1>1
  <2> QED
    BY <2>1, <2>2
<1>10. Upto(N) = Elems(s)
  <2>1. {j \in 1..Len(s) : j <= N+1} = 1..Len(s)
    BY <1>1
  <2> QED
    BY <2>1 DEF Upto, Elems
<1> QED
  BY <1>6, <1>9, <1>10

\* The lists as sequences.
AsLists(s, d) ==
  /\ IsList(nxt, link, s) /\ Elems(s) = Linked
  /\ IsList(nxt, dead, d) /\ Elems(d) = Exited

Lists == \E s, d : AsLists(s, d)

LEMMA ListsHold == ASSUME IsFiniteSet(Threads), Lists PROVE OnOneList
<1>1. PICK s, d : AsLists(s, d)
  BY DEF Lists
<1>2. Chain(link) = Linked /\ Chain(dead) = Exited
  BY <1>1, ChainOfList DEF AsLists
<1>3. ASSUME NEW h \in {link, dead}, h # NoThread PROVE \E x \in Chain(h) : nxt[x] = NoThread
  <2>1. PICK r : IsList(nxt, h, r)
    BY <1>1, <1>3 DEF AsLists
  <2>2. Len(r) \in 1..Len(r)
    BY <1>3, <2>1 DEF IsList
  <2>3. r[Len(r)] \in Elems(r) /\ nxt[r[Len(r)]] = NoThread
    BY <2>1, <2>2 DEF Elems, IsList
  <2> QED
    BY <2>1, <2>3, ChainOfList
<1> QED
  BY <1>2, <1>3 DEF OnOneList

LEMMA ListsInit == LifeInit => Lists
<1> SUFFICES ASSUME LifeInit PROVE AsLists(<<Main>>, <<>>)
  BY DEF Lists
<1>1. Linked = {Main} /\ Exited = {}
  BY MainAssumption DEF LifeInit, Linked, Exited
<1>2. IsList(nxt, NoThread, <<>>) /\ Elems(<<>>) = {}
  BY EmptyList
<1>3. nxt[Main] = NoThread /\ link = Main /\ dead = NoThread
  BY MainAssumption DEF LifeInit, Nobody
<1>4. IsList(nxt, Main, <<Main>>) /\ Elems(<<Main>>) = {Main}
  BY <1>3, MainAssumption, OneElement
<1> QED
  BY <1>1, <1>2, <1>3, <1>4 DEF AsLists

\* Whether x is on a list, and on which, stays as it was.
Stays(x) == (x \in Linked' <=> x \in Linked) /\ (x \in Exited' <=> x \in Exited)

LEMMA StaysInStep ==
  ASSUME Typed, NEW t \in Threads, NEW x \in Threads,
         LifeStep(t), ~NewLink(t), ~ExitUnlink(t)
  PROVE  Stays(x) /\ UNCHANGED lists
<1> USE DEF Stays, Linked, Exited, At, Runs, Goto, Return, ReturnTo, Typed, kernel
<1>1. CASE Walk(t)
  BY <1>1, WalkDoes DEF Walking
<1>2. CASE \/ CreateReturns(t) \/ NewRecord(t) \/ NewPost(t) \/ NewAttr(t)
           \/ NewStart(t) \/ NewFreeze(t) \/ NewThaw(t)
  BY <1>2 DEF CreateReturns, NewRecord, NewPost, NewAttr, NewStart, NewFreeze,
              NewThaw, Lost
<1>3. CASE \/ ExitDie(t) \/ ExitEnd(t) \/ Suspend(t)
           \/ SuspendFreeze(t) \/ SuspendMark(t) \/ Resume(t) \/ ResumeThaw(t)
  BY <1>3 DEF ExitDie, ExitEnd, Suspend, SuspendFreeze, SuspendMark, Resume, ResumeThaw
<1>4. CASE JoinCheck(t) \/ JoinTid(t) \/ JoinWake(t)
  BY <1>4 DEF JoinCheck, JoinTid, JoinWake, Joined
<1> QED
  BY <1>1, <1>2, <1>3, <1>4 DEF LifeStep

LEMMA StaysInCall ==
  ASSUME Typed, Stages, NEW t \in Threads, NEW x \in Threads, LifeCall(t) \/ Exit(t)
  PROVE  Stays(x) /\ UNCHANGED lists
<1> USE DEF Stays, Linked, Exited, Idle, Runs, Goto, Return, ReturnTo, Typed, kernel
<1>1. ASSUME NEW u \in Threads, Create(t, u) PROVE Stays(x) /\ UNCHANGED lists
  BY <1>1 DEF Create, Stages
<1>2. CASE CreateFails(t) \/ Exit(t)
  BY <1>2 DEF CreateFails, Exit
<1>3. ASSUME NEW u \in Threads, NEW l \in Walking, LookUp(t, u, l) PROVE Stays(x) /\ UNCHANGED lists
  BY <1>3 DEF LookUp, Walking
<1>4. ASSUME NEW u \in Threads, Detach(t, u) PROVE Stays(x) /\ UNCHANGED lists
  BY <1>4 DEF Detach
<1>5. "joinwalk" \in Walking /\ "suspendwalk" \in Walking /\ "resumewalk" \in Walking
  BY DEF Walking
<1> QED
  BY <1>1, <1>2, <1>3, <1>4, <1>5 DEF LifeCall, Join

LEMMA ListsStay ==
  ASSUME Lists, UNCHANGED lists, \A x \in Threads : Stays(x)
  PROVE  Lists'
<1>1. Linked' = Linked /\ Exited' = Exited
  BY DEF Stays, Linked, Exited
<1>2. nxt' = nxt /\ link' = link /\ dead' = dead
  BY DEF lists
<1> QED
  BY <1>1, <1>2 DEF Lists, AsLists

\* A new thread is put at the head of the list of live ones.
LEMMA ListsLink ==
  ASSUME Typed, Lists, NEW t \in Threads, NewLink(t)
  PROVE  Lists'
<1>1. PICK s, d : AsLists(s, d)
  BY DEF Lists
<1>2. /\ pc[t] = "link" /\ alive[t] = "runs" /\ alive' = alive
      /\ pc' = [pc EXCEPT ![t] = "state"]
      /\ nxt' = [nxt EXCEPT ![t] = link] /\ link' = t /\ dead' = dead
  BY DEF NewLink, At, Runs, Goto, kernel
<1>3. /\ Linked' = Linked \cup {t} /\ t \notin Linked
      /\ Exited' = Exited /\ t \notin Exited
  BY <1>2 DEF Linked, Exited, Typed
<1>4. Linked \subseteq Threads /\ Exited \subseteq Threads
  BY DEF Linked, Exited
<1>5. nxt'[t] = link /\ \A x \in Threads \ {t} : nxt'[x] = nxt[x]
  BY <1>2 DEF Typed
<1>6. IsList(nxt', t, <<t>> \o s) /\ Elems(<<t>> \o s) = Linked'
  <2>1. IsList(nxt, link, s) /\ t \notin Elems(s) /\ \A x \in Elems(s) : nxt'[x] = nxt[x]
    BY <1>1, <1>3, <1>4, <1>5 DEF AsLists
  <2>2. Elems(s) \cup {t} = Linked'
    BY <1>1, <1>3 DEF AsLists
  <2>3. nxt'[t] = link
    BY <1>5
  <2>4. IsList(nxt', t, <<t>> \o s) /\ Elems(<<t>> \o s) = Elems(s) \cup {t}
    BY <2>1, <2>3, PushList
  <2> QED
    BY <2>2, <2>4
<1>7. IsList(nxt', dead, d)
  <2>1. IsList(nxt, dead, d) /\ \A x \in Elems(d) : nxt'[x] = nxt[x]
    BY <1>1, <1>3, <1>4, <1>5 DEF AsLists
  <2> QED
    BY <2>1, SameList
<1>8. AsLists(<<t>> \o s, d)'
  BY <1>1, <1>2, <1>3, <1>6, <1>7 DEF AsLists
<1> QED
  BY <1>8 DEF Lists

\* An exiting one leaves it, and goes to the head of the other.
LEMMA ListsUnlink ==
  ASSUME IsFiniteSet(Threads), Typed, Lists, NEW t \in Threads, ExitUnlink(t)
  PROVE  Lists'
<1>1. PICK s, d : AsLists(s, d)
  BY DEF Lists
<1>2. /\ pc[t] = "exit" /\ alive[t] = "runs" /\ alive' = alive
      /\ pc' = [pc EXCEPT ![t] = "die"]
      /\ link' = (IF link = t THEN nxt[t] ELSE link) /\ dead' = t
  BY DEF ExitUnlink, At, Runs, Goto, kernel
<1>3. /\ Linked' = Linked \ {t} /\ t \in Linked
      /\ Exited' = Exited \cup {t} /\ t \notin Exited
      /\ Linked \subseteq Threads /\ Exited \subseteq Threads /\ Linked \cap Exited = {}
  BY <1>2 DEF Linked, Exited, Typed
<1>4. PICK k \in 1..Len(s) : s[k] = t
  BY <1>1, <1>3 DEF AsLists, Elems
<1>5. Chain(link) = Elems(s)
  BY <1>1, ChainOfList DEF AsLists
<1>6. /\ nxt'[t] = dead
      /\ \A x \in Elems(s) \ {t} : nxt'[x] = IF nxt[x] = t THEN nxt[t] ELSE nxt[x]
      /\ \A x \in Elems(d) : nxt'[x] = nxt[x]
  <2>1. /\ Elems(d) \cap Elems(s) = {} /\ t \notin Elems(d)
        /\ Elems(d) \subseteq Threads /\ Elems(s) \subseteq Threads
    BY <1>1, <1>3 DEF AsLists
  <2>2. CASE link = t
    <3>1. nxt' = [nxt EXCEPT ![t] = dead]
      BY <2>2 DEF ExitUnlink
    <3>2. \A x \in Elems(s) : nxt[x] # t
      BY <1>1, <2>2, HeadIsNobodysNext DEF AsLists
    <3> QED
      BY <2>1, <3>1, <3>2 DEF Typed
  <2>3. CASE link # t
    <3>1. nxt' = [[p \in Threads |-> IF p \in Elems(s) /\ nxt[p] = t THEN nxt[t] ELSE nxt[p]]
                    EXCEPT ![t] = dead]
      BY <1>5, <2>3 DEF ExitUnlink
    <3> QED
      BY <2>1, <3>1
  <2> QED
    BY <2>2, <2>3
<1>7. IsList(nxt', link', Without(s, k)) /\ Elems(Without(s, k)) = Linked'
  <2>1. /\ IsList(nxt', IF link = s[k] THEN nxt[s[k]] ELSE link, Without(s, k))
        /\ Elems(Without(s, k)) = Elems(s) \ {s[k]}
    <3>1. \A x \in Elems(s) \ {s[k]} : nxt'[x] = IF nxt[x] = s[k] THEN nxt[s[k]] ELSE nxt[x]
      BY <1>4, <1>6
    <3>2. IsList(nxt, link, s)
      BY <1>1 DEF AsLists
    <3> QED
      BY <3>1, <3>2, RemoveList
  <2> QED
    BY <1>1, <1>2, <1>3, <1>4, <2>1 DEF AsLists
<1>8. IsList(nxt', t, <<t>> \o d) /\ Elems(<<t>> \o d) = Exited'
  <2>1. IsList(nxt, dead, d) /\ t \notin Elems(d)
    BY <1>1, <1>3 DEF AsLists
  <2>2. Elems(d) \cup {t} = Exited'
    BY <1>1, <1>3 DEF AsLists
  <2>3. IsList(nxt', t, <<t>> \o d) /\ Elems(<<t>> \o d) = Elems(d) \cup {t}
    BY <1>6, <2>1, PushList
  <2> QED
    BY <2>2, <2>3
<1>9. AsLists(Without(s, k), <<t>> \o d)'
  BY <1>2, <1>7, <1>8 DEF AsLists
<1> QED
  BY <1>9 DEF Lists

\* Creations and exits in any mixture, with joins and the others walking
\* meanwhile: each record is on the list it belongs to, and the lists end.
THEOREM OnOneListAlways == IsFiniteSet(Threads) /\ LifeSpec => []OnOneList
<1> SUFFICES ASSUME IsFiniteSet(Threads) PROVE LifeSpec => []OnOneList
  OBVIOUS
<1>1. LifeInv /\ Lists /\ [LifeNext]_lifeVars => Lists'
  <2> SUFFICES ASSUME LifeInv, Lists, [LifeNext]_lifeVars PROVE Lists'
    OBVIOUS
  <2>1. CASE UNCHANGED lifeVars
    BY <2>1 DEF Lists, AsLists, Linked, Exited, lifeVars, lists, kernel
  <2>2. ASSUME NEW t \in Threads, LifeStep(t) PROVE Lists'
    <3>1. CASE NewLink(t)
      BY <3>1, ListsLink DEF LifeInv
    <3>2. CASE ExitUnlink(t)
      BY <3>2, ListsUnlink DEF LifeInv
    <3>3. CASE ~NewLink(t) /\ ~ExitUnlink(t)
      BY <2>2, <3>3, StaysInStep, ListsStay DEF LifeInv
    <3> QED
      BY <3>1, <3>2, <3>3
  <2>3. ASSUME NEW t \in Threads, LifeCall(t) \/ Exit(t) PROVE Lists'
    BY <2>3, StaysInCall, ListsStay DEF LifeInv
  <2> QED
    BY <2>1, <2>2, <2>3 DEF LifeNext
<1>2. Lists => OnOneList
  BY ListsHold
<1> QED
  BY LifeInvAlways, ListsInit, <1>1, <1>2, PTL DEF LifeSpec
=============================================================================
