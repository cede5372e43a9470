------------------------------ MODULE CondProofs ------------------------------
(***************************************************************************)
(* Proofs about a condition variable and its mutex (Cond), in any use, and *)
(* about the use it is made for (Gate): for every set of threads.          *)
(***************************************************************************)
EXTENDS Gate, MutexProofs, FiniteSetTheorems

(***************************************************************************)
(* The mutex of a condition variable is FAST, and nobody tries or destroys *)
(* it.  What is known of such a mutex is the invariant of MutexProofs.     *)
(***************************************************************************)
FastLocations == {"idle", "lock", "blocked", "got", "unlocking"}

FastInv ==
  /\ RecordInv
  /\ m_type = FAST
  /\ pc \in [Threads -> FastLocations]

\* A call that is under way takes its next step.
Advance(t) == LockRequest(t) \/ LockGrant(t) \/ LockDone(t) \/ UnlockRelease(t)

LEMMA FastHold ==
  ASSUME FastInv
  PROVE  /\ hold \in [Threads -> {0, 1}]
         /\ \A t \in Threads : pc[t] # "idle" => hold[t] = 0
         /\ MutualExclusion
<1> USE DEF FastInv, RecordInv, SemInv, IInv, TypeOK, RecordExact, RecordMatchesHolds, Live, FAST, COUNTING
<1>1. \A t \in Threads : hold[t] = IF m_owner = t THEN m_count + 1 ELSE 0
  OBVIOUS
<1>2. m_count = 0
  BY DEF OwnershipInv, OneCounter
<1>3. \A t \in Threads : pc[t] # "idle" => m_owner # t
  BY DEF FastLocations, Asking, Inside
<1>4. MutualExclusion
  BY DEF OwnershipInv, EvidenceOfOwning, MutualExclusion
<1> QED
  BY <1>1, <1>2, <1>3, <1>4

LEMMA FastStep ==
  ASSUME FastInv, NEW t \in Threads, LockEnter(t) \/ UnlockEnter(t) \/ Advance(t)
  PROVE  FastInv'
<1> USE DEF FastInv
<1>1. Call(t) \/ Step(t)
  BY DEF Call, Step, Advance
<1>2. IInv'
  BY <1>1, TypeStep, OwnershipStep DEF RecordInv, SemInv, IInv, Next
<1>3. RecordInv'
  BY <1>1, <1>2, SemStep, RecordStep DEF RecordInv, SemInv
<1>4. m_type' = FAST
  BY DEF Advance, LockEnter, UnlockEnter, LockRequest, LockGrant, LockDone, UnlockRelease
<1>5. pc' \in [Threads -> FastLocations]
  BY DEF Advance, LockEnter, UnlockEnter, UnlockRefused, UnlockAccepted, LockRequest, LockGrant,
         LockDone, UnlockRelease, Goto, Return, ReturnHolding, Take, FastLocations, FAST, COUNTING
<1> QED
  BY <1>3, <1>4, <1>5

\* All that the three kinds of step do to the threads.
Others(t) ==
  \A u \in Threads \ {t} : pc'[u] = pc[u] /\ hold'[u] = hold[u] /\ ret'[u] = ret[u]

LEMMA LockDoes ==
  ASSUME FastInv, NEW t \in Threads, LockEnter(t)
  PROVE  /\ Others(t) /\ pc[t] = "idle" /\ hold' = hold
         /\ \/ hold[t] = 0 /\ pc'[t] = "lock"
            \/ hold[t] = 1 /\ pc'[t] = "idle" /\ ret'[t] = "EDEADLK"
<1> USE DEF FastInv, RecordInv, SemInv, IInv, TypeOK, RecordExact, RecordMatchesHolds, Live, FAST, COUNTING
<1>1. hold[t] = IF m_owner = t THEN m_count + 1 ELSE 0
  OBVIOUS
<1>2. m_count = 0
  BY DEF OwnershipInv, OneCounter
<1> QED
  BY <1>1, <1>2 DEF LockEnter, Others, Goto, Return

LEMMA UnlockDoes ==
  ASSUME FastInv, NEW t \in Threads, UnlockEnter(t)
  PROVE  /\ Others(t) /\ pc[t] = "idle"
         /\ \/ hold[t] = 1 /\ hold'[t] = 0 /\ pc'[t] = "unlocking"
            \/ hold[t] = 0 /\ hold'[t] = 0 /\ pc'[t] = "idle" /\ ret'[t] # "ok"
<1> USE DEF FastInv, RecordInv, SemInv, IInv, TypeOK, RecordExact, RecordMatchesHolds, Live, FAST, COUNTING
<1>1. hold[t] = IF m_owner = t THEN m_count + 1 ELSE 0
  OBVIOUS
<1>2. m_count = 0
  BY DEF OwnershipInv, OneCounter
<1>3. t # NoThread
  BY ThreadAssumption
<1> QED
  BY <1>1, <1>2, <1>3 DEF UnlockEnter, UnlockRefused, UnlockAccepted, Others, Goto, Return

LEMMA AdvanceDoes ==
  ASSUME FastInv, NEW t \in Threads, Advance(t)
  PROVE  /\ Others(t) /\ hold[t] = 0
         /\ \/ pc[t] \in {"lock", "blocked"} /\ pc'[t] \in {"blocked", "got"} /\ hold'[t] = 0
            \/ pc[t] = "got" /\ pc'[t] = "idle" /\ hold'[t] = 1 /\ ret'[t] = "ok"
            \/ pc[t] = "unlocking" /\ pc'[t] = "idle" /\ hold'[t] = 0
<1>1. hold \in [Threads -> {0, 1}] /\ (pc[t] # "idle" => hold[t] = 0)
  BY FastHold
<1> USE <1>1 DEF FastInv, RecordInv, SemInv, IInv, TypeOK, Others, Goto, Return, ReturnHolding, Take
<1>2. CASE LockRequest(t)
  BY <1>2 DEF LockRequest, FAST
<1>3. CASE LockGrant(t)
  BY <1>3 DEF LockGrant
<1>4. CASE LockDone(t)
  BY <1>4 DEF LockDone
<1>5. CASE UnlockRelease(t)
  BY <1>5 DEF UnlockRelease
<1> QED
  BY <1>2, <1>3, <1>4, <1>5 DEF Advance

-----------------------------------------------------------------------------
(***************************************************************************)
(* A step of the library, whatever the application calls.                  *)
(***************************************************************************)
MutexCall(t) ==
  /\ cpc[t] = "none"
  /\ LockEnter(t) \/ UnlockEnter(t)
  /\ cret' \in {cret, [cret EXCEPT ![t] = "none"]}
  /\ UNCHANGED <<cond, posts, c_onwait, cpc, local, owed>>

LibraryStep(t) ==
  \/ MutexCall(t) \/ InitCond(t) \/ WaitEnter(t) \/ Signal(t) \/ BroadcastEnter(t)
  \/ DestroyCond(t) \/ CondStep(t) \/ WaitTimeout(t)

\* Where a thread is in its wait, and in the call on the mutex it makes there.
\* What a wait that took the mutex back reports is what it has.
Place(t) ==
  /\ cpc[t] \in {"asleep", "woken", "leave", "dec", "inc", "unlock", "post", "destroy"} => pc[t] = "idle"
  /\ cpc[t] = "unlocked" => pc[t] \in {"idle", "unlocking"}
  /\ cpc[t] = "relock" => pc[t] \in {"lock", "blocked", "got", "idle"}
  /\ cpc[t] = "relock" /\ pc[t] = "idle" /\ ret[t] = "ok" => hold[t] = 1
  /\ cpc[t] = "leave" => cret[t] # "ok"
  /\ cpc[t] = "dec" /\ cret[t] = "ok" => hold[t] = 1

WaitPlace == \A t \in Threads : Place(t)

\* The variables of the condition variable stay well typed.
CondOnlyType ==
  /\ cond \in {"null", "live", "closing"}
  /\ posts \in 0..MaxPosts
  /\ c_onwait \in Int
  /\ cpc \in [Threads -> CondLocations]
  /\ local \in [Threads -> Int]
  /\ cret \in [Threads -> Results \cup {"ETIME"}]
  /\ owed \subseteq Threads

CondInv == FastInv /\ CondOnlyType /\ WaitPlace

LEMMA LibraryMutex ==
  ASSUME NEW t \in Threads, LibraryStep(t)
  PROVE  UNCHANGED mutexVars \/ LockEnter(t) \/ UnlockEnter(t) \/ Advance(t)
BY DEF LibraryStep, MutexCall, InitCond, WaitEnter, Signal, BroadcastEnter, DestroyCond,
       WaitTimeout, CondStep, MutexStep, WaitCount, WaitUnlock, WaitSleep, WaitRelock,
       WaitUncount, WaitDone, BroadcastPost, BroadcastDone, DestroyPost, DestroyDone,
       Calling, Advance

LEMMA FastKept ==
  ASSUME FastInv, NEW t \in Threads, LibraryStep(t)
  PROVE  FastInv'
<1>1. CASE UNCHANGED mutexVars
  BY <1>1
  DEF mutexVars, FastInv, RecordInv, SemInv, IInv, TypeOK, OwnershipInv, EvidenceOfOwning,
      CountsCover, OneCounter, BusyIsSomeoneElse, Untouched, NothingLeft, AtRest, RecordExact,
      RecordMatchesHolds, NoSelfDeadlock
<1> QED
  BY <1>1, LibraryMutex, FastStep

LEMMA PostType ==
  ASSUME CondOnlyType, NEW t \in Threads, NEW l \in CondLocations, PostAndGoto(t, l)
  PROVE  posts' \in 0..MaxPosts /\ cpc' \in [Threads -> CondLocations] /\ owed' \subseteq Threads
BY PostsAssumption DEF CondOnlyType, PostAndGoto, Asleep, CondLocations

LEMMA CondOnlyKept ==
  ASSUME CondOnlyType, ret \in [Threads -> Results], NEW t \in Threads, LibraryStep(t)
  PROVE  CondOnlyType'
<1> USE DEF CondOnlyType, CGoto, CReturn, Fault
<1>1. CASE MutexCall(t)
  BY <1>1 DEF MutexCall, Results
<1>2. CASE InitCond(t)
  BY <1>2, PostsAssumption DEF InitCond, Results, CondLocations
<1>3. CASE WaitEnter(t)
  BY <1>3 DEF WaitEnter, Results, CondLocations
<1>4. CASE Signal(t)
  <2>1. /\ \/ PostAndGoto(t, "none") 
           \/ UNCHANGED <<posts, owed>> /\ cpc' = [cpc EXCEPT ![t] = "none"]
        /\ \E r \in {"ok", "EINVAL"} : cret' = [cret EXCEPT ![t] = r]
        /\ UNCHANGED <<cond, c_onwait, local>>
    BY <1>4 DEF Signal
  <2>2. posts' \in 0..MaxPosts /\ cpc' \in [Threads -> CondLocations] /\ owed' \subseteq Threads
    BY <2>1, PostType DEF CondLocations
  <2> QED
    BY <2>1, <2>2 DEF Results
<1>5. CASE BroadcastEnter(t)
  BY <1>5 DEF BroadcastEnter, Waiting, CondLocations
<1>6. CASE DestroyCond(t)
  BY <1>6 DEF DestroyCond, Results, CondLocations
<1>7. CASE WaitTimeout(t)
  BY <1>7 DEF WaitTimeout, Results, CondLocations
<1>8. CASE MutexStep(t)
  BY <1>8 DEF MutexStep, condOnly
<1>9. CASE WaitCount(t) \/ WaitUnlock(t) \/ WaitRelock(t) \/ WaitDone(t) \/ BroadcastDone(t)
  BY <1>9 DEF WaitCount, WaitUnlock, WaitRelock, WaitDone, BroadcastDone, Results, CondLocations
<1>10. CASE WaitSleep(t)
  BY <1>10, PostsAssumption DEF WaitSleep, Results, CondLocations
<1>11. CASE WaitUncount(t)
  BY <1>11 DEF WaitUncount, CondLocations
<1>12. CASE BroadcastPost(t)
  <2>1. CASE Fault(t)
    BY <2>1 DEF CondLocations
  <2>2. CASE ~Fault(t)
    <3>1. /\ \/ PostAndGoto(t, "post")
             \/ UNCHANGED <<posts, owed>> /\ cpc' = [cpc EXCEPT ![t] = "post"]
          /\ local' = [local EXCEPT ![t] = IF @ > 0 THEN @ - 1 ELSE @]
          /\ UNCHANGED <<cond, c_onwait, cret>>
      BY <1>12, <2>2 DEF BroadcastPost
    <3>2. posts' \in 0..MaxPosts /\ cpc' \in [Threads -> CondLocations] /\ owed' \subseteq Threads
      BY <3>1, PostType DEF CondLocations
    <3>3. local' \in [Threads -> Int]
      BY <3>1
    <3>4. UNCHANGED <<cond, c_onwait, cret>>
      BY <3>1
    <3> QED
      BY <3>2, <3>3, <3>4
  <2> QED
    BY <2>1, <2>2
<1>13. CASE DestroyPost(t)
  <2>1. PostAndGoto(t, "destroy") /\ UNCHANGED <<cond, c_onwait, local, cret>>
    BY <1>13 DEF DestroyPost
  <2>2. posts' \in 0..MaxPosts /\ cpc' \in [Threads -> CondLocations] /\ owed' \subseteq Threads
    BY <2>1, PostType DEF CondLocations
  <2> QED
    BY <2>1, <2>2
<1>14. CASE DestroyDone(t)
  BY <1>14, PostsAssumption DEF DestroyDone, Results, CondLocations
<1> QED
  BY <1>1, <1>2, <1>3, <1>4, <1>5, <1>6, <1>7, <1>8, <1>9, <1>10, <1>11, <1>12, <1>13, <1>14
  DEF LibraryStep, CondStep

\* What a step of t does to the calls of the others: it may wake one.
LEMMA OthersInCond ==
  ASSUME CondInv, NEW t \in Threads, LibraryStep(t), NEW u \in Threads \ {t}
  PROVE  /\ cpc'[u] = cpc[u] \/ (cpc[u] = "asleep" /\ cpc'[u] = "woken")
         /\ cret'[u] = cret[u]
         /\ pc'[u] = pc[u] /\ hold'[u] = hold[u] /\ ret'[u] = ret[u]
<1>1. pc'[u] = pc[u] /\ hold'[u] = hold[u] /\ ret'[u] = ret[u]
  <2>1. UNCHANGED mutexVars \/ Others(t)
    BY LibraryMutex, LockDoes, UnlockDoes, AdvanceDoes DEF CondInv
  <2> QED
    BY <2>1 DEF Others, mutexVars
<1>2. cret'[u] = cret[u]
  BY DEF CondInv, CondOnlyType, LibraryStep, MutexCall, InitCond, WaitEnter, Signal,
         BroadcastEnter, DestroyCond, WaitTimeout, CondStep, MutexStep, WaitCount, WaitUnlock,
         WaitSleep, WaitRelock, WaitUncount, WaitDone, BroadcastPost, BroadcastDone,
         DestroyPost, DestroyDone, CGoto, CReturn, Fault, condOnly
<1>3. cpc'[u] = cpc[u] \/ (cpc[u] = "asleep" /\ cpc'[u] = "woken")
  <2> USE DEF CondInv, CondOnlyType
  <2>1. ASSUME NEW l, PostAndGoto(t, l) PROVE cpc'[u] = cpc[u] \/ (cpc[u] = "asleep" /\ cpc'[u] = "woken")
    BY <2>1 DEF PostAndGoto, Asleep
  <2>2. CASE Signal(t)
    BY <2>1, <2>2 DEF Signal, CReturn
  <2>3. CASE BroadcastPost(t)
    BY <2>1, <2>3 DEF BroadcastPost, CGoto, Fault
  <2>4. CASE DestroyPost(t)
    BY <2>1, <2>4 DEF DestroyPost
  <2>5. CASE ~Signal(t) /\ ~BroadcastPost(t) /\ ~DestroyPost(t)
    BY <2>5 DEF LibraryStep, MutexCall, InitCond, WaitEnter,
         BroadcastEnter, DestroyCond, WaitTimeout, CondStep, MutexStep, WaitCount, WaitUnlock,
         WaitSleep, WaitRelock, WaitUncount, WaitDone, BroadcastDone,
         DestroyDone, CGoto, CReturn, Fault, condOnly
  <2> QED
    BY <2>2, <2>3, <2>4, <2>5
<1> QED
  BY <1>1, <1>2, <1>3

\* A post that t makes does not disturb t itself.
LEMMA PosterStays ==
  ASSUME CondOnlyType, NEW t \in Threads, cpc[t] # "asleep", NEW l, PostAndGoto(t, l)
  PROVE  cpc'[t] = l
BY DEF CondOnlyType, PostAndGoto, Asleep

LEMMA PlaceKept ==
  ASSUME CondInv, NEW t \in Threads, LibraryStep(t)
  PROVE  Place(t)'
<1>0. /\ Place(t) /\ pc \in [Threads -> FastLocations]
      /\ ret \in [Threads -> Results] /\ CondOnlyType
  BY DEF CondInv, WaitPlace, Place, FastInv, RecordInv, SemInv, IInv, TypeOK
<1> USE <1>0 DEF CondOnlyType, CGoto, CReturn, Fault, Calling, mutexVars
<1>1. CASE MutexCall(t)
  BY <1>1 DEF MutexCall, Place
<1>2. CASE InitCond(t)
  BY <1>2 DEF InitCond, Place
<1>3. CASE WaitEnter(t)
  BY <1>3 DEF WaitEnter, Place
<1>4. CASE Signal(t)
  BY <1>4, PosterStays DEF Signal, Place
<1>5. CASE BroadcastEnter(t)
  BY <1>5 DEF BroadcastEnter, Place
<1>6. CASE DestroyCond(t)
  BY <1>6 DEF DestroyCond, Place
<1>7. CASE WaitTimeout(t)
  BY <1>7 DEF WaitTimeout, Place
<1>8. CASE MutexStep(t)
  <2>1. Advance(t) /\ UNCHANGED condOnly
    BY <1>8 DEF MutexStep, Advance
  <2> QED
    BY <2>1, AdvanceDoes DEF CondInv, Place, condOnly
<1>9. CASE WaitCount(t) \/ WaitDone(t) \/ BroadcastDone(t) \/ WaitSleep(t) \/ DestroyDone(t)
  BY <1>9 DEF WaitCount, WaitDone, BroadcastDone, WaitSleep, DestroyDone, Place
<1>10. CASE WaitUnlock(t)
  <2>1. UnlockEnter(t) /\ cpc'[t] = "unlocked"
    BY <1>10 DEF WaitUnlock
  <2>2. pc'[t] \in {"idle", "unlocking"}
    BY <2>1, UnlockDoes DEF CondInv
  <2> QED
    BY <2>1, <2>2 DEF Place
<1>11. CASE WaitRelock(t)
  <2>1. LockEnter(t) /\ cpc'[t] = "relock"
    BY <1>11 DEF WaitRelock
  <2>2. pc'[t] = "lock" \/ (pc'[t] = "idle" /\ ret'[t] = "EDEADLK")
    BY <2>1, LockDoes DEF CondInv
  <2> QED
    BY <2>1, <2>2 DEF Place
<1>12. CASE WaitUncount(t)
  <2>1. CASE Fault(t)
    BY <1>12, <2>1 DEF Place
  <2>2. CASE ~Fault(t)
    <3>1. /\ cpc[t] \in {"relock", "leave"} /\ pc[t] = "idle" /\ UNCHANGED <<pc, ret, hold>>
          /\ cpc'[t] = "dec"
          /\ cret' = IF cpc[t] = "relock" THEN [cret EXCEPT ![t] = ret[t]] ELSE cret
      BY <1>12, <2>2 DEF WaitUncount
    <3>2. CASE cpc[t] = "relock"
      BY <3>1, <3>2 DEF Place
    <3>3. CASE cpc[t] = "leave"
      BY <3>1, <3>3 DEF Place
    <3> QED
      BY <3>1, <3>2, <3>3
  <2> QED
    BY <2>1, <2>2
<1>13. CASE BroadcastPost(t)
  BY <1>13, PosterStays DEF BroadcastPost, Place
<1>14. CASE DestroyPost(t)
  BY <1>14, PosterStays DEF DestroyPost, Place
<1> QED
  BY <1>1, <1>2, <1>3, <1>4, <1>5, <1>6, <1>7, <1>8, <1>9, <1>10, <1>11, <1>12, <1>13, <1>14
  DEF LibraryStep, CondStep

LEMMA LibraryInv ==
  ASSUME CondInv, NEW t \in Threads, LibraryStep(t)
  PROVE  CondInv'
<1>1. FastInv'
  BY FastKept DEF CondInv
<1>2. CondOnlyType'
  BY CondOnlyKept DEF CondInv, FastInv, RecordInv, SemInv, IInv, TypeOK
<1>3. ASSUME NEW u \in Threads PROVE Place(u)'
  <2>1. CASE u = t
    BY <2>1, PlaceKept
  <2>2. CASE u # t
    <3>1. Place(u)
      BY DEF CondInv, WaitPlace, Place
    <3> QED
      BY <2>2, <3>1, OthersInCond DEF Place
  <2> QED
    BY <2>1, <2>2
<1> QED
  BY <1>1, <1>2, <1>3 DEF CondInv, WaitPlace, Place

LEMMA CondInvStutter == CondInv /\ UNCHANGED condVars => CondInv'
BY DEF condVars, condOnly, mutexVars, CondInv, CondOnlyType, WaitPlace, Place, FastInv, RecordInv,
       SemInv, IInv, TypeOK, OwnershipInv, EvidenceOfOwning, CountsCover, OneCounter,
       BusyIsSomeoneElse, Untouched, NothingLeft, AtRest, RecordExact, RecordMatchesHolds,
       NoSelfDeadlock

LEMMA FastInitially ==
  ASSUME m_type = FAST, m_owner = NoThread, m_count = 0, sem = Free,
         pc = [t \in Threads |-> "idle"], ret = [t \in Threads |-> "none"],
         hold = [t \in Threads |-> 0]
  PROVE  FastInv
<1>1. IInv
  BY ThreadAssumption
  DEF IInv, TypeOK, HMTX, Free, Locations, Results, Live, OwnershipInv, EvidenceOfOwning,
      CountsCover, OneCounter, BusyIsSomeoneElse, Inside, CountingSteps
<1> QED
  BY <1>1, ThreadAssumption, FastAssumption
  DEF FastInv, FastLocations, RecordInv, SemInv, Untouched, NothingLeft, AtRest, RecordExact,
      RecordMatchesHolds, NoSelfDeadlock, Live, FAST, COUNTING, Free

LEMMA CondInitially == CondInit => CondInv
<1> SUFFICES ASSUME CondInit PROVE CondInv
  OBVIOUS
<1>1. FastInv
  BY FastInitially DEF CondInit
<1> QED
  BY <1>1, PostsAssumption DEF CondInit, CondInv, CondOnlyType, WaitPlace, Place, CondLocations, Results

LEMMA CondIsLibrary == CondNext => \E t \in Threads : LibraryStep(t)
BY DEF CondNext, CondCall, AppMutex, AppLock, AppUnlock, LibraryStep, MutexCall

LEMMA CondInvariance == CondSpec => []CondInv
<1>1. CondInv /\ [CondNext]_condVars => CondInv'
  BY CondIsLibrary, LibraryInv, CondInvStutter
<1> QED
  BY CondInitially, <1>1, PTL DEF CondSpec

-----------------------------------------------------------------------------
\* Whatever the application does with a condition variable, and whenever it
\* destroys it, its mutex stays with one thread at a time.
THEOREM CondMutualExclusion == CondSpec => []MutualExclusion
<1>1. CondInv => MutualExclusion
  BY FastHold DEF CondInv
<1> QED
  BY CondInvariance, <1>1, PTL

\* pthread_cond_wait and pthread_cond_timedwait return 0 with the mutex held.
THEOREM OkWaitAlwaysHolds == CondSpec => OkWaitHolds
<1>1. CondInv => \A t \in Threads : cpc[t] = "dec" /\ cret[t] = "ok" => hold[t] = 1
  BY DEF CondInv, WaitPlace, Place
<1>2. CondInv /\ [CondNext]_condVars =>
        [\A t \in Threads : cpc[t] = "dec" /\ cpc'[t] = "none" /\ cret[t] = "ok" => hold[t] = 1]_condVars
  BY <1>1
<1> QED
  BY CondInvariance, <1>2, PTL DEF CondSpec, OkWaitHolds

-----------------------------------------------------------------------------
(***************************************************************************)
(* The gate: where a thread is, and whether it holds the mutex there.      *)
(***************************************************************************)
WaitPlaces == {"inc", "unlock", "unlocked", "asleep", "woken", "relock", "dec"}

Guarded(t) ==
  /\ cpc[t] \in WaitPlaces \cup {"none", "post"}
  /\ cpc[t] \in WaitPlaces => apc[t] = "waiting"
  /\ apc[t] = "waiting" => t \in Waiters
  /\ cpc[t] \in {"inc", "unlock", "dec"} => hold[t] = 1
  /\ cpc[t] \in {"unlocked", "asleep", "woken"} => hold[t] = 0
  /\ cpc[t] = "relock" /\ pc[t] = "idle" => hold[t] = 1
  /\ cpc[t] = "post" => apc[t] \in {"broadcast", "finishing"}

Progress(t) ==
  /\ apc[t] = "start" => hold[t] = 0 /\ pc[t] = "idle"
  /\ apc[t] = "locking" => /\ cpc[t] = "none" /\ pc[t] \in {"lock", "blocked", "got", "idle"}
                           /\ pc[t] = "idle" => hold[t] = 1
  /\ apc[t] = "waiting" => (cpc[t] = "none" => hold[t] = 1)
  /\ apc[t] \in {"leave", "opened", "broadcast"} => hold[t] = 1
  /\ apc[t] \in {"left", "finishing", "done"} => hold[t] = 0 /\ pc[t] \in {"idle", "unlocking"}

\* Once the gate is open nobody sets out to wait; nobody broadcasts before.
OpenFirst(t) ==
  /\ ~open => cpc[t] # "post" /\ apc[t] \notin {"opened", "broadcast", "left"}
  /\ open => cpc[t] \notin {"inc", "unlock"}

\* A thread between the load and the store of c_onwait has the value that it
\* is going to change.
Loaded(t) == cpc[t] \in {"inc", "dec"} => local[t] = c_onwait

Orderly(t) == Guarded(t) /\ Progress(t) /\ OpenFirst(t) /\ Loaded(t)

GateInv ==
  /\ CondInv
  /\ cond = "live"
  /\ open \in BOOLEAN
  /\ apc \in [Threads -> Places]
  /\ ~open => owed = {}
  /\ \A t \in Threads : Orderly(t)

\* A step of the gate is one of the library or of nobody but the application.
LEMMA GateIsLibrary ==
  ASSUME NEW t \in Threads, GateStep(t) \/ GateSignal(t)
  PROVE  LibraryStep(t) \/ UNCHANGED condVars
BY DEF GateStep, GateSignal, GateLock, GateTest, GateOpen, GateBroadcast, GateUnlock, GateDone,
       At, LibraryStep, MutexCall, condOnly, condVars

LEMMA GateCondInv ==
  ASSUME CondInv, NEW t \in Threads, GateStep(t) \/ GateSignal(t)
  PROVE  CondInv'
BY GateIsLibrary, LibraryInv, CondInvStutter

\* What the step of t leaves the others.
LEMMA OthersInGate ==
  ASSUME GateInv, NEW t \in Threads, GateStep(t) \/ GateSignal(t), NEW u \in Threads \ {t}
  PROVE  /\ cpc'[u] = cpc[u] \/ (cpc[u] = "asleep" /\ cpc'[u] = "woken")
         /\ pc'[u] = pc[u] /\ hold'[u] = hold[u]
         /\ apc'[u] = apc[u] /\ local'[u] = local[u]
<1>1. CondInv
  BY DEF GateInv
<1>2. /\ cpc'[u] = cpc[u] \/ (cpc[u] = "asleep" /\ cpc'[u] = "woken")
      /\ pc'[u] = pc[u] /\ hold'[u] = hold[u]
  BY <1>1, GateIsLibrary, OthersInCond DEF condVars, condOnly, mutexVars
<1>3. apc'[u] = apc[u]
  BY DEF GateInv, GateStep, GateSignal, GateLock, GateTest, GateOpen, GateBroadcast, GateUnlock,
         GateDone, GoOn
<1>4. local'[u] = local[u]
  BY <1>1
  DEF CondInv, CondOnlyType, GateStep, GateSignal, GateLock, GateTest, GateOpen, GateBroadcast, GateUnlock,
      GateDone, condVars, condOnly, WaitEnter, Signal, BroadcastEnter, CondStep, MutexStep,
      WaitCount, WaitUnlock, WaitSleep, WaitRelock, WaitUncount, WaitDone, BroadcastPost,
      BroadcastDone, DestroyPost, DestroyDone, Fault
<1> QED
  BY <1>2, <1>3, <1>4

\* c_onwait changes only at the stores of a wait, and their thread holds the
\* mutex; the gate is opened by a thread that holds it.
LEMMA GateGlobals ==
  ASSUME GateInv, NEW t \in Threads, GateStep(t) \/ GateSignal(t)
  PROVE  /\ cond' = "live"
         /\ c_onwait' = c_onwait \/ (hold[t] = 1 /\ cpc[t] \in {"inc", "dec"})
         /\ open' = open \/ (hold[t] = 1 /\ open' = TRUE)
         /\ ~open' => owed' = {}
<1> USE DEF GateInv, Orderly, Guarded, Progress, OpenFirst
<1>1. cond = "live" /\ cpc[t] # "destroy"
  BY DEF WaitPlaces
<1>2. open' = open \/ (hold[t] = 1 /\ open' = TRUE)
  BY DEF GateStep, GateSignal, GateLock, GateTest, GateOpen, GateBroadcast, GateUnlock, GateDone, At
<1>3. cond' = "live" /\ (c_onwait' = c_onwait \/ (hold[t] = 1 /\ cpc[t] \in {"inc", "dec"}))
  BY <1>1
  DEF GateStep, GateSignal, GateLock, GateTest, GateOpen, GateBroadcast, GateUnlock, GateDone,
      condVars, condOnly, WaitEnter, Signal, BroadcastEnter, CondStep, MutexStep,
      WaitCount, WaitUnlock, WaitSleep, WaitRelock, WaitUncount, WaitDone, BroadcastPost,
      BroadcastDone, DestroyPost, DestroyDone, Fault, Calling
<1>4. owed' \subseteq owed \/ open
  <2>1. ASSUME NEW l, PostAndGoto(t, l) PROVE owed' \subseteq owed
    BY <2>1 DEF PostAndGoto
  <2>2. CASE GateBroadcast(t)
    BY <2>2 DEF GateBroadcast, At
  <2>3. CASE ~GateBroadcast(t)
    BY <1>1, <2>1, <2>3
    DEF GateStep, GateSignal, GateLock, GateTest, GateOpen, GateUnlock, GateDone,
        condVars, condOnly, WaitEnter, Signal, CondStep, MutexStep,
        WaitCount, WaitUnlock, WaitSleep, WaitRelock, WaitUncount, WaitDone, BroadcastPost,
        BroadcastDone, DestroyPost, DestroyDone, Fault, Calling
  <2> QED
    BY <2>2, <2>3
<1> QED
  BY <1>2, <1>3, <1>4

LEMMA OthersOrderly ==
  ASSUME GateInv, NEW t \in Threads, GateStep(t) \/ GateSignal(t), NEW u \in Threads \ {t}
  PROVE  Orderly(u)'
<1>1. Orderly(u) /\ Orderly(t)
  BY DEF GateInv
<1>2. hold[t] = 1 => hold[u] = 0
  <2>1. hold \in [Threads -> {0, 1}] /\ MutualExclusion
    BY FastHold DEF GateInv, CondInv
  <2> QED
    BY <2>1 DEF MutualExclusion
<1>3. /\ cpc'[u] = cpc[u] \/ (cpc[u] = "asleep" /\ cpc'[u] = "woken")
      /\ pc'[u] = pc[u] /\ hold'[u] = hold[u]
      /\ apc'[u] = apc[u] /\ local'[u] = local[u]
  BY OthersInGate
<1>4. /\ c_onwait' = c_onwait \/ hold[t] = 1
      /\ open' = open \/ (hold[t] = 1 /\ open' = TRUE)
  BY GateGlobals
<1>5. open \in BOOLEAN
  BY DEF GateInv
<1> QED
  BY <1>1, <1>2, <1>3, <1>4, <1>5 DEF Orderly, Guarded, Progress, OpenFirst, Loaded, WaitPlaces

\* The steps of t itself, first those in which it calls or the application
\* goes on, then those of a call under way.
GateCall(t) ==
  \/ GateLock(t) \/ GateTest(t) \/ GateOpen(t) \/ GateBroadcast(t)
  \/ GateUnlock(t) \/ GateDone(t) \/ GateSignal(t)

LEMMA GateCallOrderly ==
  ASSUME GateInv, NEW t \in Threads, GateCall(t)
  PROVE  Orderly(t)' /\ open' \in BOOLEAN /\ apc' \in [Threads -> Places]
<1>1. /\ CondInv /\ FastInv /\ CondOnlyType /\ Orderly(t) /\ cond = "live"
      /\ open \in BOOLEAN /\ apc \in [Threads -> Places]
      /\ hold \in [Threads -> {0, 1}] /\ pc \in [Threads -> FastLocations]
  BY FastHold DEF GateInv, CondInv, FastInv
<1> USE <1>1 DEF CondOnlyType, At, GoOn, Places, Calling, CGoto, CReturn, mutexVars, condVars, condOnly
<1>2. CASE GateLock(t)
  <2>1. LockEnter(t) /\ cpc[t] = "none" /\ cpc' = cpc /\ apc[t] = "start" /\ apc' = [apc EXCEPT ![t] = "locking"]
        /\ open' = open /\ local' = local /\ c_onwait' = c_onwait
    BY <1>2 DEF GateLock
  <2>2. hold'[t] = 0 /\ pc'[t] = "lock"
    BY <2>1, LockDoes DEF Orderly, Progress
  <2> QED
    BY <2>1, <2>2 DEF Orderly, Guarded, Progress, OpenFirst, Loaded, WaitPlaces
<1>3. CASE GateTest(t)
  BY <1>3 DEF GateTest, WaitEnter, Orderly, Guarded, Progress, OpenFirst, Loaded, WaitPlaces
<1>4. CASE GateOpen(t)
  BY <1>4 DEF GateOpen, Orderly, Guarded, Progress, OpenFirst, Loaded, WaitPlaces
<1>5. CASE GateBroadcast(t)
  BY <1>5 DEF GateBroadcast, BroadcastEnter, Orderly, Guarded, Progress, OpenFirst, Loaded, WaitPlaces
<1>6. CASE GateUnlock(t)
  <2>1. UnlockEnter(t) /\ cpc[t] = "none" /\ cpc' = cpc
        /\ open' = open /\ local' = local /\ c_onwait' = c_onwait
        /\ \/ apc[t] \in {"leave", "broadcast"} /\ apc' = [apc EXCEPT ![t] = "finishing"]
           \/ apc[t] = "opened" /\ apc' = [apc EXCEPT ![t] = "left"]
    BY <1>6 DEF GateUnlock
  <2>2. hold[t] = 1
    BY <2>1 DEF Orderly, Progress
  <2>3. hold'[t] = 0 /\ pc'[t] = "unlocking"
    BY <2>1, <2>2, UnlockDoes
  <2> QED
    BY <2>1, <2>3 DEF Orderly, Guarded, Progress, OpenFirst, Loaded, WaitPlaces
<1>7. CASE GateDone(t)
  BY <1>7 DEF GateDone, Orderly, Guarded, Progress, OpenFirst, Loaded, WaitPlaces
<1>8. CASE GateSignal(t)
  <2>1. /\ cpc[t] = "none" /\ apc[t] = "start" /\ pc' = pc /\ hold' = hold
        /\ local' = local /\ open' = open /\ apc' = apc /\ c_onwait' = c_onwait
        /\ PostAndGoto(t, "none") \/ cpc' = [cpc EXCEPT ![t] = "none"]
    BY <1>8 DEF GateSignal, Signal
  <2>2. cpc'[t] = "none"
    BY <2>1, PosterStays
  <2> QED
    BY <2>1, <2>2 DEF Orderly, Guarded, Progress, OpenFirst, Loaded, WaitPlaces
<1> QED
  BY <1>2, <1>3, <1>4, <1>5, <1>6, <1>7, <1>8 DEF GateCall

LEMMA GateCondOrderly ==
  ASSUME GateInv, NEW t \in Threads, CondStep(t), UNCHANGED <<open, apc>>
  PROVE  Orderly(t)'
<1>1. /\ CondInv /\ FastInv /\ CondOnlyType /\ Orderly(t) /\ Place(t) /\ cond = "live"
      /\ open \in BOOLEAN /\ apc \in [Threads -> Places]
      /\ hold \in [Threads -> {0, 1}] /\ pc \in [Threads -> FastLocations]
      /\ (pc[t] # "idle" => hold[t] = 0)
  BY FastHold DEF GateInv, CondInv, FastInv, WaitPlace
<1>2. cpc[t] \notin {"leave", "destroy"}
  BY <1>1 DEF Orderly, Guarded, WaitPlaces
<1> USE <1>1, <1>2 DEF CondOnlyType, Calling, CGoto, CReturn, Fault, mutexVars, condOnly, Places
<1>3. CASE MutexStep(t)
  <2>1. Advance(t) /\ UNCHANGED condOnly
    BY <1>3 DEF MutexStep, Advance
  <2>2. /\ hold[t] = 0
        /\ \/ pc[t] \in {"lock", "blocked"} /\ pc'[t] \in {"blocked", "got"} /\ hold'[t] = 0
           \/ pc[t] = "got" /\ pc'[t] = "idle" /\ hold'[t] = 1
           \/ pc[t] = "unlocking" /\ pc'[t] = "idle" /\ hold'[t] = 0
    BY <2>1, AdvanceDoes
  <2>3. CASE apc[t] \in {"start", "locking"}
    BY <2>1, <2>2, <2>3 DEF Orderly, Guarded, Progress, OpenFirst, Loaded, WaitPlaces, Place
  <2>4. CASE apc[t] \notin {"start", "locking"}
    BY <2>1, <2>2, <2>4 DEF Orderly, Guarded, Progress, OpenFirst, Loaded, WaitPlaces, Place
  <2> QED
    BY <2>3, <2>4
<1>4. CASE WaitCount(t)
  BY <1>4 DEF WaitCount, Orderly, Guarded, Progress, OpenFirst, Loaded, WaitPlaces
<1>5. CASE WaitUnlock(t)
  <2>1. UnlockEnter(t) /\ cpc[t] = "unlock" /\ cpc' = [cpc EXCEPT ![t] = "unlocked"]
        /\ local' = local /\ c_onwait' = c_onwait
    BY <1>5 DEF WaitUnlock
  <2>2. hold'[t] = 0
    BY <2>1, UnlockDoes
  <2> QED
    BY <2>1, <2>2 DEF Orderly, Guarded, Progress, OpenFirst, Loaded, WaitPlaces
<1>6. CASE WaitSleep(t)
  BY <1>6 DEF WaitSleep, Orderly, Guarded, Progress, OpenFirst, Loaded, WaitPlaces
<1>7. CASE WaitRelock(t)
  <2>1. LockEnter(t) /\ cpc[t] = "woken" /\ cpc' = [cpc EXCEPT ![t] = "relock"]
        /\ local' = local /\ c_onwait' = c_onwait
    BY <1>7 DEF WaitRelock
  <2>2. pc'[t] = "lock"
    BY <2>1, LockDoes DEF Orderly, Guarded
  <2> QED
    BY <2>1, <2>2 DEF Orderly, Guarded, Progress, OpenFirst, Loaded, WaitPlaces
<1>8. CASE WaitUncount(t)
  BY <1>8 DEF WaitUncount, Orderly, Guarded, Progress, OpenFirst, Loaded, WaitPlaces
<1>9. CASE WaitDone(t)
  BY <1>9 DEF WaitDone, Orderly, Guarded, Progress, OpenFirst, Loaded, WaitPlaces
<1>10. CASE BroadcastPost(t)
  <2>1. cpc[t] = "post" /\ cpc'[t] = "post" /\ hold' = hold /\ pc' = pc
    BY <1>10, PosterStays DEF BroadcastPost
  <2> QED
    BY <2>1 DEF Orderly, Guarded, Progress, OpenFirst, Loaded, WaitPlaces
<1>11. CASE BroadcastDone(t)
  BY <1>11 DEF BroadcastDone, Orderly, Guarded, Progress, OpenFirst, Loaded, WaitPlaces
<1> QED
  BY <1>3, <1>4, <1>5, <1>6, <1>7, <1>8, <1>9, <1>10, <1>11
  DEF CondStep, DestroyPost, DestroyDone

LEMMA GateStepInv ==
  ASSUME GateInv, NEW t \in Threads, GateStep(t) \/ GateSignal(t)
  PROVE  GateInv'
<1>1. CondInv'
  BY GateCondInv DEF GateInv
<1>2. cond' = "live" /\ (~open' => owed' = {})
  BY GateGlobals
<1>3. Orderly(t)' /\ open' \in BOOLEAN /\ apc' \in [Threads -> Places]
  <2>1. CASE GateCall(t)
    BY <2>1, GateCallOrderly
  <2>2. CASE CondStep(t) /\ UNCHANGED <<open, apc>>
    BY <2>2, GateCondOrderly DEF GateInv
  <2> QED
    BY <2>1, <2>2 DEF GateStep, GateCall
<1> QED
  BY <1>1, <1>2, <1>3, OthersOrderly DEF GateInv

-----------------------------------------------------------------------------
(***************************************************************************)
(* The count of waiters.  The store of a wait's ++ adds its thread to      *)
(* Waiting, that of its -- takes it out, and nothing else changes either.  *)
(***************************************************************************)
LEMMA SelfWaiting ==
  ASSUME GateInv, NEW t \in Threads, GateStep(t) \/ GateSignal(t)
  PROVE  \/ c_onwait' = c_onwait /\ (t \in Waiting' <=> t \in Waiting)
         \/ c_onwait' = c_onwait + 1 /\ t \notin Waiting /\ t \in Waiting'
         \/ c_onwait' = c_onwait - 1 /\ t \in Waiting /\ t \notin Waiting'
<1>1. /\ CondOnlyType /\ Orderly(t) /\ cond = "live"
  BY DEF GateInv, CondInv
<1>2. cpc[t] \notin {"leave", "destroy"}
  BY <1>1 DEF Orderly, Guarded, WaitPlaces
<1> USE <1>1, <1>2 DEF CondOnlyType, Waiting, Calling, CGoto, CReturn, Fault, condVars, condOnly
<1>3. CASE GateLock(t) \/ GateTest(t) \/ GateOpen(t) \/ GateBroadcast(t) \/ GateUnlock(t) \/ GateDone(t)
  BY <1>3 DEF GateLock, GateTest, GateOpen, GateBroadcast, GateUnlock, GateDone, WaitEnter, BroadcastEnter
<1>4. CASE GateSignal(t)
  <2>1. cpc[t] = "none" /\ c_onwait' = c_onwait
        /\ (PostAndGoto(t, "none") \/ cpc' = [cpc EXCEPT ![t] = "none"])
    BY <1>4 DEF GateSignal, Signal
  <2>2. cpc'[t] = "none"
    BY <2>1, PosterStays
  <2> QED
    BY <2>1, <2>2
<1>5. CASE BroadcastPost(t)
  <2>1. cpc[t] = "post" /\ cpc'[t] = "post" /\ c_onwait' = c_onwait
    BY <1>5, PosterStays DEF BroadcastPost
  <2> QED
    BY <2>1
<1>6. CASE WaitCount(t)
  BY <1>6 DEF WaitCount, Orderly, Loaded
<1>7. CASE WaitDone(t)
  BY <1>7 DEF WaitDone, Orderly, Loaded
<1>8. CASE MutexStep(t) \/ WaitUnlock(t) \/ WaitRelock(t) \/ WaitSleep(t) \/ WaitUncount(t) \/ BroadcastDone(t)
  BY <1>8 DEF MutexStep, WaitUnlock, WaitRelock, WaitSleep, WaitUncount, BroadcastDone
<1> QED
  BY <1>3, <1>4, <1>5, <1>6, <1>7, <1>8 DEF GateStep, CondStep, DestroyPost, DestroyDone

LEMMA CountKept ==
  ASSUME IsFiniteSet(Threads), GateInv, WaitersCounted, NEW t \in Threads, GateStep(t) \/ GateSignal(t)
  PROVE  WaitersCounted'
<1>1. IsFiniteSet(Waiting) /\ Waiting \subseteq Threads /\ Waiting' \subseteq Threads
  BY FS_Subset DEF Waiting
<1>2. Cardinality(Waiting) \in Nat
  BY <1>1, FS_CardinalityType
<1>3. \A u \in Threads \ {t} : u \in Waiting' <=> u \in Waiting
  BY OthersInGate DEF Waiting
<1>4. CASE c_onwait' = c_onwait /\ (t \in Waiting' <=> t \in Waiting)
  <2>1. Waiting' = Waiting
    BY <1>1, <1>3, <1>4
  <2> QED
    BY <1>4, <2>1 DEF WaitersCounted
<1>5. CASE c_onwait' = c_onwait + 1 /\ t \notin Waiting /\ t \in Waiting'
  <2>1. Waiting' = Waiting \cup {t}
    BY <1>1, <1>3, <1>5
  <2>2. Cardinality(Waiting \cup {t}) = Cardinality(Waiting) + 1
    BY <1>1, <1>5, FS_AddElement
  <2> QED
    BY <1>5, <2>1, <2>2 DEF WaitersCounted
<1>6. CASE c_onwait' = c_onwait - 1 /\ t \in Waiting /\ t \notin Waiting'
  <2>1. Waiting' = Waiting \ {t}
    BY <1>1, <1>3, <1>6
  <2>2. Cardinality(Waiting \ {t}) = Cardinality(Waiting) - 1
    BY <1>1, <1>6, FS_RemoveElement
  <2> QED
    BY <1>6, <2>1, <2>2 DEF WaitersCounted
<1> QED
  BY <1>4, <1>5, <1>6, SelfWaiting

-----------------------------------------------------------------------------
(***************************************************************************)
(* The posts.  A thread on its way to DosWaitEventSem, or asleep there, is *)
(* a sleeper.  Once the gate is open there are no new ones.                *)
(***************************************************************************)
Sleepers == {t \in Threads : cpc[t] \in {"unlocked", "asleep"}}

Enough(n) == Cardinality(Sleepers) <= posts + n

\* A broadcast under way has posts left for those it has not reached; the
\* event remembers the others.
PostsCover ==
  /\ posts > 0 => Asleep = {}
  /\ \A t \in Threads : cpc[t] = "post" => local[t] \in Nat /\ Enough(local[t])
  /\ owed \cap Sleepers = {} \/ Enough(0) \/ \E t \in Threads : cpc[t] = "post"

GateAll == GateInv /\ WaitersCounted /\ PostsCover

LEMMA SleepersFinite ==
  ASSUME IsFiniteSet(Threads), GateInv, MaxPosts >= Cardinality(Waiters)
  PROVE  /\ IsFiniteSet(Sleepers) /\ Cardinality(Sleepers) \in Nat
         /\ Cardinality(Sleepers) <= MaxPosts
<1>1. Sleepers \subseteq Waiters
  BY DEF Sleepers, GateInv, Orderly, Guarded, WaitPlaces
<1>2. IsFiniteSet(Waiters)
  BY FS_Subset, WaitersAssumption
<1>3. IsFiniteSet(Sleepers) /\ Cardinality(Sleepers) <= Cardinality(Waiters)
  BY <1>1, <1>2, FS_Subset
<1>4. Cardinality(Sleepers) \in Nat /\ Cardinality(Waiters) \in Nat
  BY <1>2, <1>3, FS_CardinalityType
<1> QED
  BY <1>3, <1>4, PostsAssumption

\* One sleeper fewer for every post that a thread takes, one post more for
\* every post that nobody takes.
LEMMA SleeperLeaves ==
  ASSUME IsFiniteSet(Sleepers), Cardinality(Sleepers) \in Nat, NEW u \in Sleepers, Sleepers' = Sleepers \ {u}
  PROVE  Cardinality(Sleepers') = Cardinality(Sleepers) - 1
BY FS_RemoveElement

\* A step that starts or ends no broadcast and takes no post from a sleeper.
LEMMA CoverKept ==
  ASSUME PostsCover, posts' > 0 => Asleep' = {},
         \A n \in Nat : Cardinality(Sleepers) <= posts + n => Cardinality(Sleepers') <= posts' + n,
         owed' \cap Sleepers' \subseteq owed \cap Sleepers,
         \A u \in Threads : cpc'[u] = "post" <=> cpc[u] = "post",
         \A u \in Threads : cpc[u] = "post" => local'[u] = local[u]
  PROVE  PostsCover'
<1>1. \A u \in Threads : cpc'[u] = "post" => local'[u] \in Nat /\ Cardinality(Sleepers') <= posts' + local'[u]
  BY DEF PostsCover, Enough
<1>2. Enough(0) => Cardinality(Sleepers') <= posts' + 0
  BY DEF Enough
<1> QED
  BY <1>1, <1>2 DEF PostsCover, Enough

\* What a post that t makes does to the sleepers and the posts.
LEMMA PostDoes ==
  ASSUME IsFiniteSet(Threads), MaxPosts >= Cardinality(Waiters), GateInv, PostsCover,
         NEW t \in Threads, cpc[t] \in {"none", "post"}, PostAndGoto(t, cpc[t])
  PROVE  /\ posts' > 0 => Asleep' = {}
         /\ \A n \in Nat \ {0} : Cardinality(Sleepers) <= posts + n => Cardinality(Sleepers') <= posts' + n - 1
         /\ Cardinality(Sleepers) <= posts => Cardinality(Sleepers') <= posts'
         /\ owed' \subseteq owed /\ Sleepers' \subseteq Sleepers
         /\ \A u \in Threads : cpc'[u] = "post" <=> cpc[u] = "post"
<1>1. /\ CondOnlyType /\ posts \in Nat /\ posts <= MaxPosts /\ MaxPosts \in Nat
      /\ posts > 0 => Asleep = {}
  BY PostsAssumption DEF GateInv, CondInv, CondOnlyType, PostsCover
<1>2. /\ IsFiniteSet(Sleepers) /\ Cardinality(Sleepers) \in Nat
      /\ Cardinality(Sleepers) <= MaxPosts
  BY SleepersFinite
<1>3. CASE Asleep = {}
  <2>1. /\ posts' = IF posts < MaxPosts THEN posts + 1 ELSE posts
        /\ cpc' = cpc /\ owed' = owed
    BY <1>1, <1>3 DEF PostAndGoto, CondOnlyType
  <2>2. Sleepers' = Sleepers /\ Asleep' = {}
    BY <1>3, <2>1 DEF Sleepers, Asleep
  <2>3. posts' \in Nat /\ (posts' = posts + 1 \/ (posts' = posts /\ Cardinality(Sleepers) <= posts))
    BY <1>1, <1>2, <2>1
  <2> QED
    BY <1>1, <1>2, <2>1, <2>2, <2>3
<1>4. CASE Asleep # {}
  <2>1. PICK u \in Asleep : cpc' = [cpc EXCEPT ![u] = "woken", ![t] = cpc[t]] /\ owed' = owed \ {u} /\ posts' = posts
    BY <1>4 DEF PostAndGoto
  <2>2. cpc[u] = "asleep" /\ u \in Threads /\ u # t /\ u \in Sleepers
    BY <2>1 DEF Asleep, Sleepers
  <2>3. cpc' = [cpc EXCEPT ![u] = "woken"]
    BY <1>1, <2>1, <2>2 DEF CondOnlyType
  <2>4. Sleepers' = Sleepers \ {u}
    BY <1>1, <2>2, <2>3 DEF Sleepers, CondOnlyType
  <2>5. Cardinality(Sleepers') = Cardinality(Sleepers) - 1
    BY <1>2, <2>2, <2>4, SleeperLeaves
  <2>6. posts' = 0
    BY <1>1, <1>4, <2>1
  <2>7. \A v \in Threads : cpc'[v] = "post" <=> cpc[v] = "post"
    BY <1>1, <2>2, <2>3 DEF CondOnlyType
  <2>8. \A n \in Nat \ {0} : Cardinality(Sleepers) <= posts + n => Cardinality(Sleepers') <= posts' + n - 1
    BY <1>1, <1>2, <2>1, <2>5
  <2>9. Cardinality(Sleepers) <= posts => Cardinality(Sleepers') <= posts'
    BY <1>1, <1>2, <2>1, <2>5
  <2>10. posts' > 0 => Asleep' = {}
    BY <2>6
  <2>11. owed' \subseteq owed /\ Sleepers' \subseteq Sleepers
    BY <2>1, <2>4
  <2> QED
    BY <2>7, <2>8, <2>9, <2>10, <2>11
<1> QED
  BY <1>3, <1>4

LEMMA CoverStep ==
  ASSUME IsFiniteSet(Threads), MaxPosts >= Cardinality(Waiters), GateAll,
         NEW t \in Threads, GateStep(t) \/ GateSignal(t)
  PROVE  PostsCover'
<1>1. /\ CondOnlyType /\ Orderly(t) /\ cond = "live" /\ GateInv /\ PostsCover /\ WaitersCounted
      /\ posts \in Nat /\ cpc[t] \notin {"leave", "destroy"}
  BY PostsAssumption DEF GateAll, GateInv, CondInv, CondOnlyType, Orderly, Guarded, WaitPlaces
<1>2. IsFiniteSet(Sleepers) /\ Cardinality(Sleepers) \in Nat
  BY <1>1, SleepersFinite
<1> USE <1>1 DEF CondOnlyType, Calling, CGoto, CReturn, Fault, condVars, condOnly
<1>3. ASSUME posts' = posts, owed' = owed, local' = local,
             \A u \in Threads : \A l \in {"unlocked", "asleep", "post"} : cpc'[u] = l <=> cpc[u] = l
      PROVE  PostsCover'
  <2>1. Sleepers' = Sleepers /\ Asleep' = Asleep
    BY <1>3 DEF Sleepers, Asleep
  <2>2. \A u \in Threads : cpc'[u] = "post" <=> cpc[u] = "post"
    BY <1>3
  <2> QED
    BY <1>2, <1>3, <2>1, <2>2, CoverKept DEF PostsCover
<1>4. CASE GateLock(t) \/ GateOpen(t) \/ GateUnlock(t) \/ GateDone(t) \/ MutexStep(t)
  <2>1. UNCHANGED condOnly
    BY <1>4 DEF GateLock, GateOpen, GateUnlock, GateDone, MutexStep
  <2> QED
    BY <1>3, <2>1
<1>5. CASE GateTest(t)
  <2>1. CASE UNCHANGED condVars
    BY <1>3, <2>1
  <2>2. CASE WaitEnter(t)
    <3>1. /\ cpc[t] = "none" /\ posts' = posts /\ owed' = owed
          /\ cpc' = [cpc EXCEPT ![t] = "inc"] /\ \A u \in Threads \ {t} : local'[u] = local[u]
      BY <2>2 DEF WaitEnter
    <3>2. Sleepers' = Sleepers /\ Asleep' = Asleep
      BY <3>1 DEF Sleepers, Asleep
    <3>3. \A u \in Threads : cpc'[u] = "post" <=> cpc[u] = "post"
      BY <3>1
    <3> QED
      BY <1>2, <3>1, <3>2, <3>3, CoverKept DEF PostsCover
  <2> QED
    BY <1>5, <2>1, <2>2 DEF GateTest
<1>6. CASE GateBroadcast(t)
  <2>1. /\ cpc[t] = "none" /\ cpc' = [cpc EXCEPT ![t] = "post"] /\ posts' = posts
        /\ local' = [local EXCEPT ![t] = c_onwait]
    BY <1>6 DEF GateBroadcast, BroadcastEnter
  <2>2. Sleepers' = Sleepers /\ Asleep' = Asleep
    BY <2>1 DEF Sleepers, Asleep
  <2>3. c_onwait \in Nat /\ Cardinality(Sleepers) <= c_onwait
    <3>1. Sleepers \subseteq Waiting /\ Waiting \subseteq Threads
      BY DEF Sleepers, Waiting
    <3>2. IsFiniteSet(Waiting)
      BY <3>1, FS_Subset
    <3>3. Cardinality(Sleepers) <= Cardinality(Waiting) /\ Cardinality(Waiting) \in Nat
      BY <3>1, <3>2, FS_Subset, FS_CardinalityType
    <3> QED
      BY <3>3 DEF WaitersCounted
  <2>4. ASSUME NEW u \in Threads, cpc'[u] = "post"
        PROVE  local'[u] \in Nat /\ Cardinality(Sleepers') <= posts' + local'[u]
    <3>1. CASE u = t
      BY <1>2, <2>1, <2>2, <2>3, <3>1
    <3>2. CASE u # t
      BY <2>1, <2>2, <2>4, <3>2 DEF PostsCover, Enough
    <3> QED
      BY <3>1, <3>2
  <2>5. cpc'[t] = "post"
    BY <2>1
  <2> QED
    BY <2>1, <2>2, <2>4, <2>5 DEF PostsCover, Enough
<1>7. CASE GateSignal(t)
  <2>1. cpc[t] = "none" /\ local' = local /\ PostAndGoto(t, cpc[t])
    BY <1>7 DEF GateSignal, Signal
  <2>2. /\ posts' > 0 => Asleep' = {}
        /\ \A n \in Nat \ {0} : Cardinality(Sleepers) <= posts + n => Cardinality(Sleepers') <= posts' + n - 1
        /\ Cardinality(Sleepers) <= posts => Cardinality(Sleepers') <= posts'
        /\ owed' \subseteq owed /\ Sleepers' \subseteq Sleepers
        /\ \A u \in Threads : cpc'[u] = "post" <=> cpc[u] = "post"
    BY <2>1, PostDoes
  <2>3. posts' \in Nat /\ Cardinality(Sleepers') \in Nat
    <3>1. CondOnlyType'
      BY <1>7, GateCondInv DEF GateInv, CondInv
    <3> QED
      BY <1>2, <2>2, <3>1, PostsAssumption, FS_Subset, FS_CardinalityType
  <2>4. \A n \in Nat : Cardinality(Sleepers) <= posts + n => Cardinality(Sleepers') <= posts' + n
    <3> TAKE n \in Nat
    <3>1. CASE n = 0
      BY <1>2, <2>2, <2>3, <3>1
    <3>2. CASE n # 0
      BY <1>2, <2>2, <2>3, <3>2
    <3> QED
      BY <3>1, <3>2
  <2> QED
    BY <2>1, <2>2, <2>4, CoverKept
<1>8. CASE BroadcastPost(t)
  <2>1. /\ cpc[t] = "post" /\ local[t] # 0 /\ PostAndGoto(t, cpc[t])
        /\ local' = [local EXCEPT ![t] = IF @ > 0 THEN @ - 1 ELSE @]
    BY <1>8 DEF BroadcastPost
  <2>2. /\ posts' > 0 => Asleep' = {}
        /\ \A n \in Nat \ {0} : Cardinality(Sleepers) <= posts + n => Cardinality(Sleepers') <= posts' + n - 1
        /\ \A u \in Threads : cpc'[u] = "post" <=> cpc[u] = "post"
    BY <2>1, PostDoes
  <2>3. posts' \in Nat /\ Cardinality(Sleepers') \in Nat
    <3>1. CondOnlyType'
      BY <1>8, GateCondInv DEF GateInv, CondInv, GateStep, CondStep
    <3>2. Sleepers' \subseteq Sleepers
      BY <2>1, PostDoes
    <3> QED
      BY <1>2, <3>1, <3>2, PostsAssumption, FS_Subset, FS_CardinalityType
  <2>4. local[t] \in Nat \ {0} /\ Cardinality(Sleepers) <= posts + local[t]
    BY <2>1 DEF PostsCover, Enough
  <2>5. local'[t] = local[t] - 1
    BY <2>1, <2>4
  <2>6. ASSUME NEW u \in Threads, cpc'[u] = "post"
        PROVE  local'[u] \in Nat /\ Cardinality(Sleepers') <= posts' + local'[u]
    <3>1. CASE u = t
      BY <2>2, <2>3, <2>4, <2>5, <3>1
    <3>2. CASE u # t
      <4>1. local'[u] = local[u] /\ local[u] \in Nat /\ Cardinality(Sleepers) <= posts + local[u]
        BY <2>1, <2>2, <2>6, <3>2 DEF PostsCover, Enough
      <4>2. CASE local[u] = 0
        BY <1>2, <2>1, <2>3, <4>1, <4>2, PostDoes
      <4>3. CASE local[u] # 0
        BY <2>2, <2>3, <4>1, <4>3
      <4> QED
        BY <4>2, <4>3
    <3> QED
      BY <3>1, <3>2
  <2>7. cpc'[t] = "post"
    BY <2>1, <2>2
  <2> QED
    BY <2>2, <2>6, <2>7 DEF PostsCover, Enough
<1>9. CASE BroadcastDone(t)
  <2>1. /\ cpc[t] = "post" /\ local[t] = 0 /\ posts' = posts /\ owed' = owed /\ local' = local
        /\ cpc' = [cpc EXCEPT ![t] = "none"]
    BY <1>9 DEF BroadcastDone
  <2>2. Sleepers' = Sleepers /\ Asleep' = Asleep
    BY <2>1 DEF Sleepers, Asleep
  <2>3. Cardinality(Sleepers) <= posts + 0
    BY <2>1 DEF PostsCover, Enough
  <2>4. \A u \in Threads : cpc'[u] = "post" => cpc[u] = "post"
    BY <2>1
  <2> QED
    BY <2>1, <2>2, <2>3, <2>4 DEF PostsCover, Enough
<1>10. CASE WaitUnlock(t)
  <2>1. cpc[t] = "unlock" /\ cpc' = [cpc EXCEPT ![t] = "unlocked"] /\ posts' = posts /\ owed' = owed
    BY <1>10 DEF WaitUnlock
  <2>2. owed = {} /\ \A u \in Threads : cpc[u] # "post"
    BY <2>1 DEF Orderly, OpenFirst, GateInv
  <2>3. Asleep' = Asleep /\ \A u \in Threads : cpc'[u] # "post"
    BY <2>1, <2>2 DEF Asleep
  <2> QED
    BY <2>1, <2>2, <2>3 DEF PostsCover
<1>11. CASE WaitSleep(t)
  <2>1. cpc[t] = "unlocked" /\ local' = local
    BY <1>11 DEF WaitSleep
  <2>2. CASE posts > 0 /\ posts' = posts - 1 /\ owed' = owed \ {t} /\ cpc' = [cpc EXCEPT ![t] = "woken"]
    <3>1. Asleep' = {}
      BY <2>1, <2>2 DEF Asleep, PostsCover
    <3>2. t \in Sleepers /\ Sleepers' = Sleepers \ {t}
      BY <2>1, <2>2 DEF Sleepers
    <3>3. Cardinality(Sleepers') = Cardinality(Sleepers) - 1
      BY <1>2, <3>2, SleeperLeaves
    <3>4. \A n \in Nat : Cardinality(Sleepers) <= posts + n => Cardinality(Sleepers') <= posts' + n
      BY <1>2, <2>2, <3>3
    <3>5. \A u \in Threads : cpc'[u] = "post" <=> cpc[u] = "post"
      BY <2>1, <2>2
    <3> QED
      BY <2>1, <2>2, <3>1, <3>2, <3>4, <3>5, CoverKept
  <2>3. CASE posts = 0 /\ cpc' = [cpc EXCEPT ![t] = "asleep"] /\ posts' = posts /\ owed' = owed
    <3>1. Sleepers' = Sleepers
      BY <2>1, <2>3 DEF Sleepers
    <3>2. \A u \in Threads : cpc'[u] = "post" <=> cpc[u] = "post"
      BY <2>1, <2>3
    <3> QED
      BY <1>2, <2>1, <2>3, <3>1, <3>2, CoverKept
  <2> QED
    BY <1>11, <2>2, <2>3 DEF WaitSleep
<1>12. CASE WaitCount(t) \/ WaitRelock(t) \/ WaitUncount(t) \/ WaitDone(t)
  <2>1. /\ posts' = posts /\ owed' = owed /\ \A u \in Threads \ {t} : local'[u] = local[u]
        /\ cpc[t] \in {"inc", "woken", "relock", "dec"}
        /\ \E l \in {"unlock", "relock", "dec", "none"} : cpc' = [cpc EXCEPT ![t] = l]
    BY <1>12 DEF WaitCount, WaitRelock, WaitUncount, WaitDone
  <2>2. Sleepers' = Sleepers /\ Asleep' = Asleep
    BY <2>1 DEF Sleepers, Asleep
  <2>3. \A u \in Threads : cpc'[u] = "post" <=> cpc[u] = "post"
    BY <2>1
  <2> QED
    BY <1>2, <2>1, <2>2, <2>3, CoverKept DEF PostsCover
<1> QED
  BY <1>4, <1>5, <1>6, <1>7, <1>8, <1>9, <1>10, <1>11, <1>12
  DEF GateStep, CondStep, DestroyPost, DestroyDone

-----------------------------------------------------------------------------
LEMMA GateInitially == GateInit => GateInv
<1> SUFFICES ASSUME GateInit PROVE GateInv
  OBVIOUS
<1>1. FastInv
  BY FastInitially DEF GateInit
<1>2. CondInv
  BY <1>1, PostsAssumption DEF GateInit, CondInv, CondOnlyType, WaitPlace, Place, CondLocations, Results
<1> QED
  BY <1>2 DEF GateInit, GateInv, Orderly, Guarded, Progress, OpenFirst, Loaded, WaitPlaces, Places

LEMMA GateInvStutter ==
  /\ GateInv /\ UNCHANGED gateVars => GateInv'
  /\ WaitersCounted /\ UNCHANGED gateVars => WaitersCounted'
  /\ PostsCover /\ UNCHANGED gateVars => PostsCover'
<1>1. ASSUME GateInv, UNCHANGED gateVars PROVE GateInv'
  <2>1. CondInv'
    BY <1>1, CondInvStutter DEF GateInv, gateVars
  <2> QED
    BY <1>1, <2>1
    DEF gateVars, condVars, condOnly, mutexVars, GateInv, Orderly, Guarded, Progress, OpenFirst, Loaded
<1>2. WaitersCounted /\ UNCHANGED gateVars => WaitersCounted'
  BY DEF gateVars, condVars, condOnly, WaitersCounted, Waiting
<1>3. PostsCover /\ UNCHANGED gateVars => PostsCover'
  BY DEF gateVars, condVars, condOnly, PostsCover, Enough, Sleepers, Asleep
<1> QED
  BY <1>1, <1>2, <1>3

LEMMA GateInvariance == GateSpec => []GateInv
<1>1. GateInv /\ [GateNext]_gateVars => GateInv'
  BY GateStepInv, GateInvStutter DEF GateNext
<1> QED
  BY GateInitially, <1>1, PTL DEF GateSpec

LEMMA CountInvariance ==
  ASSUME IsFiniteSet(Threads)
  PROVE  GateSpec => []WaitersCounted
<1>1. GateInit => WaitersCounted
  <2> SUFFICES ASSUME GateInit PROVE WaitersCounted
    OBVIOUS
  <2>1. Waiting = {}
    BY DEF GateInit, Waiting
  <2> QED
    BY <2>1, FS_EmptySet DEF GateInit, WaitersCounted
<1>2. GateInv /\ WaitersCounted /\ [GateNext]_gateVars => WaitersCounted'
  BY CountKept, GateInvStutter DEF GateNext
<1> QED
  BY GateInvariance, <1>1, <1>2, PTL DEF GateSpec

-----------------------------------------------------------------------------
\* The mutex, the condition variable and the threads of the gate stay well
\* typed; no more than MaxPosts posts are ever pending.
THEOREM GateTypeCorrect == GateSpec => []GateTypeOK
<1>1. GateInv => GateTypeOK
  BY DEF GateInv, CondInv, CondOnlyType, FastInv, RecordInv, SemInv, IInv, GateTypeOK, CondTypeOK
<1> QED
  BY GateInvariance, <1>1, PTL

\* With no timeout, pthread_cond_wait always comes back with the mutex held.
THEOREM WaitAlwaysReturnsHolding == GateSpec => WaitReturnsHolding
<1>1. GateInv => \A t \in Threads : cpc[t] = "dec" => hold[t] = 1
  BY DEF GateInv, Orderly, Guarded
<1>2. GateInv /\ [GateNext]_gateVars =>
        [\A t \in Threads : cpc[t] = "dec" /\ cpc'[t] = "none" => hold[t] = 1]_condVars
  BY <1>1
<1> QED
  BY GateInvariance, <1>2, PTL DEF GateSpec, WaitReturnsHolding

\* c_onwait, which no lock of the library guards, counts the waiters all the
\* same: both its loads and both its stores happen with the mutex held.
THEOREM WaitersAlwaysCounted ==
  ASSUME IsFiniteSet(Threads)
  PROVE  GateSpec => []WaitersCounted
BY CountInvariance

\* When pthread_cond_broadcast returns, no thread that was waiting when it
\* began is asleep, if the event remembers a post for each waiter: neither
\* one that had not reached DosWaitEventSem yet, nor when posts are left over
\* from before or broadcasts overlap.
THEOREM BroadcastAlwaysWakesAll ==
  ASSUME IsFiniteSet(Threads), MaxPosts >= Cardinality(Waiters)
  PROVE  GateSpec => []BroadcastWakesAll
<1>1. GateInit => PostsCover
  <2> SUFFICES ASSUME GateInit PROVE PostsCover
    OBVIOUS
  <2>1. owed = {} /\ posts = 0 /\ \A t \in Threads : cpc[t] = "none"
    BY DEF GateInit
  <2> QED
    BY <2>1 DEF PostsCover
<1>2. GateInv /\ WaitersCounted /\ PostsCover /\ [GateNext]_gateVars => PostsCover'
  BY CoverStep, GateInvStutter DEF GateNext, GateAll
<1>3. GateInv /\ PostsCover => BroadcastWakesAll
  <2> SUFFICES ASSUME GateInv, PostsCover, \A t \in Threads : cpc[t] # "post"
               PROVE  Asleep \cap owed = {}
    BY DEF BroadcastWakesAll
  <2>1. Asleep \subseteq Sleepers
    BY DEF Asleep, Sleepers
  <2>2. CASE owed \cap Sleepers = {}
    BY <2>1, <2>2
  <2>3. CASE Enough(0)
    <3>1. CASE posts > 0
      BY <3>1 DEF PostsCover
    <3>2. CASE ~(posts > 0)
      <4>1. posts = 0
        BY <3>2, PostsAssumption DEF GateInv, CondInv, CondOnlyType
      <4>2. IsFiniteSet(Sleepers) /\ Cardinality(Sleepers) \in Nat
        BY SleepersFinite
      <4>3. Cardinality(Sleepers) = 0
        BY <2>3, <4>1, <4>2 DEF Enough
      <4>4. Sleepers = {}
        BY <4>2, <4>3, FS_EmptySet
      <4> QED
        BY <2>1, <4>4
    <3> QED
      BY <3>1, <3>2
  <2> QED
    BY <2>2, <2>3 DEF PostsCover
<1> QED
  BY GateInvariance, CountInvariance, <1>1, <1>2, <1>3, PTL DEF GateSpec
=============================================================================
