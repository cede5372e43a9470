-------------------------------- MODULE Cond --------------------------------
(***************************************************************************)
(* uthread_cond.c: one pthread condition variable and the mutex its        *)
(* waiters pass.                                                           *)
(*                                                                         *)
(* A condition variable is a kernel event semaphore (HEV) and a count of   *)
(* waiting threads, c_onwait, that nothing guards but the mutex a caller   *)
(* happens to hold.  pthread_cond_wait and _timedwait call                 *)
(* pthread_mutex_unlock and _lock of module Mutex; cpc[t] is where t is in *)
(* its call on the condition variable, pc[t] where it is in a call on the  *)
(* mutex, of its own or made for it.                                       *)
(***************************************************************************)
EXTENDS Mutex, Integers, FiniteSets

CONSTANTS
  MaxPosts,    \* posts the event remembers while nobody waits for it (the
               \* kernel's treatment of flag 0x0800)
  Timed,       \* do the waits have a timeout?
  Destroys,    \* may the application destroy the condition variable?
  MaxOnwait    \* bound: no wait starts once |c_onwait| has reached it

ASSUME PostsAssumption == MaxPosts \in Nat \ {0}
ASSUME CondAssumption  == Timed \in BOOLEAN /\ Destroys \in BOOLEAN
ASSUME OnwaitAssumption == MaxOnwait \in Nat \ {0}
ASSUME FastAssumption == FAST \in Kinds

VARIABLES
  cond,      \* "null" while *cond == NULL, "live", or "closing" once
             \* pthread_cond_destroy has zeroed c_event
  posts,     \* posts of the event that no thread has consumed
  c_onwait,  \* the count of waiting threads
  cpc,       \* where each thread is in its call on the condition variable
  local,     \* a thread's copy of c_onwait: of ++ and --, or i of the
             \* loop of pthread_cond_broadcast
  cret,      \* the result of each thread's last call
  owed       \* the threads that were waiting when a broadcast began and
             \* have not woken yet; the library keeps no such set

condOnly == <<cond, posts, c_onwait, cpc, local, cret, owed>>
condVars == <<mutexVars, condOnly>>

CondLocations ==
  {"none", "inc", "unlock", "unlocked", "asleep", "woken", "relock", "leave",
   "dec", "post", "destroy", "faulted"}

CondTypeOK ==
  /\ TypeOK
  /\ cond \in {"null", "live", "closing"}
  /\ posts \in 0..MaxPosts
  /\ c_onwait \in Int
  /\ cpc \in [Threads -> CondLocations]
  /\ local \in [Threads -> Int]
  /\ cret \in [Threads -> Results \cup {"ETIME"}]
  /\ owed \subseteq Threads

\* The mutex is a FAST one that has been initialised.
CondInit ==
  /\ m_type = FAST
  /\ m_owner = NoThread
  /\ m_count = 0
  /\ sem = Free
  /\ pc = [t \in Threads |-> "idle"]
  /\ ret = [t \in Threads |-> "none"]
  /\ hold = [t \in Threads |-> 0]
  /\ cond = "null"
  /\ posts = 0
  /\ c_onwait = 0
  /\ cpc = [t \in Threads |-> "none"]
  /\ local = [t \in Threads |-> 0]
  /\ cret = [t \in Threads |-> "none"]
  /\ owed = {}

-----------------------------------------------------------------------------
CGoto(t, l) ==
  /\ cpc' = [cpc EXCEPT ![t] = l]
  /\ UNCHANGED cret

CReturn(t, r) ==
  /\ cpc' = [cpc EXCEPT ![t] = "none"]
  /\ cret' = [cret EXCEPT ![t] = r]

\* (*cond)->... is read or written while *cond is NULL.
Fault(t) ==
  /\ cond = "null"
  /\ CGoto(t, "faulted")
  /\ UNCHANGED <<cond, posts, c_onwait, local, owed>>

Calling(t, l) == cpc[t] = l /\ pc[t] = "idle" /\ UNCHANGED mutexVars

Asleep == {t \in Threads : cpc[t] = "asleep"}

\* The threads that c_onwait is to count.
Waiting == {t \in Threads : cpc[t] \in {"unlock", "unlocked", "asleep", "woken",
                                        "relock", "leave", "dec"}}

\* DosPostEventSem by t, which goes on at l: one sleeping thread wakes; if
\* there is none the event stays posted for the next DosWaitEventSem.
PostAndGoto(t, l) ==
  \/ \E u \in Asleep :
       /\ cpc' = [cpc EXCEPT ![u] = "woken", ![t] = l]
       /\ owed' = owed \ {u}
       /\ UNCHANGED posts
  \/ /\ Asleep = {}
     /\ posts' = IF posts < MaxPosts THEN posts + 1 ELSE posts
     /\ cpc' = [cpc EXCEPT ![t] = l]
     /\ UNCHANGED owed

-----------------------------------------------------------------------------
(***************************************************************************)
(* Wrong versions of operations below, as in Mutex.                        *)
(***************************************************************************)

\* A wait that takes a post whether there is one or not.
WaitSleepUntested(t) ==
  /\ Calling(t, "unlocked")
  /\ cond = "live"
  /\ posts' = posts - 1
  /\ CGoto(t, "woken")
  /\ UNCHANGED <<cond, c_onwait, local, owed>>

\* A timed wait that takes every end of DosWaitEventSem for a wake-up.
WaitTimeoutUntested(t) ==
  /\ Timed
  /\ Calling(t, "asleep")
  /\ cpc' = [cpc EXCEPT ![t] = "leave"]
  /\ cret' = [cret EXCEPT ![t] = "ok"]
  /\ UNCHANGED <<cond, posts, c_onwait, local, owed>>

\* A wait that does not take the mutex back.
WaitUnlocked(t) ==
  /\ Calling(t, "woken")
  /\ CGoto(t, "relock")
  /\ UNCHANGED <<cond, posts, c_onwait, local, owed>>

\* A broadcast that leaves one thread out.
BroadcastOneShort(t) ==
  /\ Calling(t, "none")
  /\ cond # "null"
  /\ local' = [local EXCEPT ![t] = IF c_onwait > 0 THEN c_onwait - 1 ELSE 0]
  /\ owed' = owed \cup {u \in Waiting : cpc[u] \in {"unlock", "unlocked", "asleep"}}
  /\ CGoto(t, "post")
  /\ UNCHANGED <<cond, posts, c_onwait>>

\* A pthread_cond_destroy whose loop only tries to close.
DestroyCondSpins(t) ==
  /\ Calling(t, "destroy")
  /\ Asleep # {}
  /\ UNCHANGED condOnly

-----------------------------------------------------------------------------
\* pthread_cond_init, on a handle that is NULL and that no call uses.  ENOMEM
\* is the kernel's refusal of the event, or malloc's of the record.
InitCond(t) ==
  /\ Calling(t, "none")
  /\ \A u \in Threads : cpc[u] = "none"
  /\ cond = "null"
  /\ \/ cond' = "live" /\ posts' = 0 /\ c_onwait' = 0 /\ CReturn(t, "ok")
     \/ CReturn(t, "ENOMEM") /\ UNCHANGED <<cond, posts, c_onwait>>
  /\ UNCHANGED <<local, owed>>

(***************************************************************************)
(* pthread_cond_wait and pthread_cond_timedwait.  A caller holds the mutex *)
(* once, or believes it does: it has had ETIME from its last wait and has  *)
(* made no call on the mutex since.                                        *)
(***************************************************************************)
Believes(t) == hold[t] = 1 \/ cret[t] = "ETIME"

\* The test for NULL, and the load of (*cond)->c_onwait++.
WaitEnter(t) ==
  /\ Calling(t, "none")
  /\ Believes(t)
  /\ c_onwait \in (1 - MaxOnwait)..(MaxOnwait - 1)
  /\ \/ cond = "null" /\ CReturn(t, "EINVAL") /\ UNCHANGED local
     \/ cond # "null" /\ CGoto(t, "inc") /\ local' = [local EXCEPT ![t] = c_onwait]
  /\ UNCHANGED <<cond, posts, c_onwait, owed>>

\* The store of (*cond)->c_onwait++.
WaitCount(t) ==
  /\ Calling(t, "inc")
  /\ \/ Fault(t)
     \/ /\ cond # "null"
        /\ c_onwait' = local[t] + 1
        /\ local' = [local EXCEPT ![t] = 0]
        /\ CGoto(t, "unlock")
        /\ UNCHANGED <<cond, posts, owed>>

\* pthread_mutex_unlock(mutex), whose result is ignored.
WaitUnlock(t) ==
  /\ cpc[t] = "unlock"
  /\ UnlockEnter(t)
  /\ CGoto(t, "unlocked")
  /\ UNCHANGED <<cond, posts, c_onwait, local, owed>>

\* DosWaitEventSem: t takes a post that is pending, or sleeps; on a zeroed
\* handle the call fails.
WaitSleep(t) ==
  /\ Calling(t, "unlocked")
  /\ \/ Fault(t)
     \/ /\ cond = "live"
        /\ \/ /\ posts > 0
              /\ posts' = posts - 1
              /\ owed' = owed \ {t}
              /\ CGoto(t, "woken")
           \/ posts = 0 /\ CGoto(t, "asleep") /\ UNCHANGED <<posts, owed>>
        /\ UNCHANGED <<cond, c_onwait, local>>
     \/ /\ cond = "closing"
        /\ cpc' = [cpc EXCEPT ![t] = "leave"]
        /\ cret' = [cret EXCEPT ![t] = IF Timed THEN "ETIME" ELSE "EINVAL"]
        /\ owed' = owed \ {t}
        /\ UNCHANGED <<cond, posts, c_onwait, local>>

\* The timeout of DosWaitEventSem.
WaitTimeout(t) ==
  /\ Timed
  /\ Calling(t, "asleep")
  /\ cpc' = [cpc EXCEPT ![t] = "leave"]
  /\ cret' = [cret EXCEPT ![t] = "ETIME"]
  /\ owed' = owed \ {t}
  /\ UNCHANGED <<cond, posts, c_onwait, local>>

\* rc == 0: pthread_mutex_lock(mutex).
WaitRelock(t) ==
  /\ cpc[t] = "woken"
  /\ LockEnter(t)
  /\ CGoto(t, "relock")
  /\ UNCHANGED <<cond, posts, c_onwait, local, owed>>

\* The load of (*cond)->c_onwait--.
WaitUncount(t) ==
  /\ cpc[t] \in {"relock", "leave"}
  /\ Calling(t, cpc[t])
  /\ \/ Fault(t)
     \/ /\ cond # "null"
        /\ local' = [local EXCEPT ![t] = c_onwait]
        /\ cpc' = [cpc EXCEPT ![t] = "dec"]
        /\ cret' = IF cpc[t] = "relock" THEN [cret EXCEPT ![t] = ret[t]] ELSE cret
        /\ UNCHANGED <<cond, posts, c_onwait, owed>>

\* Its store, and the return.
WaitDone(t) ==
  /\ Calling(t, "dec")
  /\ \/ Fault(t)
     \/ /\ cond # "null"
        /\ c_onwait' = local[t] - 1
        /\ local' = [local EXCEPT ![t] = 0]
        /\ CGoto(t, "none")
        /\ UNCHANGED <<cond, posts, owed>>

-----------------------------------------------------------------------------
\* pthread_cond_signal; a post to a zeroed handle fails, which is ignored.
Signal(t) ==
  /\ Calling(t, "none")
  /\ \/ cond = "null" /\ CReturn(t, "EINVAL") /\ UNCHANGED <<posts, owed>>
     \/ cond = "live" /\ PostAndGoto(t, "none") /\ cret' = [cret EXCEPT ![t] = "ok"]
     \/ cond = "closing" /\ CReturn(t, "ok") /\ UNCHANGED <<posts, owed>>
  /\ UNCHANGED <<cond, c_onwait, local>>

\* pthread_cond_broadcast reads c_onwait and posts as often as that.  It does
\* not test for NULL: the application calls it on a handle it has not seen
\* destroyed.
BroadcastEnter(t) ==
  /\ Calling(t, "none")
  /\ cond # "null"
  /\ local' = [local EXCEPT ![t] = c_onwait]
  /\ owed' = owed \cup {u \in Waiting : cpc[u] \in {"unlock", "unlocked", "asleep"}}
  /\ CGoto(t, "post")
  /\ UNCHANGED <<cond, posts, c_onwait>>

\* One turn of while (i--).  From a negative i the loop does not come back
\* within any number of turns worth counting.
BroadcastPost(t) ==
  /\ Calling(t, "post")
  /\ local[t] # 0
  /\ \/ Fault(t)
     \/ /\ cond = "live" /\ PostAndGoto(t, "post")
        /\ local' = [local EXCEPT ![t] = IF @ > 0 THEN @ - 1 ELSE @]
        /\ UNCHANGED <<cond, c_onwait, cret>>
     \/ /\ cond = "closing" /\ CGoto(t, "post")
        /\ local' = [local EXCEPT ![t] = IF @ > 0 THEN @ - 1 ELSE @]
        /\ UNCHANGED <<cond, posts, c_onwait, owed>>

BroadcastDone(t) ==
  /\ Calling(t, "post")
  /\ local[t] = 0
  /\ CReturn(t, "ok")
  /\ UNCHANGED <<cond, posts, c_onwait, local, owed>>

(***************************************************************************)
(* pthread_cond_destroy zeroes c_event and closes the event in a loop that *)
(* answers "busy" (rc 301) with a post, then frees the record.             *)
(***************************************************************************)
DestroyCond(t) ==
  /\ Destroys
  /\ Calling(t, "none")
  /\ \/ cond = "live" /\ cond' = "closing" /\ CGoto(t, "destroy")
     \/ cond # "live" /\ CReturn(t, "EINVAL") /\ UNCHANGED cond
  /\ UNCHANGED <<posts, c_onwait, local, owed>>

DestroyPost(t) ==
  /\ Calling(t, "destroy")
  /\ Asleep # {}
  /\ PostAndGoto(t, "destroy")
  /\ UNCHANGED <<cond, c_onwait, local, cret>>

DestroyDone(t) ==
  /\ Calling(t, "destroy")
  /\ Asleep = {}
  /\ cond' = "null"
  /\ posts' = 0
  /\ CReturn(t, "ok")
  /\ UNCHANGED <<c_onwait, local, owed>>

-----------------------------------------------------------------------------
\* The application's own calls on the mutex.
AppLock(t)   == LockEnter(t) /\ hold[t] = 0
AppUnlock(t) == UnlockEnter(t) /\ Believes(t)

AppMutex(t) ==
  /\ cpc[t] = "none"
  /\ AppLock(t) \/ AppUnlock(t)
  /\ cret' = [cret EXCEPT ![t] = "none"]
  /\ UNCHANGED <<cond, posts, c_onwait, cpc, local, owed>>

CondCall(t) ==
  AppMutex(t) \/ InitCond(t) \/ WaitEnter(t) \/ Signal(t) \/ BroadcastEnter(t) \/ DestroyCond(t)

\* What a thread inside a call does next.
MutexStep(t) == (LockRequest(t) \/ LockGrant(t) \/ LockDone(t) \/ UnlockRelease(t))
                /\ UNCHANGED condOnly

CondStep(t) ==
  \/ MutexStep(t)
  \/ WaitCount(t) \/ WaitUnlock(t) \/ WaitSleep(t)
  \/ WaitRelock(t) \/ WaitUncount(t) \/ WaitDone(t)
  \/ BroadcastPost(t) \/ BroadcastDone(t)
  \/ DestroyPost(t) \/ DestroyDone(t)

\* A fault is the end of the process.
Faulted == \E t \in Threads : cpc[t] = "faulted"

CondNext == ~Faulted /\ \E t \in Threads : CondCall(t) \/ CondStep(t) \/ WaitTimeout(t)

CondSpec == CondInit /\ [][CondNext]_condVars

\* A thread inside a call goes on, unless it waits for somebody else; its
\* timeout may be far off.
CondFairness == \A t \in Threads : WF_condVars(~Faulted /\ CondStep(t))

CondFairSpec == CondSpec /\ CondFairness

-----------------------------------------------------------------------------
\* Between its ++ and its --, and nowhere else, a waiter is counted.  Both
\* are a load and a store; what keeps them whole is the mutex, which the
\* caller holds at the first and pthread_cond_wait has taken back at the
\* second.
WaitersCounted == c_onwait = Cardinality(Waiting)

\* pthread_cond_wait and _timedwait come back with the mutex held, whatever
\* they return.
WaitReturnsHolding ==
  [][\A t \in Threads : cpc[t] = "dec" /\ cpc'[t] = "none" => hold[t] = 1]_condVars

\* A wait that returns 0 comes back with the mutex held.
OkWaitHolds ==
  [][\A t \in Threads :
       cpc[t] = "dec" /\ cpc'[t] = "none" /\ cret[t] = "ok" => hold[t] = 1]_condVars

\* The loop of pthread_cond_broadcast brings all threads off the condition
\* queue: no thread that was waiting when it began sleeps when it is over.
BroadcastWakesAll ==
  (\A t \in Threads : cpc[t] # "post") => Asleep \cap owed = {}

\* The loop of pthread_cond_destroy around DosCloseEventSem ends.
CondDestroyReturns ==
  \A t \in Threads : (cpc[t] = "destroy") ~> (cpc[t] # "destroy" \/ Faulted)
=============================================================================
