-------------------------------- MODULE Gate --------------------------------
(***************************************************************************)
(* The use a condition variable is made for, on top of Cond: threads wait  *)
(* under the mutex, in a loop, until a flag is set; another thread sets it *)
(* under the mutex and broadcasts, before or after it unlocks.  What the   *)
(* threads do outside the library is the application's; every call they    *)
(* make is the one of uthread_mutex.c or uthread_cond.c.                   *)
(***************************************************************************)
EXTENDS Cond

CONSTANT Waiters   \* the threads that wait; the others open

ASSUME WaitersAssumption == Waiters \subseteq Threads

VARIABLES
  open,   \* the flag the threads wait for
  apc     \* where each thread is in the application

gateVars == <<condVars, open, apc>>

Places == {"start", "locking", "waiting", "leave", "opened", "broadcast",
           "left", "finishing", "done"}

GateTypeOK ==
  /\ CondTypeOK
  /\ open \in BOOLEAN
  /\ apc \in [Threads -> Places]

\* The mutex and the condition variable have been initialised.
GateInit ==
  /\ m_type = FAST
  /\ m_owner = NoThread
  /\ m_count = 0
  /\ sem = Free
  /\ pc = [t \in Threads |-> "idle"]
  /\ ret = [t \in Threads |-> "none"]
  /\ hold = [t \in Threads |-> 0]
  /\ cond = "live"
  /\ posts = 0
  /\ c_onwait = 0
  /\ cpc = [t \in Threads |-> "none"]
  /\ local = [t \in Threads |-> 0]
  /\ cret = [t \in Threads |-> "none"]
  /\ owed = {}
  /\ open = FALSE
  /\ apc = [t \in Threads |-> "start"]

\* t is at place l and every call it made has returned.
At(t, l) == apc[t] = l /\ pc[t] = "idle" /\ cpc[t] = "none"

GoOn(t, l) == apc' = [apc EXCEPT ![t] = l]

-----------------------------------------------------------------------------
GateLock(t) ==
  /\ At(t, "start")
  /\ LockEnter(t)
  /\ GoOn(t, "locking")
  /\ UNCHANGED <<condOnly, open>>

\* while (!open) pthread_cond_wait(&cond, &mutex);
GateTest(t) ==
  /\ t \in Waiters
  /\ At(t, "locking") \/ At(t, "waiting")
  /\ \/ open /\ GoOn(t, "leave") /\ UNCHANGED condVars
     \/ ~open /\ WaitEnter(t) /\ GoOn(t, "waiting")
  /\ UNCHANGED open

GateOpen(t) ==
  /\ t \notin Waiters
  /\ At(t, "locking")
  /\ open' = TRUE
  /\ GoOn(t, "opened")
  /\ UNCHANGED condVars

\* The broadcast, with the mutex held or after it.
GateBroadcast(t) ==
  /\ \/ At(t, "opened") /\ GoOn(t, "broadcast")
     \/ At(t, "left") /\ GoOn(t, "finishing")
  /\ BroadcastEnter(t)
  /\ UNCHANGED open

GateUnlock(t) ==
  /\ \/ (At(t, "leave") \/ At(t, "broadcast")) /\ GoOn(t, "finishing")
     \/ At(t, "opened") /\ GoOn(t, "left")
  /\ UnlockEnter(t)
  /\ UNCHANGED <<condOnly, open>>

GateDone(t) ==
  /\ At(t, "finishing")
  /\ GoOn(t, "done")
  /\ UNCHANGED <<condVars, open>>

\* Signals that have nothing to do with the flag wake waiters for nothing,
\* or leave a post behind.  Bound: one post at a time is left behind.
GateSignal(t) ==
  /\ t \notin Waiters
  /\ At(t, "start")
  /\ posts = 0
  /\ Signal(t)
  /\ UNCHANGED <<open, apc>>

GateStep(t) ==
  \/ GateLock(t) \/ GateTest(t) \/ GateOpen(t) \/ GateBroadcast(t)
  \/ GateUnlock(t) \/ GateDone(t)
  \/ CondStep(t) /\ UNCHANGED <<open, apc>>

GateNext == \E t \in Threads : GateStep(t) \/ GateSignal(t)

(***************************************************************************)
(* Every thread keeps running, and the kernel does not pass a thread that  *)
(* waits for the mutex over for ever.                                      *)
(***************************************************************************)
GateSpec ==
  /\ GateInit
  /\ [][GateNext]_gateVars
  /\ \A t \in Threads :
       /\ WF_gateVars(GateStep(t))
       /\ SF_gateVars(LockGrant(t) /\ UNCHANGED <<condOnly, open, apc>>)

-----------------------------------------------------------------------------
\* Once the flag is set every waiter gets past: no wake-up of
\* pthread_cond_broadcast is lost, be a waiter asleep, on its way from its
\* unlock to DosWaitEventSem, or not there yet.
EverybodyPasses == \A t \in Threads : <>(apc[t] = "done")
=============================================================================
