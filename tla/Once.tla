-------------------------------- MODULE Once --------------------------------
(***************************************************************************)
(* uthread_once.c: threads that call pthread_once on one pthread_once_t,   *)
(* which holds a mutex of module Mutex.  init_routine is the application's *)
(* and takes its time.                                                     *)
(***************************************************************************)
EXTENDS Mutex, FiniteSets

CONSTANT StaticInit   \* is the pthread_once_t initialised by
                      \* PTHREAD_ONCE_INIT, whose mutex is NULL, or by hand,
                      \* with pthread_mutex_init?

ASSUME StaticAssumption == StaticInit \in BOOLEAN

VARIABLES
  state,   \* once_control->state
  opc,     \* where each thread is in pthread_once
  runs     \* the calls of init_routine so far

onceVars == <<mutexVars, state, opc, runs>>

OncePlaces == {"start", "lock", "locking", "running", "unlock", "unlocking", "done"}

OnceTypeOK ==
  /\ TypeOK
  /\ state \in {"PTHREAD_NEEDS_INIT", "PTHREAD_DONE_INIT"}
  /\ opc \in [Threads -> OncePlaces]
  /\ runs \in 0..Cardinality(Threads)

OnceInit ==
  /\ m_type = IF StaticInit THEN "null" ELSE FAST
  /\ m_owner = NoThread
  /\ m_count = 0
  /\ sem = Free
  /\ pc = [t \in Threads |-> "idle"]
  /\ ret = [t \in Threads |-> "none"]
  /\ hold = [t \in Threads |-> 0]
  /\ state = "PTHREAD_NEEDS_INIT"
  /\ opc = [t \in Threads |-> "start"]
  /\ runs = 0

OnceAt(t, l)   == opc[t] = l /\ pc[t] = "idle"
OnceGoto(t, l) == opc' = [opc EXCEPT ![t] = l]

\* Wrong versions of OnceTest below, as in Mutex: one trusts the first test,
\* one sets state before init_routine has returned.
OnceTestedOnce(t) ==
  /\ OnceAt(t, "locking")
  /\ runs' = runs + 1
  /\ OnceGoto(t, "running")
  /\ UNCHANGED <<mutexVars, state>>

OnceDoneEarly(t) ==
  /\ OnceAt(t, "locking")
  /\ state' = "PTHREAD_DONE_INIT"
  /\ \/ state = "PTHREAD_NEEDS_INIT" /\ runs' = runs + 1 /\ OnceGoto(t, "running")
     \/ state = "PTHREAD_DONE_INIT" /\ UNCHANGED runs /\ OnceGoto(t, "unlock")
  /\ UNCHANGED mutexVars

-----------------------------------------------------------------------------
\* The first test of state, outside the mutex.
OnceEnter(t) ==
  /\ OnceAt(t, "start")
  /\ OnceGoto(t, IF state = "PTHREAD_NEEDS_INIT" THEN "lock" ELSE "done")
  /\ UNCHANGED <<mutexVars, state, runs>>

\* pthread_mutex_lock, whose result is ignored.
OnceLock(t) ==
  /\ OnceAt(t, "lock")
  /\ LockEnter(t)
  /\ OnceGoto(t, "locking")
  /\ UNCHANGED <<state, runs>>

\* The second test, and the call of init_routine.
OnceTest(t) ==
  /\ OnceAt(t, "locking")
  /\ \/ state = "PTHREAD_NEEDS_INIT" /\ runs' = runs + 1 /\ OnceGoto(t, "running")
     \/ state = "PTHREAD_DONE_INIT" /\ UNCHANGED runs /\ OnceGoto(t, "unlock")
  /\ UNCHANGED <<mutexVars, state>>

\* init_routine has returned.
OnceInitialised(t) ==
  /\ OnceAt(t, "running")
  /\ state' = "PTHREAD_DONE_INIT"
  /\ OnceGoto(t, "unlock")
  /\ UNCHANGED <<mutexVars, runs>>

OnceUnlock(t) ==
  /\ OnceAt(t, "unlock")
  /\ UnlockEnter(t)
  /\ OnceGoto(t, "unlocking")
  /\ UNCHANGED <<state, runs>>

OnceReturn(t) ==
  /\ OnceAt(t, "unlocking")
  /\ OnceGoto(t, "done")
  /\ UNCHANGED <<mutexVars, state, runs>>

OnceStep(t) ==
  \/ OnceEnter(t) \/ OnceLock(t) \/ OnceTest(t) \/ OnceInitialised(t)
  \/ OnceUnlock(t) \/ OnceReturn(t)
  \/ /\ LockRequest(t) \/ LockGrant(t) \/ LockDone(t) \/ UnlockRelease(t)
     /\ UNCHANGED <<state, opc, runs>>

OnceNext == \E t \in Threads : OnceStep(t)

\* Every caller keeps running and init_routine returns.
OnceSpec == OnceInit /\ [][OnceNext]_onceVars /\ \A t \in Threads : WF_onceVars(OnceStep(t))

-----------------------------------------------------------------------------
\* init_routine is called once only, however many threads find the control
\* not initialised.
RunsOnce == runs <= 1

\* pthread_once returns to nobody before init_routine has, in whichever
\* thread it runs.
ReturnsInitialised ==
  (\E t \in Threads : opc[t] = "done") => \A u \in Threads : opc[u] # "running"

\* Every call of pthread_once returns.
OnceReturns == \A t \in Threads : <>(opc[t] = "done")
=============================================================================
