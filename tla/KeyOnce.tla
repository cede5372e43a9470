------------------------------ MODULE KeyOnce ------------------------------
(***************************************************************************)
(* What thread-specific data is for: threads that call pthread_once with   *)
(* an init_routine that creates keys, then set values of the keys, exit    *)
(* and have the values destroyed.                                          *)
(***************************************************************************)
EXTENDS Once, ThreadData

CONSTANTS
  NewKeys,   \* how many keys init_routine creates
  Users      \* bound: the threads that go on to use them

ASSUME UserAssumption == NewKeys \in Keys \cup {KeysMax} /\ Users \subseteq Threads

keyOnceVars == <<onceVars, dataVars>>

KeyOnceInit == OnceInit /\ DataInit

\* init_routine creates one key after the other and returns.
InitRoutine(t) ==
  /\ opc[t] = "running"
  /\ \/ Cardinality(made) < NewKeys /\ CreateKey(t) /\ UNCHANGED onceVars
     \/ Cardinality(made) = NewKeys /\ dpc[t] = "idle" /\ OnceInitialised(t) /\ UNCHANGED dataVars

\* Bound: the keys are used when every thread has come back from
\* pthread_once; one that came later would find state and go on.
Starts(t) ==
  /\ t \in Users
  /\ \A u \in Threads : opc[u] = "done"
  /\ Ready(t)
  /\ UNCHANGED onceVars

\* pthread_once, with init_routine in place of the step that abstracts it.
OncePart(t) ==
  /\ \/ OnceEnter(t) \/ OnceLock(t) \/ OnceTest(t) \/ OnceUnlock(t) \/ OnceReturn(t)
     \/ /\ LockRequest(t) \/ LockGrant(t) \/ LockDone(t) \/ UnlockRelease(t)
        /\ UNCHANGED <<state, opc, runs>>
  /\ UNCHANGED dataVars

KeyOnceStep(t) ==
  \/ OncePart(t) \/ InitRoutine(t) \/ Starts(t)
  \/ (DataStep(t) \/ ExitData(t)) /\ UNCHANGED onceVars

KeyOnceNext ==
  \E t \in Threads :
    \/ KeyOnceStep(t)
    \/ (CallbackReturns(t) \/ UserCall(t)) /\ UNCHANGED onceVars

\* Threads keep running, and callbacks return whatever they do before.
KeyOnceSpec ==
  /\ KeyOnceInit /\ [][KeyOnceNext]_keyOnceVars
  /\ \A t \in Threads :
       /\ WF_keyOnceVars(KeyOnceStep(t))
       /\ SF_keyOnceVars(CallbackReturns(t) /\ UNCHANGED onceVars)

-----------------------------------------------------------------------------
KeyOnceTypeOK == OnceTypeOK /\ DataTypeOK
=============================================================================
