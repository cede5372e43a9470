---------------------------- MODULE AbstractMutex ----------------------------
(***************************************************************************)
(* What pthread_mutex_* promises an application: a recursive lock that one *)
(* thread holds at a time, and answers that a caller may rely on.  There   *)
(* is no kernel semaphore, no owner field and no step inside a call here.  *)
(***************************************************************************)
EXTENDS Naturals

CONSTANTS Threads, NoThread

VARIABLES
  holder,   \* the thread that holds the lock
  depth,    \* how often it has locked it
  result    \* what each thread's last call returned

vars == <<holder, depth, result>>

Init ==
  /\ holder = NoThread
  /\ depth = 0
  /\ result = [t \in Threads |-> "none"]

Answer(t, r) == result' = [result EXCEPT ![t] = r]

\* A lock is taken when nobody holds it, or once more by its holder.
Acquire(t) ==
  /\ holder \in {NoThread, t}
  /\ holder' = t
  /\ depth' = depth + 1
  /\ Answer(t, "ok")

\* All locks but the last are given back; the call returns at once.
Leave(t) ==
  /\ holder = t
  /\ depth > 1
  /\ depth' = depth - 1
  /\ Answer(t, "ok")
  /\ UNCHANGED holder

\* The holder gives the lock up, by its last unlock or by destroying the
\* mutex; the call returns later.
Abandon(t) ==
  /\ holder = t
  /\ holder' = NoThread
  /\ depth' = 0
  /\ UNCHANGED result

\* An error tells its caller something about who holds the lock.
Refuse(t) ==
  /\ \/ Answer(t, "EDEADLK") /\ holder = t
     \/ Answer(t, "EPERM")   /\ holder # t
     \/ Answer(t, "EINVAL")  /\ holder # t
     \/ Answer(t, "ENOMEM")  /\ holder = NoThread
     \/ Answer(t, "EBUSY")
  /\ UNCHANGED <<holder, depth>>

\* An initialisation, an unlock or a destruction is over.
Finish(t) ==
  /\ holder # t
  /\ Answer(t, "ok")
  /\ UNCHANGED <<holder, depth>>

Next == \E t \in Threads :
          Acquire(t) \/ Leave(t) \/ Abandon(t) \/ Refuse(t) \/ Finish(t)

Spec == Init /\ [][Next]_vars
=============================================================================
