------------------------------- MODULE OS2Sem -------------------------------
(***************************************************************************)
(* The OS/2 kernel mutex semaphore (HMTX) that the library stands on, as   *)
(* src/ uses it.  It is external code: the operators say what one kernel   *)
(* call does to one semaphore, and each call is atomic.                    *)
(*                                                                         *)
(* A semaphore is a record of its owner and of the number of requests that *)
(* owner has still to release.                                             *)
(***************************************************************************)
EXTENDS Pthreads, Naturals

CONSTANT
  OwnerReenters   \* does the kernel grant the request of a thread that
                  \* already owns the semaphore, counting it, or does that
                  \* request time out (rc 640) like anybody else's?

ASSUME ReenterAssumption == OwnerReenters \in BOOLEAN

HMTX == [owner : Threads \cup {NoThread}, count : Nat]

Free == [owner |-> NoThread, count |-> 0]

\* DosRequestMutexSem returns 0 to t without waiting.
Grantable(s, t) ==
  \/ s.owner = NoThread
  \/ OwnerReenters /\ s.owner = t

\* The semaphore after DosRequestMutexSem returned 0 to t.
Requested(s, t) == [owner |-> t, count |-> s.count + 1]

\* The semaphore after DosReleaseMutexSem: a caller that does not own it gets
\* an error code and changes nothing.
Released(s, t) ==
  IF s.owner # t THEN s
  ELSE IF s.count = 1 THEN Free
  ELSE [s EXCEPT !.count = @ - 1]
=============================================================================
