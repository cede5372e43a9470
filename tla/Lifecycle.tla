----------------------------- MODULE Lifecycle -----------------------------
(***************************************************************************)
(* The life of threads: pthread_create and the start of the new thread     *)
(* (uthread_create.c), pthread_exit, pthread_join, pthread_detach,         *)
(* pthread_suspend_np and pthread_resume_np.                               *)
(*                                                                         *)
(* Every thread has a record, on the list of live threads from the end of  *)
(* its creation to its exit, and on the list of dead ones from then on;    *)
(* both lists run through the same field, nxt.  A critical section         *)
(* (DosEnterCritSec) stops every other thread of the process, so what is   *)
(* inside one is one step; pthread_join, _suspend_np and _resume_np walk   *)
(* the list outside of any, one record a step.                             *)
(***************************************************************************)
EXTENDS Pthreads, Naturals, FiniteSets

CONSTANTS
  Main,          \* the thread the process starts with
  FreshStates,   \* what malloc may leave in the field state of a record
  FreshDetached, \* and in the flag PTHREAD_DETACHED of its attr
  Creators,      \* bound: the threads that create others
  Controllers    \* bound: the threads that detach, suspend and resume others

ASSUME MainAssumption == Main \in Threads

States == {"PS_RUNNING", "PS_JOIN", "PS_SUSPENDED", "PS_DEAD"}

ASSUME FreshAssumption      == FreshStates \subseteq States /\ FreshDetached \subseteq BOOLEAN
ASSUME BoundAssumption      == Creators \cup Controllers \subseteq Threads

VARIABLES
  link,      \* _thread_link_list
  dead,      \* _thread_dead
  nxt,       \* the field nxt of every record
  state,     \* the field state
  detached,  \* is PTHREAD_DETACHED set in attr.flags?
  saved,     \* has the field ret been set?
  alive,     \* the kernel's threads: "none", "runs" or "ended"
  frozen,    \* has the kernel suspended the thread?
  tid,       \* the field threadid, the kernel's number of the thread
  creator,   \* who called pthread_create
  attr,      \* the attributes asked for, until the thread has acted on
             \* them: detached? suspended?
  frame,     \* is create_info, on the creator's stack, still there?
  known,     \* does the application hold the handle of the thread?
  pc,        \* where each thread is
  arg,       \* the thread its last call is about
  walk       \* its place in a list

lists    == <<link, dead, nxt>>
record   == <<state, detached, saved>>
kernel   == <<alive, frozen, tid>>
creation == <<creator, attr, frame, known>>
lifeVars == <<lists, record, kernel, creation, pc, arg, walk>>

Default == [detached |-> FALSE, suspended |-> FALSE]

Nobody == [t \in Threads |-> NoThread]

\* Where each walk goes once it has found its thread.
Found == [joinwalk    |-> "joincheck", deadwalk   |-> "joincheck",
          suspendwalk |-> "suspend",   resumewalk |-> "resume"]

Places == {"none", "malloc", "post", "attr", "link", "state", "freeze", "thaw",
           "routine", "ack", "exit", "die", "end", "lost", "joincheck", "jointid",
           "joinwait", "garbage", "ESRCH",
           "suspend", "freezing", "mark", "resume", "thawing"}
          \cup DOMAIN Found

LifeTypeOK ==
  /\ {link, dead} \subseteq Threads \cup {NoThread}
  /\ nxt \in [Threads -> Threads \cup {NoThread}]
  /\ state \in [Threads -> States]
  /\ {detached, saved, frozen, frame, known} \subseteq [Threads -> BOOLEAN]
  /\ alive \in [Threads -> {"none", "runs", "ended"}]
  /\ tid \in [Threads -> 0..Cardinality(Threads)]
  /\ creator \in [Threads -> Threads \cup {NoThread}]
  /\ attr \in [Threads -> [detached : BOOLEAN, suspended : BOOLEAN]]
  /\ pc \in [Threads -> Places]
  /\ {arg, walk} \subseteq [Threads -> Threads \cup {NoThread}]

LifeInit ==
  /\ link = Main
  /\ dead = NoThread
  /\ nxt = Nobody
  /\ state = [t \in Threads |-> "PS_RUNNING"]
  /\ detached = [t \in Threads |-> FALSE]
  /\ saved = [t \in Threads |-> FALSE]
  /\ alive = [t \in Threads |-> IF t = Main THEN "runs" ELSE "none"]
  /\ frozen = [t \in Threads |-> FALSE]
  /\ tid = [t \in Threads |-> IF t = Main THEN 1 ELSE 0]
  /\ creator = Nobody
  /\ attr = [t \in Threads |-> Default]
  /\ frame = [t \in Threads |-> FALSE]
  /\ known = [t \in Threads |-> FALSE]
  /\ pc = [t \in Threads |-> IF t = Main THEN "routine" ELSE "none"]
  /\ arg = Nobody
  /\ walk = Nobody

-----------------------------------------------------------------------------
\* The kernel lets t go on, and t is at l.
Runs(t)  == alive[t] = "runs" /\ ~frozen[t]
At(t, l) == pc[t] = l /\ Runs(t)
Idle(t)  == pc[t] \in {"routine", "garbage", "ESRCH"} /\ Runs(t)

Goto(t, l) == pc' = [pc EXCEPT ![t] = l] /\ UNCHANGED <<arg, walk>>

\* The call of t returns; a join that fails or hands over garbage stays
\* visible in pc.
ReturnTo(t, l) ==
  /\ pc' = [pc EXCEPT ![t] = l]
  /\ arg' = [arg EXCEPT ![t] = NoThread]
  /\ walk' = [walk EXCEPT ![t] = NoThread]

Return(t) == ReturnTo(t, "routine")

NewState(t, s) == state' = [state EXCEPT ![t] = s]

\* The records that a list holds.
Chain(head) ==
  LET reach[n \in 0..Cardinality(Threads)] ==
        IF n = 0 THEN {head} \ {NoThread}
        ELSE reach[n-1] \cup ({nxt[x] : x \in reach[n-1]} \ {NoThread})
  IN reach[Cardinality(Threads)]

-----------------------------------------------------------------------------
(***************************************************************************)
(* Wrong versions of some operations, for trying the properties out.       *)
(***************************************************************************)
\* The numbers that the kernel gives are one too high, and never free again.
FreeNumberTooHigh == Cardinality({u \in Threads : alive[u] # "none"}) + 2

\* The thread joins the list of the dead before it has left the other.
ExitUnlinkLate(t) ==
  /\ At(t, "exit")
  /\ nxt' = [p \in Threads |-> IF p = t \/ nxt[p] = t THEN dead ELSE nxt[p]]
  /\ link' = IF link = t THEN dead ELSE link
  /\ dead' = t
  /\ Goto(t, "die")
  /\ UNCHANGED <<record, kernel, creation>>

\* The loop begins again at the end of the list.
WalkAgain(t) ==
  /\ pc[t] \in DOMAIN Found
  /\ Runs(t)
  /\ IF walk[t] = arg[t] THEN Goto(t, Found[pc[t]])
     ELSE /\ walk' = [walk EXCEPT ![t] = IF @ = NoThread THEN link ELSE nxt[@]]
          /\ UNCHANGED <<pc, arg>>
  /\ UNCHANGED <<lists, record, kernel, creation>>

\* DCWW_NOWAIT for DCWW_WAIT.
JoinWakeEarly(t) ==
  /\ At(t, "joinwait")
  /\ NewState(t, "PS_RUNNING")
  /\ ReturnTo(t, IF detached[arg[t]] THEN "ESRCH"
                 ELSE IF saved[arg[t]] THEN "routine" ELSE "garbage")
  /\ UNCHANGED <<lists, detached, saved, kernel, creation>>

\* The thread is marked as running, and stays suspended.
ResumeUnthawed(t) ==
  /\ At(t, "resume")
  /\ state' = [state EXCEPT ![arg[t]] = IF @ = "PS_SUSPENDED" THEN "PS_RUNNING" ELSE @]
  /\ Return(t)
  /\ UNCHANGED <<lists, detached, saved, kernel, creation>>

-----------------------------------------------------------------------------
(***************************************************************************)
(* pthread_create: u is created by t, which waits a second at most for u   *)
(* to acknowledge its start.  The kernel gives u the lowest free number.   *)
(***************************************************************************)
FreeNumber ==
  CHOOSE n \in 1..Cardinality(Threads) :
    /\ \A u \in Threads : alive[u] = "runs" => tid[u] # n
    /\ \A m \in 1..(n-1) : \E u \in Threads : alive[u] = "runs" /\ tid[u] = m

Create(t, u) ==
  /\ Idle(t)
  /\ alive[u] = "none"
  /\ alive' = [alive EXCEPT ![u] = "runs"]
  /\ tid' = [tid EXCEPT ![u] = FreeNumber]
  /\ creator' = [creator EXCEPT ![u] = t]
  /\ \E d, s \in BOOLEAN : attr' = [attr EXCEPT ![u] = [detached |-> d, suspended |-> s]]
  /\ frame' = [frame EXCEPT ![u] = TRUE]
  /\ arg' = [arg EXCEPT ![t] = u]
  /\ pc' = [pc EXCEPT ![t] = "ack", ![u] = "malloc"]
  /\ UNCHANGED <<lists, record, frozen, known, walk>>

\* The event could not be created, or the thread.
CreateFails(t) ==
  /\ Idle(t)
  /\ Return(t)
  /\ UNCHANGED <<lists, record, kernel, creation>>

\* _thread_create returns, and create_info is gone with its stack frame.
CreateReturns(t) ==
  /\ At(t, "ack")
  /\ \/ /\ pc[arg[t]] \notin {"malloc", "post"}
        /\ known' = [known EXCEPT ![arg[t]] = TRUE]
        /\ Return(t)
     \/ /\ pc[arg[t]] \in {"malloc", "post"}   \* a second has passed
        /\ Return(t)
        /\ UNCHANGED known
  /\ frame' = [frame EXCEPT ![arg[t]] = FALSE]
  /\ UNCHANGED <<lists, record, kernel, creator, attr>>

(***************************************************************************)
(* _thread_create2, in the new thread.  What it reads of create_info once  *)
(* the frame is gone is still there or is anything; then the thread may    *)
(* also be lost to the model, jumping into garbage.                        *)
(***************************************************************************)
Lost(u) ==
  /\ ~frame[u]
  /\ Goto(u, "lost")
  /\ alive' = [alive EXCEPT ![u] = "ended"]
  /\ UNCHANGED <<lists, record, frozen, tid, creation>>

\* malloc, the first fields, pthread_init.
NewRecord(u) ==
  /\ At(u, "malloc")
  /\ \/ /\ \E s \in FreshStates : NewState(u, s)
        /\ \E d \in FreshDetached : detached' = [detached EXCEPT ![u] = d]
        /\ Goto(u, "post")
        /\ UNCHANGED <<lists, saved, kernel, creation>>
     \/ Lost(u)

NewPost(u) ==
  /\ At(u, "post")
  /\ Goto(u, "attr")
  /\ UNCHANGED <<lists, record, kernel, creation>>

\* The memcpy of the attributes, and the read of the creator's priority.
NewAttr(u) ==
  /\ At(u, "attr")
  /\ \/ /\ \E d, s \in BOOLEAN :
             /\ frame[u] => attr[u] = [detached |-> d, suspended |-> s]
             /\ attr' = [attr EXCEPT ![u] = [detached |-> d, suspended |-> s]]
             /\ detached' = [detached EXCEPT ![u] = d]
        /\ Goto(u, "link")
        /\ UNCHANGED <<lists, state, saved, kernel, creator, frame, known>>
     \/ Lost(u)

NewLink(u) ==
  /\ At(u, "link")
  /\ nxt' = [nxt EXCEPT ![u] = link]
  /\ link' = u
  /\ Goto(u, "state")
  /\ UNCHANGED <<dead, record, kernel, creation>>

NewStart(u) ==
  /\ At(u, "state")
  /\ \/ attr[u].suspended  /\ NewState(u, "PS_SUSPENDED") /\ Goto(u, "freeze")
     \/ ~attr[u].suspended /\ NewState(u, "PS_RUNNING") /\ Goto(u, "routine")
  /\ attr' = [attr EXCEPT ![u] = Default]
  /\ UNCHANGED <<lists, detached, saved, kernel, creator, frame, known>>

NewFreeze(u) ==
  /\ At(u, "freeze")
  /\ frozen' = [frozen EXCEPT ![u] = TRUE]
  /\ Goto(u, "thaw")
  /\ UNCHANGED <<lists, record, alive, tid, creation>>

NewThaw(u) ==
  /\ At(u, "thaw")
  /\ Goto(u, "routine")
  /\ UNCHANGED <<lists, record, kernel, creation>>

-----------------------------------------------------------------------------
(***************************************************************************)
(* pthread_exit.  The exit of the main thread is the exit of the process,  *)
(* and what the cleanup handlers and the destructors do is module          *)
(* ThreadData.                                                             *)
(***************************************************************************)
Exit(t) ==
  /\ t # Main
  /\ Idle(t)
  /\ saved' = [saved EXCEPT ![t] = TRUE]
  /\ Goto(t, "exit")
  /\ UNCHANGED <<lists, state, detached, kernel, creation>>

\* In one critical section: off one list and on to the other.
ExitUnlink(t) ==
  /\ At(t, "exit")
  /\ LET rest == IF link = t THEN nxt
                 ELSE [p \in Threads |-> IF p \in Chain(link) /\ nxt[p] = t THEN nxt[t] ELSE nxt[p]]
     IN nxt' = [rest EXCEPT ![t] = dead]
  /\ link' = IF link = t THEN nxt[t] ELSE link
  /\ dead' = t
  /\ Goto(t, "die")
  /\ UNCHANGED <<record, kernel, creation>>

ExitDie(t) ==
  /\ At(t, "die")
  /\ NewState(t, "PS_DEAD")
  /\ Goto(t, "end")
  /\ UNCHANGED <<lists, detached, saved, kernel, creation>>

\* _endthread
ExitEnd(t) ==
  /\ At(t, "end")
  /\ alive' = [alive EXCEPT ![t] = "ended"]
  /\ UNCHANGED <<lists, record, frozen, tid, creation, pc, arg, walk>>

-----------------------------------------------------------------------------
(***************************************************************************)
(* The calls that look a thread up.                                        *)
(***************************************************************************)
LookUp(t, u, l) ==
  /\ Idle(t)
  /\ known[u]
  /\ arg' = [arg EXCEPT ![t] = u]
  /\ walk' = [walk EXCEPT ![t] = link]
  /\ pc' = [pc EXCEPT ![t] = l]
  /\ UNCHANGED <<lists, record, kernel, creation>>

Walk(t) ==
  /\ pc[t] \in DOMAIN Found
  /\ Runs(t)
  /\ \/ /\ walk[t] = arg[t]
        /\ Goto(t, Found[pc[t]])
     \/ /\ walk[t] \notin {arg[t], NoThread}
        /\ walk' = [walk EXCEPT ![t] = nxt[walk[t]]]
        /\ UNCHANGED <<pc, arg>>
     \/ /\ walk[t] = NoThread
        /\ \/ /\ pc[t] = "joinwalk"
              /\ walk' = [walk EXCEPT ![t] = dead]
              /\ pc' = [pc EXCEPT ![t] = "deadwalk"]
              /\ UNCHANGED arg
           \/ pc[t] = "deadwalk" /\ ReturnTo(t, "ESRCH")
           \/ pc[t] \in {"suspendwalk", "resumewalk"} /\ Return(t)   \* ESRCH
  /\ UNCHANGED <<lists, record, kernel, creation>>

\* pthread_join.  A thread joins only threads that it has created.
Join(t, u) == creator[u] = t /\ LookUp(t, u, "joinwalk")

\* What a join that returns 0 hands over: the result of the start routine,
\* or whatever the field ret holds.
Joined(t) == IF saved[arg[t]] THEN "routine" ELSE "garbage"

JoinCheck(t) ==
  /\ At(t, "joincheck")
  /\ \/ detached[arg[t]] /\ ReturnTo(t, "ESRCH") /\ UNCHANGED state
     \/ /\ ~detached[arg[t]]
        /\ state[arg[t]] # "PS_DEAD"
        /\ NewState(t, "PS_JOIN")
        /\ Goto(t, "jointid")
     \/ /\ ~detached[arg[t]]
        /\ state[arg[t]] = "PS_DEAD"
        /\ ReturnTo(t, Joined(t))
        /\ UNCHANGED state
  /\ UNCHANGED <<lists, detached, saved, kernel, creation>>

\* DosWaitThread(&tid, DCWW_WAIT) waits for the thread that has the number
\* now, or fails.  walk[t] is the thread it waits for.
JoinTid(t) ==
  /\ At(t, "jointid")
  /\ \/ \E u \in Threads :
          /\ alive[u] = "runs" /\ tid[u] = tid[arg[t]]
          /\ walk' = [walk EXCEPT ![t] = u]
     \/ /\ \A u \in Threads : alive[u] = "runs" => tid[u] # tid[arg[t]]
        /\ walk' = [walk EXCEPT ![t] = NoThread]
  /\ pc' = [pc EXCEPT ![t] = "joinwait"]
  /\ UNCHANGED <<lists, record, kernel, creation, arg>>

JoinWake(t) ==
  /\ At(t, "joinwait")
  /\ walk[t] # NoThread => alive[walk[t]] = "ended"
  /\ NewState(t, "PS_RUNNING")
  /\ ReturnTo(t, IF detached[arg[t]] THEN "ESRCH" ELSE Joined(t))
  /\ UNCHANGED <<lists, detached, saved, kernel, creation>>

\* pthread_detach; the handle it is passed becomes NULL.
Detach(t, u) ==
  /\ Idle(t)
  /\ known[u]
  /\ \/ detached[u] /\ Return(t) /\ UNCHANGED <<detached, known>>
     \/ /\ ~detached[u]
        /\ detached' = [detached EXCEPT ![u] = TRUE]
        /\ known' = [known EXCEPT ![u] = FALSE]
        /\ Return(t)
  /\ UNCHANGED <<lists, state, saved, kernel, creator, attr, frame>>

-----------------------------------------------------------------------------
\* pthread_suspend_np: the test of the state,
Suspend(t) ==
  /\ At(t, "suspend")
  /\ Goto(t, IF state[arg[t]] = "PS_RUNNING" THEN "freezing" ELSE "mark")
  /\ UNCHANGED <<lists, record, kernel, creation>>

\* DosSuspendThread, which fails on a thread that has ended,
SuspendFreeze(t) ==
  /\ At(t, "freezing")
  /\ frozen' = [frozen EXCEPT ![arg[t]] = @ \/ alive[arg[t]] = "runs"]
  /\ Goto(t, "mark")
  /\ UNCHANGED <<lists, record, alive, tid, creation>>

\* and the new state, in every case.
SuspendMark(t) ==
  /\ At(t, "mark")
  /\ NewState(arg[t], "PS_SUSPENDED")
  /\ Return(t)
  /\ UNCHANGED <<lists, detached, saved, kernel, creation>>

\* pthread_resume_np.  From any other state its EINVAL ends up as ESRCH.
Resume(t) ==
  /\ At(t, "resume")
  /\ \/ /\ state[arg[t]] = "PS_SUSPENDED"
        /\ NewState(arg[t], "PS_RUNNING")
        /\ Goto(t, "thawing")
     \/ state[arg[t]] = "PS_RUNNING" /\ Return(t) /\ UNCHANGED state
     \/ /\ state[arg[t]] \notin {"PS_SUSPENDED", "PS_RUNNING"}
        /\ Return(t)
        /\ UNCHANGED state
  /\ UNCHANGED <<lists, detached, saved, kernel, creation>>

ResumeThaw(t) ==
  /\ At(t, "thawing")
  /\ frozen' = [frozen EXCEPT ![arg[t]] = FALSE]
  /\ Return(t)
  /\ UNCHANGED <<lists, record, alive, tid, creation>>

-----------------------------------------------------------------------------
LifeCall(t) ==
  \/ t \in Creators /\ \E u \in Threads : Create(t, u)
  \/ t \in Creators /\ CreateFails(t)
  \/ \E u \in Threads : Join(t, u)
  \/ /\ t \in Controllers
     /\ \E u \in Threads : Detach(t, u) \/ LookUp(t, u, "suspendwalk") \/ LookUp(t, u, "resumewalk")

\* What a thread inside a call, or on its way into or out of its routine,
\* does next.
LifeStep(t) ==
  \/ CreateReturns(t)
  \/ NewRecord(t) \/ NewPost(t) \/ NewAttr(t) \/ NewLink(t) \/ NewStart(t)
  \/ NewFreeze(t) \/ NewThaw(t)
  \/ ExitUnlink(t) \/ ExitDie(t) \/ ExitEnd(t)
  \/ Walk(t) \/ JoinCheck(t) \/ JoinTid(t) \/ JoinWake(t)
  \/ Suspend(t) \/ SuspendFreeze(t) \/ SuspendMark(t) \/ Resume(t) \/ ResumeThaw(t)

LifeNext == \E t \in Threads : LifeCall(t) \/ LifeStep(t) \/ Exit(t)

\* A thread that the kernel lets run goes on, and every start routine
\* returns in the end, whatever calls it makes before.
LifeFairness == \A t \in Threads : WF_lifeVars(LifeStep(t)) /\ SF_lifeVars(Exit(t))

LifeSpec     == LifeInit /\ [][LifeNext]_lifeVars
LifeFairSpec == LifeSpec /\ LifeFairness

-----------------------------------------------------------------------------
\* The threads that have been put on _thread_link_list and are not past
\* pthread_exit, and those that are.
Exited == {t \in Threads : pc[t] \in {"die", "end"}}
Linked == {t \in Threads : alive[t] = "runs" /\ pc[t] \notin {"malloc", "post", "attr", "link"}}
          \ Exited

\* However creations and exits mix, each record is on the one list it
\* belongs to, and both lists end.
OnOneList ==
  /\ Chain(link) = Linked
  /\ Chain(dead) = Exited
  /\ \A head \in {link, dead} \ {NoThread} : \E x \in Chain(head) : nxt[x] = NoThread

\* A pthread_join that returns 0 hands over the result of the thread's start
\* routine, whether it found the thread alive, exiting or dead, and whoever
\* has its number by then.  The exception is a join that reads the state of
\* a record before the new thread has set it.
JoinGivesResult ==
  [][\A t \in Threads :
       pc'[t] = "garbage" /\ pc[t] # "garbage" => pc[arg[t]] = "state"]_lifeVars

\* A thread that is frozen with nobody at work on it can be resumed, unless
\* it froze itself: in its creation, or in pthread_suspend_np on itself.
OnlyOneselfStranded ==
  \A u \in Threads :
    /\ frozen[u]
    /\ \A t \in Threads : arg[t] = u => pc[t] \notin {"mark", "thawing"}
    => state[u] = "PS_SUSPENDED" \/ pc[u] = "thaw"

\* Every join returns, unless somebody is frozen: also the one whose
\* DosWaitThread waits for another thread that has got the number.
JoinReturns ==
  \A t \in Threads :
    pc[t] \in {"joinwalk", "deadwalk", "joincheck", "jointid", "joinwait"}
      ~> (pc[t] \in {"routine", "garbage", "ESRCH"} \/ \E u \in Threads : frozen[u])

\* A thread can be joined by the one that has created it: pthread_join does
\* not answer ESRCH for a thread that nobody has detached.
CreatedCanBeJoined ==
  [][\A t \in Threads :
       pc'[t] = "ESRCH" /\ pc[t] # "ESRCH" => detached[arg[t]]]_lifeVars
=============================================================================
