------------------------------- MODULE Queue -------------------------------
(***************************************************************************)
(* The thread queues of uthread_queue.c.  A queue is a pair of pointers    *)
(* and the field qnxt of the threads on it; every operation is one         *)
(* critical section.  pthread_llist_remove works on lists that have a head *)
(* and use the same field.  Nothing in the library calls these operations  *)
(* any more; the callers here keep to what struct pthread says: "The       *)
(* current thread can belong to only one queue at a time."                 *)
(***************************************************************************)
EXTENDS Pthreads, Integers, FiniteSets, Sequences

CONSTANTS
  Queues,        \* the thread queues
  PlainLists,    \* the lists pthread_llist_remove is for
  NoQueue        \* the NULL queue pointer

ASSUME QueueAssumption == Queues \cap PlainLists = {} /\ NoQueue \notin Queues

VARIABLES
  next,      \* q_next of every queue, and the head of every plain list
  last,      \* q_last of every queue
  qnxt,      \* the field qnxt of every thread
  queue,     \* the field queue of every thread
  answer     \* what the last operation has returned

queueVars == <<next, last, qnxt, queue, answer>>

QueueTypeOK ==
  /\ next \in [Queues \cup PlainLists -> Threads \cup {NoThread}]
  /\ last \in [Queues -> Threads \cup {NoThread}]
  /\ qnxt \in [Threads -> Threads \cup {NoThread}]
  /\ queue \in [Threads -> Queues \cup {NoQueue}]
  /\ answer \in Threads \cup {NoThread, 0, -1}

\* The threads from x on, as the field f leads from one to the next.
From(f, x) ==
  LET walk[n \in 0..Cardinality(Threads)] ==
        IF n = 0 THEN <<>>
        ELSE LET s == walk[n-1]
                 y == IF s = <<>> THEN x ELSE f[s[Len(s)]]
             IN IF y = NoThread THEN s ELSE Append(s, y)
  IN walk[Cardinality(Threads)]

On(l)    == LET s == From(qnxt, next[l]) IN {s[i] : i \in DOMAIN s}
IsFree(t) == queue[t] = NoQueue /\ \A l \in PlainLists : t \notin On(l)

QueueInit ==
  /\ next = [l \in Queues \cup PlainLists |-> NoThread]
  /\ last = [q \in Queues |-> NoThread]
  /\ qnxt = [t \in Threads |-> NoThread]
  /\ queue = [t \in Threads |-> NoQueue]
  /\ answer = NoThread

-----------------------------------------------------------------------------
(***************************************************************************)
(* Wrong versions of some operations, for trying the properties out.       *)
(***************************************************************************)
\* The last thread leaves and q_last still points to it.
DeqKeepsLast(q) ==
  /\ answer' = next[q]
  /\ next[q] # NoThread
  /\ next' = [next EXCEPT ![q] = qnxt[@]]
  /\ queue' = [queue EXCEPT ![next[q]] = NoQueue]
  /\ qnxt' = [qnxt EXCEPT ![next[q]] = NoThread]
  /\ UNCHANGED last

\* Last in, first out.
EnqAtHead(q, t) ==
  /\ IsFree(t)
  /\ qnxt' = [qnxt EXCEPT ![t] = next[q]]
  /\ next' = [next EXCEPT ![q] = t]
  /\ last' = [last EXCEPT ![q] = IF @ = NoThread THEN t ELSE @]
  /\ queue' = [queue EXCEPT ![t] = q]
  /\ answer' = NoThread

\* Nothing found is 1.
RemoveAnswersOne(q, t) == answer' = IF t \in On(q) THEN 0 ELSE 1

-----------------------------------------------------------------------------
\* _thread_queue_enq
Enq(q, t) ==
  /\ IsFree(t)
  /\ \/ /\ last[q] # NoThread
        /\ qnxt' = [qnxt EXCEPT ![last[q]] = t, ![t] = NoThread]
        /\ UNCHANGED next
     \/ /\ last[q] = NoThread
        /\ next' = [next EXCEPT ![q] = t]
        /\ qnxt' = [qnxt EXCEPT ![t] = NoThread]
  /\ last' = [last EXCEPT ![q] = t]
  /\ queue' = [queue EXCEPT ![t] = q]
  /\ answer' = NoThread

\* _thread_queue_get
Get(q) == answer' = next[q] /\ UNCHANGED <<next, last, qnxt, queue>>

\* _thread_queue_deq
Deq(q) ==
  \/ next[q] = NoThread /\ answer' = NoThread /\ UNCHANGED <<next, last, qnxt, queue>>
  \/ LET t == next[q]
     IN /\ t # NoThread
        /\ next' = [next EXCEPT ![q] = qnxt[t]]
        /\ last' = [last EXCEPT ![q] = IF qnxt[t] = NoThread THEN NoThread ELSE @]
        /\ queue' = [queue EXCEPT ![t] = NoQueue]
        /\ qnxt' = [qnxt EXCEPT ![t] = NoThread]
        /\ answer' = t

\* What points to t on the list l points past it; t's own field is
\* changed by some callers and left by others.
PointPast(l, t, own) ==
  /\ next' = [next EXCEPT ![l] = IF @ = t THEN qnxt[t] ELSE @]
  /\ qnxt' = [x \in Threads |-> IF x = t THEN own
                                ELSE IF x \in On(l) /\ qnxt[x] = t THEN qnxt[t] ELSE qnxt[x]]

\* The end of the queue moves back to the thread before t.
UnlinkLast(q, t) ==
  /\ qnxt[t] = NoThread
  /\ last' = [last EXCEPT ![q] = IF next[q] = t THEN NoThread
                                 ELSE CHOOSE x \in On(q) : qnxt[x] = t]

RemoveAnswer(q, t) == answer' = IF t \in On(q) THEN 0 ELSE -1

\* _thread_queue_remove, of a thread that is on no other queue.
Remove(q, t) ==
  /\ queue[t] = q \/ IsFree(t)
  /\ \/ /\ t \in On(q)
        /\ PointPast(q, t, NoThread)
        /\ UnlinkLast(q, t) \/ (qnxt[t] # NoThread /\ UNCHANGED last)
     \/ /\ t \notin On(q)
        /\ qnxt' = [qnxt EXCEPT ![t] = NoThread]
        /\ UNCHANGED <<next, last>>
  /\ queue' = [queue EXCEPT ![t] = NoQueue]
  /\ RemoveAnswer(q, t)

\* A caller puts t at the head of a plain list.
Push(l, t) ==
  /\ IsFree(t)
  /\ next' = [next EXCEPT ![l] = t]
  /\ qnxt' = [qnxt EXCEPT ![t] = next[l]]
  /\ answer' = NoThread
  /\ UNCHANGED <<last, queue>>

\* pthread_llist_remove, which leaves the thread's own qnxt alone.
LlistRemove(l, t) ==
  /\ \/ t \in On(l) /\ PointPast(l, t, qnxt[t])
     \/ t \notin On(l) /\ UNCHANGED <<next, qnxt>>
  /\ RemoveAnswer(l, t)
  /\ UNCHANGED <<last, queue>>

QueueNext ==
  \/ \E q \in Queues : Get(q) \/ Deq(q) \/ \E t \in Threads : Enq(q, t) \/ Remove(q, t)
  \/ \E l \in PlainLists, t \in Threads : Push(l, t) \/ LlistRemove(l, t)

QueueSpec == QueueInit /\ [][QueueNext]_queueVars

-----------------------------------------------------------------------------
\* The field queue of a thread names the queue it is on, and q_last the
\* thread at its end, whatever mixture of enqueueing, dequeueing and removal
\* has led there.
WellLinked ==
  \A q \in Queues :
    /\ \A t \in Threads : queue[t] = q <=> t \in On(q)
    /\ IF next[q] = NoThread THEN last[q] = NoThread
       ELSE last[q] \in On(q) /\ qnxt[last[q]] = NoThread

F == INSTANCE Fifo WITH contents <- [l \in Queues \cup PlainLists |-> From(qnxt, next[l])]

\* Every operation does to the linked threads what it should do to a
\* sequence, and returns what it should: uthread_queue.c.
ImplementsFifo == F!FifoSpec
=============================================================================
