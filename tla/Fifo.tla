------------------------------- MODULE Fifo -------------------------------
(***************************************************************************)
(* What the queues of uthread_queue.c promise: each is a sequence of       *)
(* threads, first in, first out, from which a thread can also be taken     *)
(* out of turn; a plain list only loses elements one by one.               *)
(***************************************************************************)
EXTENDS Pthreads, SequencesExt

CONSTANTS
  Queues,        \* the thread queues
  PlainLists     \* lists that have a head only

VARIABLES
  contents,      \* the threads on each, in order
  answer         \* what the last operation has returned

fifoVars == <<contents, answer>>

Members(s) == {s[i] : i \in DOMAIN s}
IsFree(t)  == \A l \in Queues \cup PlainLists : t \notin Members(contents[l])

FifoInit ==
  /\ contents = [l \in Queues \cup PlainLists |-> <<>>]
  /\ answer = NoThread

Put(l, s, a) == answer' = a /\ contents' = [contents EXCEPT ![l] = s]

FifoEnq(q, t) == IsFree(t) /\ Put(q, Append(contents[q], t), NoThread)

FifoPush(l, t) == IsFree(t) /\ Put(l, <<t>> \o contents[l], NoThread)

FifoGet(q) ==
  /\ answer' = IF contents[q] = <<>> THEN NoThread ELSE Head(contents[q])
  /\ UNCHANGED contents

FifoDeq(q) ==
  \/ contents[q] = <<>> /\ Put(q, <<>>, NoThread)
  \/ contents[q] # <<>> /\ Put(q, Tail(contents[q]), Head(contents[q]))

FifoRemove(l, t) ==
  \/ t \notin Members(contents[l]) /\ Put(l, contents[l], -1)
  \/ \E i \in DOMAIN contents[l] :
       contents[l][i] = t /\ Put(l, RemoveAt(contents[l], i), 0)

FifoNext ==
  \/ \E q \in Queues : FifoGet(q) \/ FifoDeq(q) \/ \E t \in Threads : FifoEnq(q, t)
  \/ \E l \in PlainLists, t \in Threads : FifoPush(l, t)
  \/ \E l \in Queues \cup PlainLists, t \in Threads : FifoRemove(l, t)

FifoSpec == FifoInit /\ [][FifoNext]_fifoVars
=============================================================================
