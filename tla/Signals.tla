------------------------------ MODULE Signals ------------------------------
(***************************************************************************)
(* Signals between the threads of the process: pthread_kill, _raise,       *)
(* _sigaction, _signal, _sigmask, the delivery of pending signals          *)
(* (uthread_init.c), pthread_yield, and the calls that a signal is to end: *)
(* pthread_sleep, _pause, _sigsuspend, _read, _write and locking.          *)
(*                                                                         *)
(* A signal is pending for a thread from the kill on and its handler runs  *)
(* in the thread itself, inside a later call of the library.  The kernel   *)
(* (EMX) knows of thread 1 only: a signal for it while it runs goes        *)
(* through the kernel and interrupts it anywhere.                          *)
(***************************************************************************)
EXTENDS Pthreads, Naturals, Sequences, FiniteSetsExt

CONSTANTS
  Main,         \* thread 1
  Sigs,         \* the valid signals
  Fatal,        \* those whose dfl_action is not ST_IGNORE
  AlwaysFatal,  \* those whose fun_action is ST_TERM
  SaMask,       \* the sa_mask of every handler without SA_SYSV and SA_ACK
  Installed,    \* bound: the handlers that the threads may start with
  NewModes,     \* bound: those it may install later
  Masks,        \* bound: the sets given to sigmask and sigsuspend
  MainCalls,    \* bound: the calls that thread 1 makes
  OtherCalls    \* and those of every other

Dispositions == {"DFL", "IGN", "SYSV", "ACK", "BSD"}

ASSUME SignalAssumption ==
  /\ Main \in Threads
  /\ Sigs \subseteq Nat \ {0}
  /\ Fatal \cup AlwaysFatal \cup SaMask \subseteq Sigs
  /\ Installed \subseteq [Sigs -> Dispositions] /\ NewModes \subseteq Dispositions
  /\ Masks \subseteq SUBSET Sigs
  /\ {MainCalls, OtherCalls} \subseteq Nat

VARIABLES
  signals,   \* tp.signals: SIG_DFL, SIG_IGN or a handler with its flags
  pending,   \* tp.sig_pending
  blocked,   \* tp.sig_blocked
  noted,     \* is the count sig_pending of the thread above zero?
  state,     \* the field state
  posted,    \* has the event data.sleep.abort been posted?
  pc,        \* where each thread is
  then,      \* where it goes after the delivery of its pending signals
  call,      \* the kill it is in: target, signal, what there is to do
  frames,    \* its handlers that have not returned, the last on top
  owed,      \* the signals the kernel has for thread 1
  left,      \* the calls they may still make
  own,       \* its mask as it last asked for it, before any handler
  unacked,   \* the signals whose SA_ACK handler has not acknowledged
  old,       \* old_blocked of pthread_sigsuspend
  ended      \* has the process been terminated?

masks   == <<signals, pending, blocked, noted>>
places  == <<state, posted, pc, then, call, left>>
asked   == <<own, unacked, old>>
sigVars == <<masks, places, frames, owed, asked, ended>>

\* The state of a thread in each call that a signal is to end.
Waits == [sleep   |-> "PS_SLEEP_WAIT", pause |-> "PS_SIGWAIT",
          suspend |-> "PS_SIGWAIT",    fd    |-> "PS_FDR_WAIT",
          lock    |-> "PS_FDLR_WAIT",  select |-> "PS_SELECT_WAIT"]

WaitStates == {Waits[w] : w \in DOMAIN Waits}

OnEvent == {"sleep", "pause", "suspend", "select"}   \* waits for data.sleep.abort

InKill == {"add", "tell", "leave"}

NoCall == [target |-> NoThread, sig |-> 0, how |-> "none"]

SigPlaces == {"run", "deliver", "restore", "selecting", "giveup", "collect", "selected",
              "sleep", "pause", "suspend", "fd", "lock", "select"} \cup InKill

\* Where a thread may be sent after the delivery of its signals.
Thens == {"run", "restore", "selecting"}

Frames == [sig : Sigs, mode : Dispositions, old : SUBSET Sigs, pc : SigPlaces \ InKill,
           then : Thens, kernel : BOOLEAN, acked : BOOLEAN]

SigTypeOK ==
  /\ signals \in [Threads -> [Sigs -> Dispositions]]
  /\ {pending, blocked, own, unacked, old} \subseteq [Threads -> SUBSET Sigs]
  /\ {noted, posted} \subseteq [Threads -> BOOLEAN]
  /\ state \in [Threads -> WaitStates \cup {"PS_RUNNING", "PS_DEAD"}]
  /\ pc \in [Threads -> SigPlaces]
  /\ then \in [Threads -> Thens]
  /\ call \in [Threads -> [target : Threads \cup {NoThread}, sig : Sigs \cup {0},
                           how : {"none", "post", "both", "cancel", "kernel", "note"}]]
  /\ frames \in [Threads -> Seq(Frames)]
  /\ owed \in SUBSET Sigs
  /\ left \in [Threads -> Nat]
  /\ ended \in BOOLEAN

\* The threads have been set up (pthread_init, which sets every signal to
\* SIG_DFL) and the application has installed its handlers.
SigInit ==
  /\ \E h \in Installed : signals = [t \in Threads |-> h]
  /\ pending = [t \in Threads |-> {}]
  /\ blocked = [t \in Threads |-> {}]
  /\ noted = [t \in Threads |-> FALSE]
  /\ state = [t \in Threads |-> "PS_RUNNING"]
  /\ posted = [t \in Threads |-> FALSE]
  /\ pc = [t \in Threads |-> "run"]
  /\ then = [t \in Threads |-> "run"]
  /\ call = [t \in Threads |-> NoCall]
  /\ frames = [t \in Threads |-> <<>>]
  /\ owed = {}
  /\ left = [t \in Threads |-> IF t = Main THEN MainCalls ELSE OtherCalls]
  /\ own = [t \in Threads |-> {}]
  /\ unacked = [t \in Threads |-> {}]
  /\ old = [t \in Threads |-> {}]
  /\ ended = FALSE

-----------------------------------------------------------------------------
At(t, l)   == pc[t] = l /\ ~ended
Outside(t) == frames[t] = <<>>         \* in no handler
Top(t)     == frames[t][Len(frames[t])]

\* _signals_blocked, a count of the whole process: some thread is between
\* _thread_kern_sig_block and _thread_kern_sig_unblock.
SignalsBlocked(except) == \E t \in Threads \ except : pc[t] \in InKill

Goto(t, l)      == pc' = [pc EXCEPT ![t] = l]
Block(t, s)     == blocked' = [blocked EXCEPT ![t] = s]
NewState(t, s)  == state' = [state EXCEPT ![t] = s]
Note(t)         == noted' = [noted EXCEPT ![t] = TRUE]
AddPending(t, s) == pending' = [pending EXCEPT ![t] = @ \cup {s}]
DelPending(t, s) == pending' = [pending EXCEPT ![t] = @ \ {s}]
Spend(t)        == left[t] > 0 /\ left' = [left EXCEPT ![t] = @ - 1]
Push(t, f)      == frames' = [frames EXCEPT ![t] = Append(@, f)]
Pop(t)          == frames' = [frames EXCEPT ![t] = SubSeq(@, 1, Len(@) - 1)]

\* sig_pending = 0; _sys_deliver_pending_signals(&self->tp), and on to l.
DeliverPending(t, l) ==
  /\ noted' = [noted EXCEPT ![t] = FALSE]
  /\ Goto(t, "deliver")
  /\ then' = [then EXCEPT ![t] = l]

\* The same if no thread of the process holds signals back; else note it.
DeliverOrNote(t) ==
  IF SignalsBlocked({}) THEN Note(t) /\ UNCHANGED <<pc, then>>
                        ELSE DeliverPending(t, "run")

\* uthread_terminate: whatever thread 1 waits for is ended, and so is the
\* process.
Terminate(t) ==
  /\ state' = [u \in Threads |-> IF u = t THEN "PS_DEAD"
                                 ELSE IF u = Main THEN "PS_RUNNING" ELSE state[u]]
  /\ ended' = TRUE
  /\ UNCHANGED <<signals, blocked, then, call, left, asked>>

-----------------------------------------------------------------------------
(***************************************************************************)
(* Wrong versions of some operations, for trying the properties out.       *)
(***************************************************************************)
\* The handler runs with its own signal still open.
BlockedInOpen(t, s) ==
  CASE signals[t][s] = "SYSV" -> blocked[t]
    [] signals[t][s] = "ACK"  -> blocked[t] \cup {s}
    [] signals[t][s] = "BSD"  -> blocked[t] \cup SaMask

\* The mask of before the handler does not come back.
BlockedAfterKept(t, f) == blocked[t]

\* A thread in pause or sigsuspend is not woken.
PostSleepers(t) == posted' = [posted EXCEPT ![t] = @ \/ state[t] = "PS_SLEEP_WAIT"]

-----------------------------------------------------------------------------
\* An event exists to be posted while a thread waits for one.
Post(t) == posted' = [posted EXCEPT ![t] = @ \/ state[t] \in {Waits[w] : w \in OnEvent}]

(***************************************************************************)
(* uthread_deliver_signal: what becomes of signal s of thread t, which     *)
(* then goes back to pc.                                                   *)
(***************************************************************************)
\* The mask while a handler runs, and once it has returned.
BlockedIn(t, s) ==
  CASE signals[t][s] = "SYSV" -> blocked[t]
    [] signals[t][s] = "ACK"  -> blocked[t] \cup {s}
    [] signals[t][s] = "BSD"  -> blocked[t] \cup {s} \cup SaMask

BlockedAfter(t, f) == IF f.mode = "BSD" THEN f.old ELSE blocked[t]

Handles(t, s) == signals[t][s] \notin {"DFL", "IGN"}
Kills(t, s)   == /\ ~Handles(t, s)
                 /\ s \in AlwaysFatal \cup (IF signals[t][s] = "DFL" THEN Fatal ELSE {})

Deliver(t, s, back, kernel) ==
  /\ DelPending(t, s)
  /\ \/ Kills(t, s) /\ Terminate(t) /\ UNCHANGED <<pc, frames>>
     \/ ~Handles(t, s) /\ ~Kills(t, s) /\ Goto(t, back)
        /\ UNCHANGED <<signals, blocked, state, then, call, left, frames, asked, ended>>
     \/ /\ Handles(t, s)
        /\ Push(t, [sig |-> s, mode |-> signals[t][s], old |-> blocked[t], pc |-> back,
                    then |-> then[t], kernel |-> kernel, acked |-> FALSE])
        /\ Block(t, BlockedIn(t, s))
        /\ signals' = IF signals[t][s] = "SYSV" THEN [signals EXCEPT ![t][s] = "DFL"]
                                                ELSE signals
        /\ Goto(t, "run")
        /\ UNCHANGED <<state, then, call, left, asked, ended>>

\* _sys_deliver_pending_signals: the lowest first, until none is left that
\* is not blocked.
DeliverNext(t) ==
  /\ At(t, "deliver")
  /\ pending[t] \ blocked[t] # {}
  /\ Deliver(t, Min(pending[t] \ blocked[t]), "deliver", FALSE)
  /\ UNCHANGED <<noted, posted, owed>>

DeliverEnd(t) ==
  /\ At(t, "deliver")
  /\ pending[t] \subseteq blocked[t]
  /\ Goto(t, then[t])
  /\ then' = [then EXCEPT ![t] = "run"]
  /\ UNCHANGED <<masks, state, posted, call, left, frames, owed, asked, ended>>

\* The handler returns to uthread_deliver_signal, and that to its caller.
HandlerReturns(t) ==
  /\ At(t, "run") /\ ~Outside(t)
  /\ LET f == Top(t)
     IN \/ f.sig \in AlwaysFatal /\ Terminate(t) /\ UNCHANGED <<pc, frames>>
        \/ /\ f.sig \notin AlwaysFatal
           /\ Pop(t)
           /\ Block(t, BlockedAfter(t, f))
           /\ Goto(t, f.pc)
           /\ then' = [then EXCEPT ![t] = f.then]
           /\ unacked' = [unacked EXCEPT ![t] = @ \cup {s \in blocked[t] : f.mode = "ACK" /\ s = f.sig}]
           /\ UNCHANGED <<signals, state, call, left, own, old, ended>>
  /\ UNCHANGED <<pending, noted, posted, owed>>

\* uthread_emx_sighandler: the kernel interrupts thread 1, outside of its
\* must-complete sections, with a signal that it does not block itself.
EmxHandler(s) ==
  /\ s \in owed /\ ~ended
  /\ pc[Main] \notin InKill
  /\ s \notin own[Main]
  /\ \A i \in DOMAIN frames[Main] : ~(frames[Main][i].kernel /\ frames[Main][i].sig = s)
  /\ owed' = owed \ {s}
  /\ Post(Main)
  /\ IF SignalsBlocked({})
     THEN /\ AddPending(Main, s) /\ Note(Main)
          /\ UNCHANGED <<signals, blocked, state, pc, then, call, left, frames, asked, ended>>
     ELSE /\ Deliver(Main, s, pc[Main], TRUE)
          /\ UNCHANGED noted

-----------------------------------------------------------------------------
(***************************************************************************)
(* pthread_kill, from inside or outside of a handler.                      *)
(***************************************************************************)
\* What the state of the thread says there is to do.
How(u) ==
  CASE state[u] \in {"PS_SLEEP_WAIT", "PS_SIGWAIT"} -> "post"
    [] state[u] = "PS_SELECT_WAIT"                  -> "both"
    [] state[u] = "PS_FDR_WAIT"                     -> "cancel"
    [] state[u] = "PS_RUNNING" /\ u = Main          -> "kernel"
    [] OTHER                                        -> "note"

KillEnter(t) ==
  /\ At(t, "run") /\ Spend(t)
  /\ \E u \in Threads, s \in Sigs :
       LET how == IF signals[u][s] = "IGN" THEN "none" ELSE How(u)
       IN /\ call' = [call EXCEPT ![t] = [target |-> u, sig |-> s, how |-> how]]
          /\ Goto(t, CASE how = "none"   -> "leave"
                       [] how = "kernel" -> "tell"
                       [] OTHER          -> "add")
  /\ UNCHANGED <<masks, state, posted, then, frames, owed, asked, ended>>

KillAdd(t) ==
  /\ At(t, "add")
  /\ AddPending(call[t].target, call[t].sig)
  /\ Goto(t, "tell")
  /\ UNCHANGED <<signals, blocked, noted, state, posted, then, call, left, frames, owed, asked, ended>>

\* so_cancel fails (rc is not 0) where the file is not a socket, and the
\* signal is noted only then.
KillTell(t) ==
  /\ At(t, "tell")
  /\ LET u == call[t].target
         how == call[t].how
     IN /\ \/ how \in {"note", "both", "cancel"} /\ Note(u)
           \/ how \in {"post", "cancel", "kernel"} /\ UNCHANGED noted
        /\ IF how \in {"post", "both"} THEN Post(u) ELSE UNCHANGED posted
        /\ owed' = IF how = "kernel" THEN owed \cup {call[t].sig} ELSE owed
  /\ Goto(t, "leave")
  /\ UNCHANGED <<signals, pending, blocked, state, then, call, left, frames, asked, ended>>

KillLeave(t) ==
  /\ At(t, "leave")
  /\ call' = [call EXCEPT ![t] = NoCall]
  /\ IF noted[t] /\ ~SignalsBlocked({t}) THEN DeliverPending(t, "run")
                                        ELSE Goto(t, "run") /\ UNCHANGED <<noted, then>>
  /\ UNCHANGED <<signals, pending, blocked, state, posted, left, frames, owed, asked, ended>>

-----------------------------------------------------------------------------
(***************************************************************************)
(* The other calls.                                                        *)
(***************************************************************************)
Raise(t, s) ==
  /\ At(t, "run") /\ Spend(t)
  /\ signals[t][s] # "IGN"
  /\ AddPending(t, s)
  /\ DeliverOrNote(t)
  /\ UNCHANGED <<signals, blocked, state, posted, call, frames, owed, asked, ended>>

\* pthread_yield, where a running thread learns of a noted signal.  The ends
\* of pthread_mutex_lock and _trylock do the same.
Yield(t) ==
  /\ At(t, "run") /\ noted[t] /\ ~SignalsBlocked({})
  /\ DeliverPending(t, "run")
  /\ UNCHANGED <<signals, pending, blocked, state, posted, call, left, frames, owed, asked, ended>>

\* pthread_sigaction, and pthread_signal with a handler.
Install(t, s, m) ==
  /\ At(t, "run") /\ Spend(t)
  /\ signals' = [signals EXCEPT ![t][s] = m]
  /\ IF m = "IGN" \/ (m = "DFL" /\ s \in Fatal) THEN DelPending(t, s) ELSE UNCHANGED pending
  /\ UNCHANGED <<blocked, noted, state, posted, pc, then, call, frames, owed, asked, ended>>

\* pthread_signal(s, SIG_ACK): by the handler of s, or once it has returned.
Ack(t, s) ==
  /\ At(t, "run") /\ s \in blocked[t]
  /\ \/ /\ Outside(t) /\ s \in unacked[t]
        /\ own' = [own EXCEPT ![t] = @ \ {s}]
        /\ unacked' = [unacked EXCEPT ![t] = @ \ {s}]
        /\ UNCHANGED frames
     \/ /\ ~Outside(t) /\ Top(t).sig = s /\ Top(t).mode = "ACK"
        /\ UNCHANGED <<own, unacked>>
        /\ frames' = [frames EXCEPT ![t][Len(frames[t])].acked = TRUE]
  /\ Block(t, blocked[t] \ {s})
  /\ DeliverOrNote(t)
  /\ UNCHANGED <<signals, pending, state, posted, call, left, owed, old, ended>>

\* pthread_sigmask; the masks are the application's own outside of handlers.
Sigmask(t, new) ==
  /\ At(t, "run") /\ Outside(t) /\ Spend(t)
  /\ Block(t, new)
  /\ own' = [own EXCEPT ![t] = new]
  /\ unacked' = [unacked EXCEPT ![t] = {}]
  /\ IF SignalsBlocked({}) THEN UNCHANGED <<noted, pc, then>> ELSE DeliverPending(t, "run")
  /\ UNCHANGED <<signals, pending, state, posted, call, frames, owed, old, ended>>

NewMasks(t) == Masks \cup {blocked[t] \cup m : m \in Masks} \cup {blocked[t] \ m : m \in Masks}

-----------------------------------------------------------------------------
(***************************************************************************)
(* The calls that wait, made outside of handlers.                          *)
(***************************************************************************)
WaitBegins(t, w) ==
  /\ NewState(t, Waits[w])
  /\ posted' = [posted EXCEPT ![t] = FALSE]
  /\ Goto(t, w)

WaitStart(t, w) ==
  /\ At(t, "run") /\ Outside(t) /\ Spend(t)
  /\ WaitBegins(t, w)
  /\ UNCHANGED <<masks, then, call, frames, owed, asked, ended>>

\* pthread_sigsuspend sets the mask and pauses.
SuspendStart(t, mask) ==
  /\ At(t, "run") /\ Outside(t) /\ Spend(t)
  /\ old' = [old EXCEPT ![t] = blocked[t]]
  /\ Block(t, mask)
  /\ WaitBegins(t, "suspend")
  /\ UNCHANGED <<signals, pending, noted, then, call, frames, owed, own, unacked, ended>>

WaitPosted(t) ==
  /\ \E w \in {"sleep", "pause", "suspend"} : At(t, w)
  /\ posted[t]
  /\ NewState(t, "PS_RUNNING")
  /\ DeliverPending(t, IF pc[t] = "suspend" THEN "restore" ELSE "run")
  /\ UNCHANGED <<signals, pending, blocked, posted, call, left, frames, owed, asked, ended>>

\* The time of a sleep is over (or the kernel has interrupted it): what is
\* pending stays so.
SleepEnds(t) ==
  /\ At(t, "sleep")
  /\ NewState(t, "PS_RUNNING")
  /\ Goto(t, "run")
  /\ UNCHANGED <<masks, posted, then, call, left, frames, owed, asked, ended>>

Restore(t) ==
  /\ At(t, "restore")
  /\ Block(t, old[t])
  /\ Goto(t, "run")
  /\ UNCHANGED <<signals, pending, noted, state, posted, then, call, left, frames, owed, asked, ended>>

\* read or write has moved data, or failed: signals are delivered only when
\* its result, a number of bytes, is EINTR.
FdDone(t) ==
  /\ At(t, "fd")
  /\ NewState(t, "PS_RUNNING")
  /\ \/ Goto(t, "run") /\ UNCHANGED <<noted, then>>
     \/ DeliverPending(t, "run")
  /\ UNCHANGED <<signals, pending, blocked, posted, call, left, frames, owed, asked, ended>>

\* locking: the region is free at last, or a signal is noted between two
\* attempts; it stays noted.
LockGranted(t) ==
  /\ At(t, "lock")
  /\ NewState(t, "PS_RUNNING")
  /\ Goto(t, "run")
  /\ UNCHANGED <<masks, posted, then, call, left, frames, owed, asked, ended>>

LockInterrupted(t) == noted[t] /\ LockGranted(t)

-----------------------------------------------------------------------------
Handled(t) == DeliverNext(t) \/ DeliverEnd(t) \/ HandlerReturns(t)

KillGoesOn(t) == KillAdd(t) \/ KillTell(t) \/ KillLeave(t)

WaitEnds(t) == WaitPosted(t) \/ SleepEnds(t) \/ Restore(t) \/ LockInterrupted(t)

Calls(t) ==
  \/ KillEnter(t) \/ Yield(t)
  \/ \E s \in Sigs : Raise(t, s) \/ Ack(t, s)
  \/ \E s \in Sigs, m \in NewModes : Install(t, s, m)
  \/ \E new \in NewMasks(t) : Sigmask(t, new)
  \/ \E w \in {"sleep", "pause", "fd", "lock"} : WaitStart(t, w)
  \/ \E mask \in Masks : SuspendStart(t, mask)

SigNext ==
  \/ \E t \in Threads : \/ Handled(t) \/ KillGoesOn(t) \/ WaitEnds(t) \/ Calls(t)
                        \/ FdDone(t) \/ LockGranted(t)
  \/ \E s \in Sigs : EmxHandler(s)
=============================================================================
